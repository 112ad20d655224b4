----------------------------- MODULE WikiProofs -----------------------------
(***************************************************************************)
(* Proofs about WikiTools for any number of authors, scopes and contents,  *)
(* and any number of calls, page versions and events.                      *)
(***************************************************************************)
EXTENDS WikiTools, TLAPS

-----------------------------------------------------------------------------
(* The inductive invariant. *)

Steps == {"start", "resolve", "fetch", "item", "sent", "verify"}
Unsent == {"start", "resolve", "fetch", "item"}
Pages == {NoPage} \cup [etag : Nat, content : Contents, id : Nat]
Responses ==
  [status : {None, "saved", "refused", "error"}] \cup [status : {"saved"}, page : Pages]
Waiting ==
  [at : Steps, n : Nat, tool : {"read", "link", "create", "update"}, id : Nat \cup {None},
   etag : Nat \cup {None}, content : Contents \cup {None},
   project : {s.project : s \in Scopes} \cup {None}, scope : Scopes \cup {None},
   response : Responses]
Answered ==
  [at : {"done"}, n : Nat, base : Pages, saved : BOOLEAN,
   result : Untouched \cup Done \cup {"OUTCOME_UNKNOWN", "UNVERIFIED"}]
Puts ==
  [kind : {"put"}, n : Nat, base : Pages, scope : Scopes, match : SUBSET (Nat \cup {None}),
   content : Contents]
Patches == [kind : {"patch"}, n : Nat, rev : SUBSET Nat]

Typed ==
  /\ config \in Scopes \cup {None}
  /\ launcher \in [at : {"down", "starting", "up", "draining"}, scope : Scopes \cup {None}]
  /\ launcher.at \in {"down", "starting"} => \A a \in Authors : call[a] = Idle
  /\ call \in [Authors -> {Idle} \cup Waiting \cup Answered]
  /\ known \in [Authors -> Pages] /\ page \in [Scopes -> Pages]
  /\ wire \subseteq Puts \cup Patches
  /\ item \in [rev : Nat, artifacts : Nat, hyperlink : BOOLEAN]
  /\ version \in Nat /\ calls \in Nat

\* How far a call is, and what it then holds.
Progress ==
  \A a \in Authors : call[a].at \in Steps =>
    /\ call[a].at # "start" => call[a].scope \in Scopes
    /\ call[a].at \in {"item", "verify"} => call[a].tool = "link"
    /\ call[a].tool \in {"create", "update"} => call[a].content \in Contents
    /\ call[a].tool # "update" => call[a].etag = None
    /\ call[a].tool = "update" => call[a].etag = known[a].etag
    /\ call[a].at \in Unsent => call[a].response.status = None
    /\ call[a].at = "verify" => call[a].response.status = "saved"
    /\ call[a].tool # "link" /\ call[a].response.status = "saved" =>
         call[a].response.page \in Pages

\* Every call has its number, and a request on the wire is the one request of
\* its call, which did not go out earlier or come to an answer.
Numbered ==
  /\ \A r \in wire : r.n \in 1 .. calls
  /\ \A r, q \in wire : r.n = q.n => r = q
  /\ \A a \in Authors : call[a].at # "idle" => call[a].n \in 1 .. calls
  /\ \A a, b \in Authors :
       call[a].at # "idle" /\ call[b].at # "idle" /\ call[a].n = call[b].n => a = b
  /\ \A a \in Authors, r \in wire : call[a].at \in Steps /\ r.n = call[a].n =>
       /\ call[a].at = "sent" /\ call[a].response.status = None
       /\ r.kind = "patch" <=> call[a].tool = "link"

\* The pages somebody still remembers, and those that are there.
Seen ==
  {page[s] : s \in Scopes} \cup {known[a] : a \in Authors}
    \cup {call[a].base : a \in {b \in Authors : call[b].at = "done"}}
    \cup {call[a].response.page :
            a \in {b \in Authors : /\ call[b].at = "sent" /\ call[b].tool # "link"
                                   /\ call[b].response.status = "saved"}}
    \cup {r.base : r \in {q \in wire : q.kind = "put"}}

\* An ETag names one page.
Unique ==
  /\ \A p \in Seen : p = NoPage \/ p.etag \in 1 .. version
  /\ \A p, q \in Seen : p.etag = q.etag => p = q

\* A write names the page it may replace, a patch the revision it may follow.
Conditional ==
  \A r \in wire :
    /\ r.kind = "put" => r.match = {None} \/ r.match = {r.base.etag}
    /\ r.kind = "patch" =>
         \E m \in r.rev : r.rev = {m} /\ m <= item.rev /\ (m = item.rev => ~Linked(item))

IInv == Typed /\ Progress /\ Numbered /\ Unique /\ Conditional /\ AnswersTrue

-----------------------------------------------------------------------------
(* Pages. *)

\* Where nothing new is seen an ETag goes on naming one page.
LEMMA NothingNew ==
  ASSUME Unique, version \in Nat, version' \in Nat, version <= version',
         \A p \in Seen' : p \in Seen \/ p = NoPage
  PROVE  Unique'
<1> USE WikiAssumption
<1>1. NoPage.etag = None /\ \A i \in 1 .. version : i # None
  BY DEF NoPage
<1>2. \A p \in Seen : p = NoPage \/ p.etag \in 1 .. version'
  BY DEF Unique
<1> QED
  BY <1>1, <1>2 DEF Unique

\* A page with a new ETag may be seen as well.
LEMMA NewPage ==
  ASSUME Unique, version \in Nat, version' = version + 1,
         NEW new, new.etag = version + 1,
         \A p \in Seen' : p \in Seen \/ p = NoPage \/ p = new
  PROVE  Unique'
<1> USE WikiAssumption
<1>1. NoPage.etag = None /\ \A i \in 1 .. version' : i # None
  BY DEF NoPage
<1>2. \A p \in Seen : p = NoPage \/ p.etag \in 1 .. version
  BY DEF Unique
<1>3. \A p \in Seen' : p = NoPage \/ p.etag \in 1 .. version'
  BY <1>2
<1>4. ASSUME NEW p \in Seen', NEW q \in Seen', p.etag = q.etag PROVE p = q
  BY <1>1, <1>2, <1>4 DEF Unique
<1> QED
  BY <1>3, <1>4 DEF Unique

LEMMA SeenPages ==
  ASSUME IInv
  PROVE  /\ \A s \in Scopes : page[s] \in Seen
         /\ \A a \in Authors : /\ known[a] \in Seen
                               /\ call[a].at = "done" => call[a].base \in Seen
         /\ \A r \in wire : r.kind = "put" => r.base \in Seen
BY DEF Seen

LEMMA CallTyped ==
  ASSUME IInv, NEW a \in Authors
  PROVE  /\ call[a].at \in Steps => call[a] \in Waiting
         /\ call[a].at = "done" => call[a] \in Answered
         /\ call[a].at = "idle" => call[a] = Idle
         /\ call[a].at \in Steps \cup {"done", "idle"}
BY DEF IInv, Typed, Waiting, Answered, Idle, Steps

-----------------------------------------------------------------------------
(* Steps of a call. *)

\* The answer of a call.
LEMMA AnswerSafe ==
  ASSUME IInv, NEW a \in Authors, call[a].at \in Steps, NEW base \in Pages,
         base = NoPage \/ base \in Seen,
         NEW result \in Untouched \cup Done \cup {"OUTCOME_UNKNOWN", "UNVERIFIED"},
         Answer(a, result, base), UNCHANGED <<Session, Clients, Service>>,
         result \in Done => call[a].response.status = "saved",
         result \in Untouched =>
           call[a].response.status # "saved" /\ \A r \in wire : r.n # call[a].n
  PROVE  IInv'
<1> USE WikiAssumption
<1>1. call[a] \in Waiting
  BY CallTyped
<1>2. PICK c : c = [at |-> "done", n |-> call[a].n, result |-> result, base |-> base,
                    saved |-> call[a].response.status = "saved"]
  OBVIOUS
<1>3. c \in Answered
  BY <1>1, <1>2, Zenon DEF Answered, Waiting
<1>4. c.at = "done" /\ c.n = call[a].n /\ c.base = base
  BY <1>2
<1>5. call'[a] = c /\ \A b \in Authors \ {a} : call'[b] = call[b]
  BY <1>2 DEF Answer, IInv, Typed
<1>6. UNCHANGED <<config, launcher, events, known, calls, wire, page, item, version>>
  BY DEF Session, Clients, Service
<1>7. Typed'
  BY <1>2, <1>3, <1>6, CallTyped DEF Answer, IInv, Typed, Steps, Idle
<1>8. Progress' /\ Numbered' /\ Conditional'
  BY <1>4, <1>5, <1>6 DEF IInv, Progress, Numbered, Conditional, Steps, Linked
<1>9. Unique'
  BY <1>4, <1>5, <1>6, NothingNew DEF IInv, Typed, Seen
<1>10. AnswersTrue'
  <2>1. c.result = result /\ (c.saved <=> call[a].response.status = "saved")
    BY <1>2
  <2> HIDE DEF Seen
  <2>2. TypeOK'
    BY <1>4, <1>5, <1>6, <1>7, <2>1 DEF IInv, AnswersTrue, TypeOK, At, Typed
  <2> QED
    BY <1>4, <1>5, <1>6, <2>1, <2>2 DEF IInv, AnswersTrue, At
<1> QED
  BY <1>7, <1>8, <1>9, <1>10 DEF IInv

\* An answer without a page.  It says that nothing was written only if no
\* request went out, or one that was refused.
LEMMA RefuseSafe ==
  ASSUME IInv, NEW a \in Authors, call[a].at \in Steps,
         NEW result \in Untouched \cup Done \cup {"OUTCOME_UNKNOWN", "UNVERIFIED"},
         Refuse(a, result), UNCHANGED <<Session, Clients, Service>>,
         result \in Done => call[a].response.status = "saved",
         result \in Untouched =>
           call[a].at \in Unsent \/ call[a].response.status \in {"refused", "error"}
  PROVE  IInv'
<1>1. result \in Untouched =>
        call[a].response.status # "saved" /\ \A r \in wire : r.n # call[a].n
  BY WikiAssumption DEF IInv, Progress, Numbered, Unsent
<1>2. NoPage \in Pages
  BY DEF Pages
<1> QED
  BY <1>1, <1>2, AnswerSafe DEF Refuse

\* An answer with a page, before any request.
LEMMA UnsentSafe ==
  ASSUME IInv, NEW a \in Authors, call[a].at \in Unsent, NEW base \in Pages, base \in Seen,
         NEW result \in Untouched, Answer(a, result, base), UNCHANGED <<Session, Clients, Service>>
  PROVE  IInv'
<1>1. call[a].at \in Steps /\ result \notin Done
  BY DEF Unsent, Steps, Untouched, Done
<1>2. call[a].response.status # "saved" /\ \A r \in wire : r.n # call[a].n
  BY <1>1, WikiAssumption DEF IInv, Progress, Numbered, Unsent
<1> QED
  BY <1>1, <1>2, AnswerSafe

\* A call goes on to its next step, without a request.
LEMMA GoOnSafe ==
  ASSUME IInv, NEW a \in Authors, call[a].at \in Steps, NEW c \in Waiting,
         call' = [call EXCEPT ![a] = c], UNCHANGED <<Session, Clients, Service>>,
         c.n = call[a].n, c.tool = call[a].tool, c.etag = call[a].etag,
         c.content = call[a].content, c.response = call[a].response,
         c.at # "start" /\ c.scope \in Scopes,
         c.at \in {"item", "verify"} => c.tool = "link",
         \/ c.at \in Unsent /\ call[a].at \in Unsent
         \/ c.at = "verify" /\ call[a].at = "sent" /\ call[a].response.status = "saved"
  PROVE  IInv'
<1> USE WikiAssumption
<1>1. call'[a] = c /\ \A b \in Authors \ {a} : call'[b] = call[b]
  BY DEF IInv, Typed
<1>2. UNCHANGED <<config, launcher, events, known, calls, wire, page, item, version>>
  BY DEF Session, Clients, Service
<1>3. c.at \in Steps \ {"sent"}
  BY DEF Steps, Unsent
<1>4. Typed'
  BY <1>2, CallTyped DEF IInv, Typed, Steps, Idle
<1>5. Progress' /\ Conditional'
  BY <1>1, <1>2 DEF IInv, Progress, Conditional, Unsent, Linked
<1>6. Numbered'
  BY <1>1, <1>2, <1>3 DEF IInv, Numbered, Progress, Steps, Unsent
<1>7. Unique'
  BY <1>1, <1>2, <1>3, NothingNew DEF IInv, Typed, Seen, Steps
<1>8. AnswersTrue'
  BY <1>1, <1>2, <1>3, <1>4 DEF IInv, AnswersTrue, TypeOK, At, Typed, Steps
<1> QED
  BY <1>4, <1>5, <1>6, <1>7, <1>8 DEF IInv

LEMMA ContextSafe ==
  ASSUME IInv, NEW a \in Authors, Context(a)
  PROVE  IInv'
<1> USE WikiAssumption
<1>1. call[a].at = "start" /\ UNCHANGED <<Session, Clients, Service>>
  BY DEF Context, At
<1>2. call[a].at \in Steps /\ call[a] \in Waiting
  BY <1>1, CallTyped DEF Steps
<1>3. CASE Refuse(a, Failure(a))
  <2>1. PICK result \in {"INVALID_READ", "INCOMPLETE", "INVALID_WRITE"} : result = Failure(a)
    BY DEF Failure
  <2> QED
    BY <1>1, <1>2, <1>3, <2>1, RefuseSafe DEF Untouched, Done, Unsent
<1>4. CASE config # None /\ call' = [call EXCEPT ![a] =
                      [@ EXCEPT !.at = IF call[a].id = None THEN "fetch" ELSE "resolve",
                                !.project = None, !.scope = config]]
  <2>1. PICK c : c = [call[a] EXCEPT !.at = IF call[a].id = None THEN "fetch" ELSE "resolve",
                                     !.project = None, !.scope = config]
    OBVIOUS
  <2>2. config \in Scopes
    BY <1>4 DEF IInv, Typed
  <2>3. PICK step \in {"fetch", "resolve"} :
          c = [call[a] EXCEPT !.at = step, !.project = None, !.scope = config]
    BY <2>1
  <2>4. c \in Waiting
    BY <1>2, <2>2, <2>3, Zenon DEF Waiting, Steps
  <2>5. /\ c.n = call[a].n /\ c.tool = call[a].tool /\ c.etag = call[a].etag
        /\ c.content = call[a].content /\ c.response = call[a].response
        /\ c.at = step /\ c.scope = config
    BY <1>2, <2>3 DEF Waiting
  <2>6. call' = [call EXCEPT ![a] = c]
    BY <1>4, <2>1 DEF IInv, Typed
  <2> QED
    BY <1>1, <1>2, <2>2, <2>4, <2>5, <2>6, GoOnSafe DEF Unsent
<1> QED
  BY <1>3, <1>4 DEF Context

LEMMA GotoSafe ==
  ASSUME IInv, NEW a \in Authors, call[a].at \in Steps, call[a].at # "start", NEW step \in Steps,
         Goto(a, step), UNCHANGED <<Session, Clients, Service>>,
         step \in {"item", "verify"} => call[a].tool = "link",
         \/ step \in {"fetch", "item"} /\ call[a].at \in Unsent
         \/ step = "verify" /\ call[a].at = "sent" /\ call[a].response.status = "saved"
  PROVE  IInv'
<1>1. call[a] \in Waiting
  BY CallTyped
<1>2. PICK c : c = [call[a] EXCEPT !.at = step]
  OBVIOUS
<1>3. c \in Waiting
  BY <1>1, <1>2, Zenon DEF Waiting
<1>4. /\ c.n = call[a].n /\ c.tool = call[a].tool /\ c.etag = call[a].etag
      /\ c.content = call[a].content /\ c.response = call[a].response
      /\ c.at = step /\ c.scope = call[a].scope
  BY <1>1, <1>2 DEF Waiting
<1>5. call' = [call EXCEPT ![a] = c]
  BY <1>2 DEF Goto, IInv, Typed
<1>6. call[a].scope \in Scopes
  BY DEF IInv, Progress
<1> QED
  BY <1>3, <1>4, <1>5, <1>6, GoOnSafe DEF Unsent

\* Every step of a call that answers or goes on without a request.
LEMMA ReadSafe ==
  ASSUME IInv, NEW a \in Authors,
         Resolve(a) \/ FetchFails(a) \/ ReadPage(a) \/ Lost(a) \/ LinkPage(a) \/ Verify(a)
  PROVE  IInv'
<1>1. /\ call[a].at \in Steps \ {"start"} /\ call[a] \in Waiting
      /\ UNCHANGED <<Session, Clients, Service>>
  BY CallTyped DEF Resolve, FetchFails, ReadPage, Lost, LinkPage, Verify, At, Steps
<1>2. CASE Resolve(a)
  BY <1>1, <1>2, RefuseSafe, GotoSafe DEF Resolve, At, Unsent, Steps, Untouched, Done
<1>3. CASE FetchFails(a)
  BY <1>1, <1>3, RefuseSafe DEF FetchFails, At, Unsent, Untouched, Done
<1>4. CASE ReadPage(a)
  <2>1. call[a].at = "fetch" /\ call[a].scope \in Scopes
    BY <1>4 DEF ReadPage, At, IInv, Progress, Steps
  <2>2. CASE Refuse(a, "PAGE_NOT_FOUND")
    BY <1>1, <2>1, <2>2, RefuseSafe DEF Unsent, Untouched, Done
  <2>3. CASE Answer(a, "read", Found(a))
    <3>1. Found(a) \in Pages /\ Found(a) \in Seen
      BY <2>1, SeenPages DEF Found, IInv, Typed
    <3> QED
      BY <1>1, <2>1, <2>3, <3>1, UnsentSafe DEF Unsent, Untouched
  <2> QED
    BY <1>4, <2>2, <2>3 DEF ReadPage
<1>5. CASE Lost(a)
  BY <1>1, <1>5, RefuseSafe DEF Lost, At, Unknown, Untouched, Done
<1>6. CASE LinkPage(a)
  BY <1>1, <1>6, RefuseSafe, GotoSafe DEF LinkPage, At, Unsent, Steps, Untouched, Done
<1>7. CASE Verify(a)
  BY <1>1, <1>7, RefuseSafe DEF Verify, At, IInv, Progress, Untouched, Done
<1> QED
  BY <1>2, <1>3, <1>4, <1>5, <1>6, <1>7

\* The response of the service becomes the answer.
LEMMA ReceiveSafe ==
  ASSUME IInv, NEW a \in Authors, Receive(a)
  PROVE  IInv'
<1>1. /\ call[a].at = "sent" /\ call[a].at \in Steps /\ call[a] \in Waiting
      /\ call[a].tool # "link" /\ UNCHANGED <<Session, Clients, Service>>
  BY CallTyped DEF Receive, At, Steps
<1>2. CASE /\ call[a].response.status = "saved"
           /\ Answer(a, Written(a), call[a].response.page)
  <2>1. call[a].response.page \in Pages /\ call[a].response.page \in Seen
    BY <1>1, <1>2 DEF IInv, Progress, Seen
  <2>2. PICK result \in {"created", "updated"} : result = Written(a)
    BY DEF Written
  <2>3. /\ result \in Untouched \cup Done \cup {"OUTCOME_UNKNOWN", "UNVERIFIED"}
        /\ result \notin Untouched
    BY DEF Done, Untouched
  <2> QED
    BY <1>1, <1>2, <2>1, <2>2, <2>3, AnswerSafe
<1>3. CASE call[a].response.status = "refused" /\ Refuse(a, "CONFLICT")
  BY <1>1, <1>3, RefuseSafe DEF Untouched, Done
<1>4. CASE Refuse(a, Unknown(a))
  BY <1>1, <1>4, RefuseSafe DEF Unknown, Untouched, Done
<1> QED
  BY <1>2, <1>3, <1>4 DEF Receive

LEMMA PatchedSafe ==
  ASSUME IInv, NEW a \in Authors, Patched(a)
  PROVE  IInv'
<1>1. /\ call[a].at = "sent" /\ call[a].at \in Steps /\ call[a] \in Waiting
      /\ call[a].tool = "link" /\ UNCHANGED <<Session, Clients, Service>>
  BY CallTyped DEF Patched, At, Steps
<1>2. CASE call[a].response.status = "saved" /\ Goto(a, "verify")
  BY <1>1, <1>2, GotoSafe DEF Steps
<1>3. CASE Refuse(a, "UNVERIFIED")
  BY <1>1, <1>3, RefuseSafe DEF Untouched, Done
<1> QED
  BY <1>2, <1>3 DEF Patched

\* A request goes out, the first and only one of its call.
LEMMA SendSafe ==
  ASSUME IInv, NEW a \in Authors, call[a].at \in Unsent, call[a].at # "start",
         NEW r \in Puts \cup Patches, r.n = call[a].n, r.kind = "patch" <=> call[a].tool = "link",
         r.kind = "put" =>
           r.base = known[a] /\ (r.match = {None} \/ r.match = {r.base.etag}),
         r.kind = "patch" => r.rev = {item.rev} /\ ~Linked(item),
         Send(a, r), UNCHANGED <<Session, Clients, page, item, version>>
  PROVE  IInv'
<1> USE WikiAssumption
<1>1. call[a].at \in Steps /\ call[a] \in Waiting /\ call[a].at # "idle"
  BY CallTyped DEF Unsent, Steps
<1>2. PICK c : c = [call[a] EXCEPT !.at = "sent"]
  OBVIOUS
<1>3. c \in Waiting
  BY <1>1, <1>2, Zenon DEF Waiting, Steps
<1>4. /\ c.n = call[a].n /\ c.tool = call[a].tool /\ c.etag = call[a].etag
      /\ c.content = call[a].content /\ c.response = call[a].response
      /\ c.at = "sent" /\ c.scope = call[a].scope
  BY <1>1, <1>2 DEF Waiting
<1>5. call' = [call EXCEPT ![a] = c] /\ wire' = wire \cup {r}
  BY <1>2 DEF Send, Goto, IInv, Typed
<1>6. call'[a] = c /\ \A b \in Authors \ {a} : call'[b] = call[b]
  BY <1>5 DEF IInv, Typed
<1>7. UNCHANGED <<config, launcher, events, known, calls, page, item, version>>
  BY DEF Session, Clients
<1>8. Typed'
  BY <1>1, <1>3, <1>5, <1>7, CallTyped DEF IInv, Typed, Idle
<1>9. call[a].response.status = None /\ \A q \in wire : q.n # call[a].n
  BY <1>1 DEF IInv, Progress, Numbered, Unsent
<1>10. Progress'
  BY <1>1, <1>4, <1>6, <1>7 DEF IInv, Progress, Unsent
<1>11. Numbered'
  BY <1>1, <1>4, <1>5, <1>6, <1>7, <1>9 DEF IInv, Numbered, Steps
<1>12. Conditional'
  <2>1. r.kind = "patch" =>
          \E m \in r.rev : r.rev = {m} /\ m <= item.rev /\ (m = item.rev => ~Linked(item))
    BY DEF IInv, Typed
  <2> QED
    BY <1>5, <1>7, <2>1 DEF IInv, Conditional, Linked
<1>13. Unique'
  <2>1. \A p \in Seen' : p \in Seen
    BY <1>4, <1>5, <1>6, <1>7, <1>9 DEF Seen
  <2> QED
    BY <1>7, <2>1, NothingNew DEF IInv, Typed
<1>14. AnswersTrue'
  <2>1. TypeOK'
    BY <1>1, <1>4, <1>6, <1>7, <1>8 DEF IInv, AnswersTrue, TypeOK, At, Typed
  <2>2. \A b \in Authors : call[b].at = "done" => call[b].n # call[a].n
    BY <1>1 DEF IInv, Numbered, Unsent
  <2> QED
    BY <1>4, <1>5, <1>6, <2>1, <2>2 DEF IInv, AnswersTrue, At
<1> QED
  BY <1>8, <1>10, <1>11, <1>12, <1>13, <1>14 DEF IInv

LEMMA WriteSafe ==
  ASSUME IInv, NEW a \in Authors, WritePage(a)
  PROVE  IInv'
<1> USE WikiAssumption
<1>1. /\ call[a].at = "fetch" /\ call[a].at \in Steps /\ call[a] \in Waiting
      /\ call[a].tool \in {"create", "update"} /\ call[a].at \in Unsent
      /\ UNCHANGED <<Session, Clients, page, item, version>>
  BY CallTyped DEF WritePage, At, Steps, Unsent
<1>2. call[a].scope \in Scopes /\ call[a].content \in Contents
  BY <1>1 DEF IInv, Progress
<1>3. CASE UNCHANGED wire
  <2>1. UNCHANGED <<Session, Clients, Service>>
    BY <1>1, <1>3 DEF Service
  <2>2. CASE Refuse(a, "CONFLICT") \/ Refuse(a, "INVALID_WRITE")
    BY <1>1, <2>1, <2>2, RefuseSafe DEF Untouched, Done
  <2>3. CASE Answer(a, "unchanged", Found(a))
    <3>1. Found(a) \in Pages /\ Found(a) \in Seen
      BY <1>2, SeenPages DEF Found, IInv, Typed
    <3> QED
      BY <1>1, <2>1, <2>3, <3>1, UnsentSafe DEF Untouched
  <2>4. CASE Send(a, Put(a))
    <3>1. Put(a) \in wire /\ Put(a).n = call[a].n
      BY <1>3, <2>4 DEF Send, Put
    <3> QED
      BY <1>1, <3>1 DEF IInv, Numbered, Unsent
  <2> QED
    BY <2>2, <2>3, <2>4 DEF WritePage
<1>4. CASE Send(a, Put(a))
  <2>1. PICK r : r = Put(a)
    OBVIOUS
  <2>2. known[a] \in Pages /\ {call[a].etag} \in SUBSET (Nat \cup {None}) /\ call[a].n \in Nat
    BY <1>1 DEF IInv, Typed, Waiting
  <2>3. r \in Puts
    BY <1>2, <2>1, <2>2, Zenon DEF Put, Puts, Precondition
  <2>4. /\ r.n = call[a].n /\ r.kind = "put" /\ r.base = known[a]
        /\ r.match = {None} \/ r.match = {r.base.etag}
    BY <1>1, <2>1 DEF Put, Precondition, IInv, Progress
  <2> QED
    BY <1>1, <1>4, <2>1, <2>3, <2>4, SendSafe
<1> QED
  BY <1>3, <1>4 DEF WritePage

LEMMA LinkSafe ==
  ASSUME IInv, NEW a \in Authors, LinkItem(a)
  PROVE  IInv'
<1>1. /\ call[a].at = "item" /\ call[a].at \in Steps /\ call[a] \in Waiting
      /\ call[a].tool = "link" /\ call[a].at \in Unsent
      /\ UNCHANGED <<Session, Clients, page, item, version>>
  BY CallTyped DEF LinkItem, At, Steps, Unsent, IInv, Progress
<1>2. CASE UNCHANGED wire /\ (Refuse(a, "INCOMPLETE") \/ Refuse(a, "UNCHANGED")
                                \/ Refuse(a, "BLOCKED"))
  <2>1. UNCHANGED <<Session, Clients, Service>>
    BY <1>1, <1>2 DEF Service
  <2> QED
    BY <1>1, <1>2, <2>1, RefuseSafe DEF Untouched, Done
<1>3. CASE ~Linked(item) /\ Send(a, [kind |-> "patch", n |-> call[a].n, rev |-> Revision])
  <2>1. PICK r : r = [kind |-> "patch", n |-> call[a].n, rev |-> Revision]
    OBVIOUS
  <2>2. r \in Patches
    BY <1>1, <2>1 DEF Patches, Revision, IInv, Typed, Waiting
  <2>3. r.n = call[a].n /\ r.kind = "patch" /\ r.rev = {item.rev}
    BY <2>1 DEF Revision
  <2> QED
    BY <1>1, <1>3, <2>1, <2>2, <2>3, SendSafe
<1> QED
  BY <1>2, <1>3 DEF LinkItem

LEMMA SubmitSafe ==
  ASSUME IInv, NEW a \in Authors, NEW request \in Requests(a), NEW s \in Scopes,
         Submit(a, request, s.project)
  PROVE  IInv'
<1> USE WikiAssumption
<1>1. /\ launcher.at = "up" /\ call[a] = Idle /\ calls' = calls + 1
      /\ UNCHANGED <<config, launcher, events, known, wire, page, item, version>>
  BY DEF Submit, Session, Service
<1>2. PICK c : c = [at |-> "start", n |-> calls + 1, tool |-> request.tool, id |-> request.id,
                    etag |-> request.etag, content |-> request.content, project |-> s.project,
                    scope |-> None, response |-> NoResponse]
  OBVIOUS
<1>3. /\ request.tool \in {"read", "link", "create", "update"}
      /\ request.id \in Nat \cup {None} /\ request.etag \in Nat \cup {None}
      /\ request.content \in Contents \cup {None}
      /\ request.tool \in {"create", "update"} => request.content \in Contents
      /\ request.tool # "update" => request.etag = None
      /\ request.tool = "update" => request.etag = known[a].etag
  <2>1. known[a] \in Pages
    BY DEF IInv, Typed
  <2> QED
    BY <2>1 DEF Requests, Pages
<1>4. NoResponse \in Responses /\ NoResponse.status = None
  BY DEF NoResponse, Responses
<1>5. c \in Waiting
  <2>1. calls + 1 \in Nat /\ s.project \in {t.project : t \in Scopes}
    BY DEF IInv, Typed
  <2> QED
    BY <1>2, <1>3, <1>4, <2>1, Zenon DEF Waiting, Steps
<1>6. /\ c.at = "start" /\ c.n = calls + 1 /\ c.tool = request.tool /\ c.etag = request.etag
      /\ c.content = request.content /\ c.response.status = None
  BY <1>2, <1>4
<1>7. call' = [call EXCEPT ![a] = c]
  BY <1>2 DEF Submit
<1>8. call'[a] = c /\ \A b \in Authors \ {a} : call'[b] = call[b]
  BY <1>7 DEF IInv, Typed
<1>9. Typed'
  BY <1>1, <1>5, <1>7 DEF IInv, Typed
<1>10. Progress' /\ Conditional'
  BY <1>1, <1>3, <1>6, <1>8 DEF IInv, Progress, Conditional, Unsent, Linked
<1>11. Numbered'
  <2>1. \A r \in wire : r.n # calls + 1
    BY DEF IInv, Numbered, Typed
  <2>2. \A b \in Authors : call[b].at # "idle" => call[b].n # calls + 1
    BY DEF IInv, Numbered, Typed
  <2>3. 1 .. calls \subseteq 1 .. calls + 1 /\ calls + 1 \in 1 .. calls + 1
    BY DEF IInv, Typed
  <2> QED
    BY <1>1, <1>6, <1>8, <2>1, <2>2, <2>3 DEF IInv, Numbered
<1>12. Unique'
  <2>1. \A p \in Seen' : p \in Seen
    BY <1>1, <1>6, <1>8 DEF Seen
  <2> QED
    BY <1>1, <2>1, NothingNew DEF IInv, Typed
<1>13. AnswersTrue'
  BY <1>1, <1>6, <1>8 DEF IInv, AnswersTrue, TypeOK, At
<1> QED
  BY <1>9, <1>10, <1>11, <1>12, <1>13 DEF IInv

\* An author gets its answer.
LEMMA DeliverSafe ==
  ASSUME IInv, NEW a \in Authors, Deliver(a)
  PROVE  IInv'
<1> USE WikiAssumption
<1>1. /\ call[a].at = "done" /\ call[a] \in Answered /\ call' = [call EXCEPT ![a] = Idle]
      /\ known' = [known EXCEPT ![a] = IF call[a].base = NoPage THEN @ ELSE call[a].base]
      /\ UNCHANGED <<config, launcher, events, calls, wire, page, item, version>>
  BY CallTyped DEF Deliver, At, Session, Service
<1>2. call'[a] = Idle /\ Idle.at = "idle" /\ \A b \in Authors \ {a} : call'[b] = call[b]
  BY <1>1 DEF IInv, Typed, Idle
<1>3. /\ known' \in [Authors -> Pages] /\ known'[a] \in {known[a], call[a].base}
      /\ \A b \in Authors \ {a} : known'[b] = known[b]
  BY <1>1 DEF IInv, Typed, Answered
<1>4. Typed'
  BY <1>1, <1>3 DEF IInv, Typed
<1>5. Progress' /\ Numbered' /\ Conditional'
  BY <1>1, <1>2, <1>3 DEF IInv, Progress, Numbered, Conditional, Linked, Steps
<1>6. Unique'
  <2>1. \A p \in Seen' : p \in Seen
    BY <1>1, <1>2, <1>3 DEF Seen
  <2> QED
    BY <1>1, <2>1, NothingNew DEF IInv, Typed
<1>7. AnswersTrue'
  BY <1>1, <1>2 DEF IInv, AnswersTrue, TypeOK, At
<1> QED
  BY <1>4, <1>5, <1>6, <1>7 DEF IInv

-----------------------------------------------------------------------------
(* The launcher and people. *)

LEMMA LauncherSafe ==
  ASSUME IInv, Launch \/ Spawn \/ ClientEnds \/ Configure \/ UNCHANGED vars
  PROVE  IInv'
<1> USE WikiAssumption
<1>1. UNCHANGED <<call, known, calls, wire, page, item, version>>
  BY DEF Launch, Spawn, ClientEnds, Configure, Clients, Service, vars
<1>2. /\ launcher' \in [at : {"down", "starting", "up", "draining"}, scope : Scopes \cup {None}]
      /\ config' \in Scopes \cup {None}
      /\ launcher.at \in {"up", "draining"} \/ \A a \in Authors : call[a] = Idle
      /\ launcher'.at \in {"down", "starting"} => \A a \in Authors : call[a] = Idle
  <2>1. CASE Launch
    BY <2>1 DEF Launch, IInv, Typed, Down
  <2>2. CASE Spawn
    BY <2>2 DEF Spawn, IInv, Typed, Down
  <2>3. CASE ClientEnds
    BY <2>3 DEF ClientEnds, IInv, Typed
  <2>4. CASE Configure \/ UNCHANGED vars
    BY <2>4 DEF Configure, vars, IInv, Typed
  <2> QED
    BY <2>1, <2>2, <2>3, <2>4
<1>3. Typed'
  BY <1>1, <1>2 DEF IInv, Typed
<1>4. Progress' /\ Numbered' /\ Conditional'
  BY <1>1 DEF IInv, Progress, Numbered, Conditional, Linked
<1>5. Unique'
  BY <1>1, NothingNew DEF IInv, Typed, Seen
<1>6. AnswersTrue'
  BY <1>1, <1>2 DEF IInv, AnswersTrue, TypeOK, At
<1> QED
  BY <1>3, <1>4, <1>5, <1>6 DEF IInv

LEMMA StopSafe ==
  ASSUME IInv, Stop
  PROVE  IInv'
<1> USE WikiAssumption
<1>1. /\ launcher' = Down /\ call' = [a \in Authors |-> Idle]
      /\ UNCHANGED <<config, known, calls, wire, page, item, version>>
  BY DEF Stop, Clients, Service
<1>2. (\A a \in Authors : call'[a] = Idle) /\ Idle.at = "idle"
  BY <1>1 DEF Idle
<1>3. Typed'
  BY <1>1 DEF IInv, Typed, Down
<1>4. Progress' /\ Numbered' /\ Conditional'
  BY <1>1, <1>2 DEF IInv, Progress, Numbered, Conditional, Linked, Steps
<1>5. Unique'
  <2>1. \A p \in Seen' : p \in Seen
    BY <1>1, <1>2 DEF Seen
  <2> QED
    BY <1>1, <2>1, NothingNew DEF IInv, Typed
<1>6. AnswersTrue'
  BY <1>1, <1>2 DEF IInv, AnswersTrue, TypeOK, At, Down
<1> QED
  BY <1>3, <1>4, <1>5, <1>6 DEF IInv

LEMMA EditPageSafe ==
  ASSUME IInv, NEW s \in Scopes, EditPage(s)
  PROVE  IInv'
<1> USE WikiAssumption
<1>1. /\ version' = version + 1
      /\ UNCHANGED <<config, launcher, call, known, calls, wire, item>>
  BY DEF EditPage, Session, Clients
<1>2. PICK new \in {Saved(s, c) : c \in Contents} \cup {NoPage} : page' = [page EXCEPT ![s] = new]
  BY DEF EditPage
<1>3. new \in Pages /\ (new = NoPage \/ new.etag = version + 1)
  BY <1>2 DEF Saved, Pages, IInv, Typed
<1>4. page'[s] = new /\ \A t \in Scopes \ {s} : page'[t] = page[t]
  BY <1>2 DEF IInv, Typed
<1>5. Typed'
  BY <1>1, <1>2, <1>3 DEF IInv, Typed
<1>6. Progress' /\ Numbered' /\ Conditional'
  BY <1>1 DEF IInv, Progress, Numbered, Conditional, Linked
<1>7. Unique'
  <2>1. \A p \in Seen' : p \in Seen \/ p = new
    BY <1>1, <1>4 DEF Seen
  <2>2. CASE new = NoPage
    BY <1>1, <2>1, <2>2, NothingNew DEF IInv, Typed
  <2>3. CASE new.etag = version + 1
    BY <1>1, <2>1, <2>3, NewPage DEF IInv, Typed
  <2> QED
    BY <1>3, <2>2, <2>3
<1>8. AnswersTrue'
  <2>1. \A t \in Scopes : page'[t].etag \in 1 .. version' \/ page'[t] = NoPage
    BY <1>1, <1>3, <1>4 DEF IInv, AnswersTrue, TypeOK, Typed
  <2> QED
    BY <1>1, <2>1 DEF IInv, AnswersTrue, TypeOK, At
<1> QED
  BY <1>5, <1>6, <1>7, <1>8 DEF IInv

LEMMA EditItemSafe ==
  ASSUME IInv, EditItem
  PROVE  IInv'
<1> USE WikiAssumption
<1>1. UNCHANGED <<config, launcher, call, known, calls, wire, page, version>>
  BY DEF EditItem, Clients
<1>2. /\ item'.rev = item.rev + 1
      /\ item' \in [rev : Nat, artifacts : Nat, hyperlink : BOOLEAN]
  <2>1. item \in [rev : Nat, artifacts : Nat, hyperlink : BOOLEAN]
    BY DEF IInv, Typed
  <2>2. CASE item' = [rev |-> item.rev + 1, artifacts |-> 0, hyperlink |-> FALSE]
    BY <2>1, <2>2, SMT
  <2>3. PICK n \in Nat : n = item.rev + 1
    BY <2>1
  <2>4. CASE item' = [item EXCEPT !.rev = @ + 1, !.hyperlink = TRUE]
    <3>1. item' = [item EXCEPT !.rev = n, !.hyperlink = TRUE]
      BY <2>1, <2>3, <2>4
    <3> QED
      BY <2>1, <2>3, <3>1, Zenon
  <2>5. CASE item' = [item EXCEPT !.rev = @ + 1]
    <3>1. item' = [item EXCEPT !.rev = n]
      BY <2>1, <2>3, <2>5
    <3> QED
      BY <2>1, <2>3, <3>1, Zenon
  <2> QED
    BY <2>2, <2>4, <2>5 DEF EditItem
<1>3. Typed'
  BY <1>1, <1>2 DEF IInv, Typed
<1>4. Progress' /\ Numbered'
  BY <1>1 DEF IInv, Progress, Numbered
<1>5. Conditional'
  <2>1. \A r \in wire : r.kind = "patch" => \A m \in r.rev : m \in Nat
    BY DEF IInv, Typed, Puts, Patches
  <2> QED
    BY <1>1, <1>2, <2>1 DEF IInv, Conditional, Typed
<1>6. Unique'
  BY <1>1, NothingNew DEF IInv, Typed, Seen
<1>7. AnswersTrue'
  BY <1>1 DEF IInv, AnswersTrue, TypeOK, At
<1> QED
  BY <1>3, <1>4, <1>5, <1>6, <1>7 DEF IInv

-----------------------------------------------------------------------------
(* The service. *)

\* A request leaves the wire, and its response reaches the call that waits
\* for it, if any.
LEMMA RespondSafe ==
  ASSUME IInv, NEW r \in wire, wire' = wire \ {r}, NEW response \in Responses,
         Respond(r, response), UNCHANGED <<Session, Clients>>,
         response.status \in {"saved", "refused", "error"},
         r.kind = "put" /\ response.status = "saved" => response.page \in Pages,
         item' \in [rev : Nat, artifacts : Nat, hyperlink : BOOLEAN],
         page' \in [Scopes -> Pages], version' \in Nat
  PROVE  /\ Typed' /\ Progress' /\ Numbered'
         /\ \A p \in Seen' :
              \/ p \in Seen \/ p \in {page'[s] : s \in Scopes}
              \/ r.kind = "put" /\ response.status = "saved" /\ p = response.page
         /\ \A a \in Authors : call'[a].at = call[a].at
         /\ \A a \in Authors : call[a].at = "done" => call'[a] = call[a]
<1> USE WikiAssumption
<1>1. /\ UNCHANGED <<config, launcher, events, known, calls>>
      /\ r \in Puts \cup Patches /\ r.n \in Nat
  BY DEF Session, Clients, IInv, Typed, Puts, Patches
<1> DEFINE Hears(a) == call[a].at = "sent" /\ call[a].n = r.n
<1>2. \A a \in Authors : ~Hears(a) => call'[a] = call[a]
  BY DEF Respond, At
<1>3. ASSUME NEW a \in Authors, Hears(a)
      PROVE  /\ call'[a] \in Waiting
             /\ call'[a].at = "sent" /\ call'[a].n = call[a].n /\ call'[a].tool = call[a].tool
             /\ call'[a].etag = call[a].etag /\ call'[a].content = call[a].content
             /\ call'[a].scope = call[a].scope /\ call'[a].response = response
  <2>1. call[a] \in Waiting
    BY <1>3, CallTyped DEF Steps
  <2>2. call'[a] = [call[a] EXCEPT !.response = response]
    BY <1>3 DEF Respond, At
  <2>3. call'[a] \in Waiting
    BY <2>1, <2>2, Zenon DEF Waiting
  <2> QED
    BY <1>3, <2>1, <2>2, <2>3 DEF Waiting
<1>4. call' \in [Authors -> {Idle} \cup Waiting \cup Answered]
  <2>1. \A a \in Authors : call'[a] \in {Idle} \cup Waiting \cup Answered
    BY <1>2, <1>3 DEF IInv, Typed
  <2>2. call' = [a \in Authors |-> call'[a]]
    BY DEF Respond
  <2> QED
    BY <2>1, <2>2
<1>5. Typed'
  <2>1. launcher.at \in {"down", "starting"} => \A a \in Authors : call'[a] = Idle
    BY <1>2 DEF IInv, Typed, Idle
  <2> QED
    BY <1>1, <1>4, <2>1 DEF IInv, Typed
<1>6. \A a \in Authors : Hears(a) => (r.kind = "patch" <=> call[a].tool = "link")
  BY DEF IInv, Numbered, Steps
<1>7. r.kind \in {"put", "patch"}
  BY <1>1 DEF Puts, Patches
<1>8. Progress'
  <2> SUFFICES ASSUME NEW a \in Authors, call'[a].at \in Steps
               PROVE  /\ call'[a].at # "start" => call'[a].scope \in Scopes
                      /\ call'[a].at \in {"item", "verify"} => call'[a].tool = "link"
                      /\ call'[a].tool \in {"create", "update"} => call'[a].content \in Contents
                      /\ call'[a].tool # "update" => call'[a].etag = None
                      /\ call'[a].tool = "update" => call'[a].etag = known'[a].etag
                      /\ call'[a].at \in Unsent => call'[a].response.status = None
                      /\ call'[a].at = "verify" => call'[a].response.status = "saved"
                      /\ call'[a].tool # "link" /\ call'[a].response.status = "saved" =>
                           call'[a].response.page \in Pages
    BY <1>1 DEF Progress, Pages
  <2>1. CASE Hears(a)
    BY <1>1, <1>3, <1>6, <1>7, <2>1 DEF IInv, Progress, Unsent, Steps
  <2>2. CASE ~Hears(a)
    BY <1>1, <1>2, <2>2 DEF IInv, Progress
  <2> QED
    BY <2>1, <2>2
<1>9. \A a \in Authors : call'[a].at = call[a].at /\ (call[a].at # "idle" => call'[a].n = call[a].n)
  BY <1>2, <1>3
<1>10. Numbered'
  <2>1. ASSUME NEW a \in Authors, NEW q \in wire', call'[a].at \in Steps, q.n = call'[a].n
        PROVE  /\ call'[a].at = "sent" /\ call'[a].response.status = None
               /\ q.kind = "patch" <=> call'[a].tool = "link"
    <3>1. q \in wire /\ q.n # r.n
      BY <2>1 DEF IInv, Numbered
    <3>2. call[a].n = q.n /\ ~Hears(a)
      BY <1>9, <2>1, <3>1 DEF Steps
    <3> QED
      BY <1>2, <2>1, <3>1, <3>2 DEF IInv, Numbered
  <2> HIDE DEF Hears
  <2> QED
    BY <1>1, <1>9, <2>1 DEF IInv, Numbered
<1>11. \A p \in Seen' :
         \/ p \in Seen \/ p \in {page'[s] : s \in Scopes}
         \/ r.kind = "put" /\ response.status = "saved" /\ p = response.page
  BY <1>1, <1>2, <1>3, <1>6, <1>7 DEF Seen
<1>12. \A a \in Authors : call[a].at = "done" => call'[a] = call[a]
  BY <1>2
<1> QED
  BY <1>5, <1>8, <1>9, <1>10, <1>11, <1>12

\* What answers say of their calls, and what requests may do, is left alone.
LEMMA ServedSafe ==
  ASSUME IInv, NEW r \in wire, wire' = wire \ {r}, Typed', UNCHANGED launcher,
         \A a \in Authors : call'[a].at = call[a].at,
         \A a \in Authors : call[a].at = "done" => call'[a] = call[a],
         \A s \in Scopes : page'[s].etag \in 1 .. version' \/ page'[s] = NoPage
  PROVE  AnswersTrue'
<1>1. \A a \in Authors : call'[a] = Idle <=> call[a] = Idle
  BY CallTyped DEF Typed, Idle, Waiting, Answered, IInv, Steps
<1>2. TypeOK'
  BY <1>1 DEF IInv, AnswersTrue, TypeOK, At, Typed
<1> QED
  BY <1>2 DEF IInv, AnswersTrue, At

LEMMA ServePutSafe ==
  ASSUME IInv, NEW r \in wire, ServePut(r)
  PROVE  IInv'
<1> USE WikiAssumption
<1>1. /\ r.kind = "put" /\ wire' = wire \ {r} /\ UNCHANGED <<Session, Clients, item>>
      /\ r \in Puts /\ r.scope \in Scopes /\ version \in Nat
      /\ page \in [Scopes -> Pages] /\ item \in [rev : Nat, artifacts : Nat, hyperlink : BOOLEAN]
  BY DEF ServePut, IInv, Typed, Puts, Patches
<1>2. UNCHANGED launcher
  BY <1>1 DEF Session
<1>3. Conditional'
  BY <1>1 DEF IInv, Conditional, Linked
<1>4. CASE /\ Holds(r)
           /\ page' = [page EXCEPT ![r.scope] = Saved(r.scope, r.content)]
           /\ version' = version + 1
           /\ Respond(r, [status |-> "saved", page |-> Saved(r.scope, r.content)])
  <2>1. PICK new : new = Saved(r.scope, r.content)
    OBVIOUS
  <2>2. new \in Pages /\ new.etag = version + 1
    BY <1>1, <2>1 DEF Saved, Pages, Puts
  <2>3. PICK response : response = [status |-> "saved", page |-> new]
    OBVIOUS
  <2>4. response \in Responses /\ response.status = "saved" /\ response.page = new
    BY <2>2, <2>3 DEF Responses
  <2>5. page' \in [Scopes -> Pages] /\ page' = [page EXCEPT ![r.scope] = new]
    BY <1>1, <1>4, <2>1, <2>2
  <2>6. /\ Typed' /\ Progress' /\ Numbered'
        /\ \A p \in Seen' : p \in Seen \/ p \in {page'[s] : s \in Scopes} \/ p = new
        /\ \A a \in Authors : call'[a].at = call[a].at
        /\ \A a \in Authors : call[a].at = "done" => call'[a] = call[a]
    BY <1>1, <1>4, <2>1, <2>3, <2>4, <2>5, RespondSafe
  <2>7. \A s \in Scopes : page'[s] = page[s] \/ page'[s] = new
    BY <1>1, <2>5
  <2>8. Unique'
    <3>1. \A p \in Seen' : p \in Seen \/ p = new
      BY <2>6, <2>7, SeenPages
    <3> QED
      BY <1>1, <1>4, <2>2, <3>1, NewPage DEF IInv
  <2>9. AnswersTrue'
    <3>1. \A s \in Scopes : page'[s].etag \in 1 .. version' \/ page'[s] = NoPage
      BY <1>1, <1>4, <2>2, <2>7 DEF IInv, AnswersTrue, TypeOK
    <3> QED
      BY <1>1, <1>2, <2>6, <3>1, ServedSafe
  <2> QED
    BY <1>3, <2>6, <2>8, <2>9 DEF IInv
<1>5. ASSUME NEW status \in {"refused", "error"}, Respond(r, [status |-> status]),
             UNCHANGED <<page, version>>
      PROVE  IInv'
  <2>1. PICK response : response = [status |-> status]
    OBVIOUS
  <2>2. response \in Responses /\ response.status = status
    BY <2>1 DEF Responses
  <2>3. /\ Typed' /\ Progress' /\ Numbered'
        /\ \A p \in Seen' : p \in Seen \/ p \in {page'[s] : s \in Scopes}
        /\ \A a \in Authors : call'[a].at = call[a].at
        /\ \A a \in Authors : call[a].at = "done" => call'[a] = call[a]
    BY <1>1, <1>5, <2>1, <2>2, RespondSafe
  <2>4. Unique'
    <3>1. \A p \in Seen' : p \in Seen
      BY <1>5, <2>3, SeenPages
    <3> QED
      BY <1>1, <1>5, <3>1, NothingNew DEF IInv
  <2>5. AnswersTrue'
    <3>1. \A s \in Scopes : page'[s].etag \in 1 .. version' \/ page'[s] = NoPage
      BY <1>5 DEF IInv, AnswersTrue, TypeOK
    <3> QED
      BY <1>1, <1>2, <2>3, <3>1, ServedSafe
  <2> QED
    BY <1>3, <2>3, <2>4, <2>5 DEF IInv
<1> QED
  BY <1>4, <1>5 DEF ServePut

LEMMA ServePatchSafe ==
  ASSUME IInv, NEW r \in wire, ServePatch(r)
  PROVE  IInv'
<1> USE WikiAssumption
<1>1. /\ r.kind = "patch" /\ wire' = wire \ {r} /\ UNCHANGED <<Session, Clients, page, version>>
      /\ page \in [Scopes -> Pages] /\ item \in [rev : Nat, artifacts : Nat, hyperlink : BOOLEAN]
      /\ version \in Nat
  BY DEF ServePatch, IInv, Typed
<1>2. UNCHANGED launcher
  BY <1>1 DEF Session
<1>3. /\ item' \in [rev : Nat, artifacts : Nat, hyperlink : BOOLEAN]
      /\ item' = item \/ item'.rev = item.rev + 1
  <2>1. CASE item' = [item EXCEPT !.rev = @ + 1, !.artifacts = @ + 1]
    <3>1. PICK n \in Nat, m \in Nat : n = item.rev + 1 /\ m = item.artifacts + 1
      BY <1>1
    <3>2. item' = [item EXCEPT !.rev = n, !.artifacts = m]
      BY <1>1, <2>1, <3>1
    <3>3. item' \in [rev : Nat, artifacts : Nat, hyperlink : BOOLEAN]
      BY <1>1, <3>2, Zenon
    <3> QED
      BY <1>1, <3>1, <3>2, <3>3
  <2> QED
    BY <1>1, <2>1 DEF ServePatch
<1>4. PICK status \in {"saved", "refused"} : Respond(r, [status |-> status])
  BY DEF ServePatch
<1>5. PICK response : response = [status |-> status]
  OBVIOUS
<1>6. response \in Responses /\ response.status = status
  BY <1>5 DEF Responses
<1>7. /\ Typed' /\ Progress' /\ Numbered'
      /\ \A p \in Seen' : p \in Seen \/ p \in {page'[s] : s \in Scopes}
      /\ \A a \in Authors : call'[a].at = call[a].at
      /\ \A a \in Authors : call[a].at = "done" => call'[a] = call[a]
  BY <1>1, <1>3, <1>4, <1>5, <1>6, RespondSafe
<1>8. Conditional'
  <2>1. \A q \in wire : q.kind = "patch" => \A m \in q.rev : m \in Nat
    BY DEF IInv, Typed, Puts, Patches
  <2> QED
    BY <1>1, <1>3, <2>1 DEF IInv, Conditional, Linked
<1>9. Unique'
  <2>1. \A p \in Seen' : p \in Seen
    BY <1>1, <1>7, SeenPages
  <2> QED
    BY <1>1, <2>1, NothingNew DEF IInv
<1>10. AnswersTrue'
  <2>1. \A s \in Scopes : page'[s].etag \in 1 .. version' \/ page'[s] = NoPage
    BY <1>1 DEF IInv, AnswersTrue, TypeOK
  <2> QED
    BY <1>1, <1>2, <1>7, <2>1, ServedSafe
<1> QED
  BY <1>7, <1>8, <1>9, <1>10 DEF IInv

-----------------------------------------------------------------------------
(* Every step, and the theorems. *)

LEMMA InitSafe == Init => IInv
<1> SUFFICES ASSUME Init PROVE IInv
  OBVIOUS
<1> USE WikiAssumption DEF Init
<1>1. (\A a \in Authors : call[a] = Idle /\ known[a] = NoPage) /\ Idle.at = "idle"
  BY DEF Idle
<1>2. Typed
  BY DEF Typed, Down, Pages
<1>3. Progress /\ Numbered /\ Conditional
  BY <1>1 DEF Progress, Numbered, Conditional, Steps
<1>4. Unique
  <2>1. \A p \in Seen : p = NoPage
    BY <1>1 DEF Seen
  <2> QED
    BY <2>1 DEF Unique
<1>5. AnswersTrue
  BY <1>1 DEF AnswersTrue, TypeOK, At, Down
<1> QED
  BY <1>2, <1>3, <1>4, <1>5 DEF IInv

LEMMA NextSafe == IInv /\ [Next]_vars => IInv'
<1> SUFFICES ASSUME IInv, [Next]_vars PROVE IInv'
  OBVIOUS
<1>1. CASE Launch \/ Spawn \/ ClientEnds \/ Configure \/ UNCHANGED vars
  BY <1>1, LauncherSafe
<1>2. CASE ScopeChanged \/ Terminated
  BY <1>2, StopSafe DEF ScopeChanged, Terminated
<1>3. ASSUME NEW a \in Authors,
             \/ \E request \in Requests(a), s \in Scopes : Submit(a, request, s.project)
             \/ Context(a) \/ Resolve(a) \/ FetchFails(a) \/ ReadPage(a)
             \/ WritePage(a) \/ Lost(a) \/ Receive(a)
             \/ LinkPage(a) \/ LinkItem(a) \/ Patched(a) \/ Verify(a)
             \/ Deliver(a)
      PROVE  IInv'
  <2>1. CASE \E request \in Requests(a), s \in Scopes : Submit(a, request, s.project)
    BY <2>1, SubmitSafe
  <2>2. CASE Context(a) \/ Receive(a) \/ Patched(a) \/ WritePage(a) \/ LinkItem(a) \/ Deliver(a)
    BY <2>2, ContextSafe, ReceiveSafe, PatchedSafe, WriteSafe, LinkSafe, DeliverSafe
  <2>3. CASE \/ Resolve(a) \/ FetchFails(a) \/ ReadPage(a) \/ Lost(a) \/ LinkPage(a)
             \/ Verify(a)
    BY <2>3, ReadSafe
  <2> QED
    BY <1>3, <2>1, <2>2, <2>3
<1>4. CASE \E r \in wire : ServePut(r) \/ ServePatch(r)
  BY <1>4, ServePutSafe, ServePatchSafe
<1>5. CASE EditItem \/ \E s \in Scopes : EditPage(s)
  BY <1>5, EditItemSafe, EditPageSafe
<1> QED
  BY <1>1, <1>2, <1>3, <1>4, <1>5 DEF Next

LEMMA Invariant == Spec => []IInv
BY InitSafe, NextSafe, PTL DEF Spec

\* publish, link and their readings: an answer tells whether the call changed
\* something, and no request that is served later makes it untrue.
THEOREM AnswersStayTrue == Spec => []AnswersTrue
<1>1. IInv => AnswersTrue
  BY DEF IInv
<1> QED
  BY <1>1, Invariant, PTL

\* The conditional PUT: a write replaces no page, or the one its author was
\* given with the ETag it passes, whoever wrote, removed or created pages in
\* between and however late the service serves it.
THEOREM WritesReplaceWhatWasRead == Spec => NothingOverwritten
<1> DEFINE Step ==
      \A r \in wire \ wire' :
        r.kind = "put" /\ page' # page => page[r.scope] \in {NoPage, r.base}
<1>1. IInv /\ [Next]_vars => Step \/ UNCHANGED vars
  <2> SUFFICES ASSUME IInv, [Next]_vars, NEW r \in wire \ wire', r.kind = "put", page' # page
               PROVE  page[r.scope] \in {NoPage, r.base}
    OBVIOUS
  <2>1. PICK q \in wire : ServePut(q) \/ ServePatch(q)
    BY DEF Next, vars, Launch, Spawn, ScopeChanged, ClientEnds, Terminated, Stop, Submit, Context,
           Resolve, FetchFails, ReadPage, WritePage, Send, Lost, Receive, LinkPage, LinkItem,
           Patched, Verify, Deliver, Configure, EditPage, EditItem, Service, Clients, Session
  <2>2. ServePut(r)
    BY <2>1 DEF ServePut, ServePatch
  <2>3. page[r.scope].etag \in r.match
    BY <2>2 DEF ServePut, Holds
  <2>4. r \in Puts
    BY DEF IInv, Typed, Puts, Patches
  <2>5. page[r.scope] \in Seen /\ r.base \in Seen /\ r.scope \in Scopes
    BY <2>4, SeenPages DEF Puts
  <2>6. page[r.scope].etag \in {None, r.base.etag}
    BY <2>3 DEF IInv, Conditional
  <2>7. page[r.scope].etag = None => page[r.scope] = NoPage
    BY <2>5, WikiAssumption DEF IInv, Unique
  <2> QED
    BY <2>5, <2>6, <2>7 DEF IInv, Unique
<1> HIDE DEF Step
<1>2. IInv /\ [Next]_vars => [Step]_vars
  BY <1>1
<1> QED
  BY <1>2, Invariant, PTL DEF Spec, NothingOverwritten, Step

\* updateWorkItem with the revision test: the tools add a link only where there
\* is none, whoever links or edits the Work Item at the same time.
THEOREM LinksAreAddedOnce == Spec => LinkedOnce
<1>1. IInv /\ [Next]_vars => (item'.artifacts > item.artifacts => ~Linked(item))
  <2> SUFFICES ASSUME IInv, [Next]_vars, item'.artifacts > item.artifacts
               PROVE  ~Linked(item)
    OBVIOUS
  <2>1. item \in [rev : Nat, artifacts : Nat, hyperlink : BOOLEAN]
    BY DEF IInv, Typed
  <2>2. item' # item /\ ~EditItem
    <3>1. \A i : i = [item EXCEPT !.rev = @ + 1, !.hyperlink = TRUE]
                  => i.artifacts = item.artifacts
      BY <2>1
    <3>2. \A i : i = [item EXCEPT !.rev = @ + 1] => i.artifacts = item.artifacts
      BY <2>1
    <3>3. item'.artifacts # 0 /\ item'.artifacts # item.artifacts
      BY <2>1
    <3> QED
      BY <3>1, <3>2, <3>3 DEF EditItem
  <2>3. PICK q \in wire : ServePut(q) \/ ServePatch(q)
    BY <2>2
    DEF Next, vars, Launch, Spawn, ScopeChanged, ClientEnds, Terminated, Stop, Submit, Context,
        Resolve, FetchFails, ReadPage, WritePage, Send, Lost, Receive, LinkPage, LinkItem,
        Patched, Verify, Deliver, Configure, EditPage, Service, Clients, Session
  <2>4. q.kind = "patch" /\ item.rev \in q.rev
    BY <2>2, <2>3 DEF ServePut, ServePatch
  <2> QED
    BY <2>4 DEF IInv, Conditional
<1> QED
  BY <1>1, Invariant, PTL DEF Spec, LinkedOnce
=============================================================================
