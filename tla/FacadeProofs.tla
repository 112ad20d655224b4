----------------------------- MODULE FacadeProofs -----------------------------
(***************************************************************************)
(* Proofs about ReviewFacade for any number of requests, threads, orgs,    *)
(* configurations, responses of a call and events outside.                 *)
(***************************************************************************)
EXTENDS ReviewFacade, FiniteSetTheorems, TLAPS

-----------------------------------------------------------------------------
(* Types. *)

Tokens == Orgs \X Nat
Refused == {"CONFIG_MISSING", "CONFIG_INVALID", "INTERNAL_ERROR"}
Results == {"error", "configuration", "data"} \cup Refused

Phases == {"launch", "token", "display", "probe", "serving", "exited", "down"}

ServerRecords ==
  [at : Phases,
   token : Tokens \cup {None}, frozen : Orgs \cup {None}, closed : BOOLEAN,
   proven : BOOLEAN,
   refreshing : Requests \cup {None}, describing : Requests \cup {None},
   eof : BOOLEAN, cancelled : SUBSET Requests]

Steps == {"none", "queued", "exclude", "get", "send", "dispatch", "wait", "read", "lock", "cli", "prove",
          "ended"}

CallRecords ==
  [tool : Tools \cup {None}, at : Steps, token : Tokens \cup {None}, sent : Tokens \cup {None},
   attempt : 0 .. 2, gets : 0 .. MaxGets - 1, other : BOOLEAN, unproven : BOOLEAN, late : BOOLEAN, answer : Results \cup {None}]

Typed ==
  /\ host \in Orgs /\ login \in Orgs /\ session \in Nat /\ events \in Nat
  /\ server \in ServerRecords
  /\ call \in [Requests -> CallRecords]

LEMMA NoCallTyped == NoCall \in CallRecords
<1>1. 0 \in 0 .. 2 /\ 0 \in 0 .. MaxGets - 1
  BY FacadeAssumption
<1>2. "none" \in Steps
  BY DEF Steps
<1> QED
  BY <1>1, <1>2, Zenon DEF NoCall, CallRecords

LEMMA TypedInit == Init => Typed
<1> SUFFICES ASSUME Init PROVE Typed
  OBVIOUS
<1>1. server \in ServerRecords
  BY Zenon DEF Init, ServerRecords, Phases
<1>2. call \in [Requests -> CallRecords]
  BY NoCallTyped DEF Init
<1> QED
  BY <1>1, <1>2 DEF Init, Typed

\* A step that changes the record of one call, to a typed one.
LEMMA CallTyped ==
  ASSUME call \in [Requests -> CallRecords], NEW r \in Requests, NEW c \in CallRecords,
         call' = [call EXCEPT ![r] = c]
  PROVE  /\ call' \in [Requests -> CallRecords]
         /\ call'[r] = c
         /\ \A q \in Requests : q # r => call'[q] = call[q]
<1>1. call' \in [Requests -> CallRecords]
  BY Zenon
<1> QED
  BY <1>1

-----------------------------------------------------------------------------
(* The inductive invariant. *)

\* What the server knows at each step of its start, and that it works only
\* while it serves.
Started ==
  /\ server.at \in {"display", "probe", "serving", "exited"} => server.token \in Tokens
  /\ server.at \in {"probe", "serving", "exited"} =>
       server.frozen \in Orgs /\ Acceptable(server.frozen)
  /\ server.at # "serving" => Drained

\* A token was given in a session of the past or the present.  The one a call
\* remembers is the server's, or the one that was sent, unless it is dead: a
\* token is replaced only when it is.  A call that waits for the lock was
\* rejected, so its token is dead, and stays dead; the one that holds it found
\* that the server's token is still that one.
Asked ==
  /\ server.at \in {"display", "probe", "serving", "exited"} => server.token[2] <= session
  /\ \A r \in Requests :
       /\ call[r].at \in {"dispatch", "wait", "lock", "cli", "prove"} =>
            call[r].token \in Tokens /\ call[r].token[2] <= session
       /\ call[r].at = "dispatch" => call[r].token = server.token \/ ~Valid(call[r].token)
       /\ call[r].at = "wait" =>
            /\ call[r].sent \in Tokens /\ call[r].sent[2] <= session
            /\ call[r].token = call[r].sent \/ ~Valid(call[r].token)
       /\ call[r].at \in {"lock", "cli"} => ~Valid(call[r].token)
       /\ call[r].at = "cli" => call[r].token = server.token

\* A proven token is of the frozen org, and what was not is known to be not.
Proven ==
  /\ server.at \in {"serving", "exited"} /\ server.proven => server.token[1] = server.frozen
  /\ \A r \in Requests :
       /\ call[r].at = "wait" /\ ~call[r].unproven => call[r].sent[1] = server.frozen
       /\ call[r].other => call[r].unproven

\* Who holds which lock.
Locks ==
  \A r \in Requests :
    /\ call[r].tool = "object"
         /\ call[r].at \in {"get", "send", "dispatch", "wait", "lock", "cli", "prove", "read"}
         <=> server.describing = r
    /\ call[r].at \in {"cli", "prove"} <=> server.refreshing = r
    /\ call[r].at = "exclude" => call[r].tool = "object"
    /\ call[r].at \notin {"none", "queued", "ended"} => call[r].tool # "orgs"

Pool == Cardinality(Running) <= PoolSize

\* A call that came after the identity was found to have changed gets as far
\* as get_json.
LateCalls ==
  \A r \in Requests : call[r].late =>
    /\ server.closed
    /\ call[r].at \in {"queued", "exclude", "get", "ended"}
    /\ call[r].answer # "data"

IInv == Typed /\ Started /\ Asked /\ Proven /\ Locks /\ Pool /\ LateCalls

LEMMA InitSafe == Init => IInv
<1> SUFFICES ASSUME Init PROVE IInv
  OBVIOUS
<1>1. Typed
  BY TypedInit
<1>2. \A r \in Requests : call[r] = NoCall
  BY DEF Init
<1>3. Started /\ Asked
  BY <1>1, <1>2 DEF Init, Started, Asked, Drained, NoCall
<1>4. Locks /\ LateCalls /\ Proven
  BY <1>2, FacadeAssumption DEF Init, Locks, LateCalls, Proven, NoCall
<1>5. Pool
  <2>1. Running = {}
    BY <1>2 DEF Running, NoCall
  <2> QED
    BY <2>1, FS_EmptySet, FacadeAssumption DEF Pool
<1> QED
  BY <1>1, <1>3, <1>4, <1>5 DEF IInv

\* No more calls run than ran before.
LEMMA PoolKept ==
  ASSUME Pool, NEW r \in Requests,
         call[r].at \notin {"none", "queued", "ended"} \/ call'[r].at \in {"queued", "ended"},
         \A q \in Requests : q # r => call'[q] = call[q]
  PROVE  Pool'
<1>1. Running' \subseteq Running
  BY DEF Running
<1>2. IsFiniteSet(Running)
  BY FS_Subset, FacadeAssumption DEF Running
<1> QED
  BY <1>1, <1>2, FS_Subset, FS_CardinalityType, FacadeAssumption DEF Pool

\* The client accepts e, or has to refuse it.
Answerable(tool, e) == EnvelopeValid(tool, e) \/ e.warning \in Refused

\* What the answers of a call are.
LEMMA ReplyTyped ==
  ASSUME Typed, NEW r \in Requests, NEW e, Reply(r, e), Answerable(call[r].tool, e)
  PROVE  /\ call' \in [Requests -> CallRecords]
         /\ call'[r].at = "ended" /\ call'[r].tool = None
         /\ call'[r].late = call[r].late
         /\ call'[r].other = call[r].other /\ call'[r].unproven = call[r].unproven
         /\ call'[r].answer = IF r \in server.cancelled THEN None ELSE Received(r, e)
         /\ \A q \in Requests : q # r => call'[q] = call[q]
<1> DEFINE a == IF r \in server.cancelled THEN None ELSE Received(r, e)
           c == [NoCall EXCEPT !.at = "ended", !.other = call[r].other,
                               !.unproven = call[r].unproven, !.late = call[r].late, !.answer = a]
<1>1. a \in Results \cup {None}
  BY FacadeAssumption DEF Received, Results, Refused, Answerable
<1>2. call[r].other \in BOOLEAN /\ call[r].unproven \in BOOLEAN /\ call[r].late \in BOOLEAN
  BY Zenon DEF Typed, CallRecords
<1>3. c \in CallRecords
  <2>1. "ended" \in Steps
    BY DEF Steps
  <2> HIDE DEF a
  <2> QED
    BY <1>1, <1>2, <2>1, NoCallTyped, Zenon DEF CallRecords
<1>4. call' = [call EXCEPT ![r] = c]
  BY DEF Reply
<1>5. /\ c.at = "ended" /\ c.tool = None /\ c.late = call[r].late /\ c.answer = a
      /\ c.other = call[r].other /\ c.unproven = call[r].unproven
  BY DEF NoCall
<1> HIDE DEF c, a
<1>6. /\ call' \in [Requests -> CallRecords]
      /\ call'[r] = c
      /\ \A q \in Requests : q # r => call'[q] = call[q]
  BY <1>3, <1>4, CallTyped DEF Typed
<1> QED
  BY <1>5, <1>6 DEF a

\* A call that ends, however it does, releases what it holds and leaves the
\* others their locks.
LEMMA EndSafe ==
  ASSUME IInv, UNCHANGED Outside, NEW r \in Requests, NEW e, Reply(r, e),
         call[r].at \notin {"none", "ended"}, server.at = "serving",
         Answerable(call[r].tool, e), call[r].late => Received(r, e) # "data",
         server' \in ServerRecords, server'.at = "serving", server'.token = server.token,
         server'.frozen = server.frozen, server'.proven = server.proven,
         server'.cancelled = server.cancelled,
         server.closed => server'.closed, server'.describing = Released(r),
         server'.refreshing = IF server.refreshing = r THEN None ELSE server.refreshing
  PROVE  IInv'
<1> USE FacadeAssumption
<1>1. /\ call' \in [Requests -> CallRecords]
      /\ call'[r].at = "ended" /\ call'[r].tool = None
      /\ call'[r].late = call[r].late
      /\ call'[r].other = call[r].other /\ call'[r].unproven = call[r].unproven
      /\ call'[r].answer = IF r \in server.cancelled THEN None ELSE Received(r, e)
      /\ \A q \in Requests : q # r => call'[q] = call[q]
  BY ReplyTyped DEF IInv
<1>3. Typed'
  BY <1>1 DEF IInv, Typed, Outside
<1>4. Started'
  BY DEF IInv, Started, Outside, Acceptable, Pinned
<1>5. Asked'
  BY <1>1 DEF IInv, Asked, Outside, Valid
<1>6. Locks'
  BY <1>1 DEF IInv, Locks, Released
<1>7. Pool'
  BY <1>1, PoolKept DEF IInv
<1>8. LateCalls'
  BY <1>1 DEF IInv, LateCalls
<1>9. Proven'
  BY <1>1 DEF IInv, Proven
<1> QED
  BY <1>3, <1>4, <1>5, <1>6, <1>7, <1>8, <1>9 DEF IInv

-----------------------------------------------------------------------------
(* Every step keeps the invariant. *)

LEMMA StartSafe ==
  ASSUME IInv, Launch \/ TakeToken \/ Display \/ Probe \/ Eof \/ Exit
  PROVE  IInv'
<1> USE FacadeAssumption
<1>1. UNCHANGED <<config, host, login, session, events, call>>
  BY DEF Launch, TakeToken, Display, Probe, Eof, Exit, Outside
<1>2. <<login, session>> \in Tokens
  BY DEF IInv, Typed, Tokens
<1>3. server' \in ServerRecords
  <2> USE DEF ServerRecords, Phases, Serve
  <2>1. server \in ServerRecords /\ login \in Orgs
    BY DEF IInv, Typed
  <2>2. CASE Launch \/ Exit
    BY <2>1, <2>2, Zenon DEF Launch, Exit
  <2>3. CASE TakeToken
    BY <1>2, <2>1, <2>3, ZenonT(30) DEF TakeToken
  <2>4. CASE Display
    BY <2>1, <2>4, Zenon DEF Display
  <2>5. CASE Probe
    <3>1. \/ server' = [server EXCEPT !.at = "serving", !.proven = TRUE]
          \/ server' = [server EXCEPT !.at = "down"]
          \/ server' = [server EXCEPT !.token = <<login, session>>]
      BY <2>5 DEF Probe
    <3> QED
      BY <1>2, <2>1, <3>1, Zenon
  <2>6. CASE Eof
    BY <2>1, <2>6, Zenon DEF Eof
  <2> QED
    BY <2>2, <2>3, <2>4, <2>5, <2>6
<1>4. /\ server'.refreshing = server.refreshing /\ server'.describing = server.describing
      /\ server'.closed = server.closed /\ server'.cancelled = server.cancelled
      /\ server'.token = server.token \/ server'.token = <<login, session>>
      /\ server.at = "serving" => server'.token = server.token
  <2>1. DOMAIN server = {"at", "token", "frozen", "closed", "proven", "refreshing", "describing", "eof",
                         "cancelled"}
    BY DEF IInv, Typed, ServerRecords
  <2>2. CASE Launch \/ Eof \/ Exit
    BY <2>1, <2>2 DEF Launch, Eof, Exit, Serve
  <2>3. CASE TakeToken
    BY <2>1, <2>3 DEF TakeToken, Serve
  <2>4. CASE Display
    BY <2>1, <2>4 DEF Display
  <2>5. CASE Probe
    BY <2>1, <2>5 DEF Probe, Serve
  <2> QED
    BY <2>2, <2>3, <2>4, <2>5
<1>5. Typed'
  BY <1>1, <1>3 DEF IInv, Typed
<1>6. Started'
  <2>1. server \in ServerRecords /\ Started /\ login \in Orgs
    BY DEF IInv, Typed
  <2>2. Acceptable(server.frozen)' <=> Acceptable(server'.frozen)
    BY <1>1 DEF Acceptable, Pinned
  <2>3. Drained' = Drained
    BY <1>1 DEF Drained
  <2>4. CASE Launch
    BY <2>1, <2>2, <2>3, <2>4 DEF Launch, Serve, Started, ServerRecords
  <2>5. CASE TakeToken
    BY <1>2, <2>1, <2>2, <2>3, <2>5 DEF TakeToken, Serve, Started, ServerRecords
  <2>6. CASE Display
    BY <2>1, <2>2, <2>3, <2>6 DEF Display, Started, ServerRecords
  <2>7. CASE Probe
    BY <1>2, <2>1, <2>2, <2>3, <2>7 DEF Probe, Serve, Started, ServerRecords
  <2>8. CASE Eof \/ Exit
    BY <2>1, <2>2, <2>3, <2>8 DEF Eof, Exit, Serve, Started, ServerRecords
  <2> QED
    BY <2>4, <2>5, <2>6, <2>7, <2>8
<1>7. Asked'
  <2>1. server'.at \in {"display", "probe", "serving", "exited"} =>
          \/ server'.token = <<login, session>>
          \/ /\ server'.token = server.token
             /\ server.at \in {"display", "probe", "serving", "exited"}
    BY DEF IInv, Typed, ServerRecords, Launch, TakeToken, Display, Probe, Eof, Exit, Serve
  <2>2. session <= session
    BY DEF IInv, Typed
  <2> QED
    BY <1>1, <1>2, <1>4, <2>1, <2>2 DEF IInv, Asked, Started, Drained, Valid
<1>8. Locks' /\ LateCalls'
  BY <1>1, <1>4 DEF IInv, Locks, LateCalls
<1>9. Pool'
  BY <1>1 DEF IInv, Pool, Running
<1>10. Proven'
  <2>1. server \in ServerRecords /\ Started
    BY DEF IInv, Typed
  <2>2. server'.at \in {"serving", "exited"} =>
          \/ server'.token[1] = server'.frozen
          \/ /\ server.at \in {"serving", "exited"} /\ server'.proven = server.proven
             /\ server'.token = server.token
             /\ server'.frozen = server.frozen
    <3>1. CASE Launch \/ TakeToken \/ Display
      BY <2>1, <3>1 DEF Launch, TakeToken, Display, Serve, ServerRecords
    <3>2. CASE Eof \/ Exit
      BY <2>1, <3>2 DEF Eof, Exit, Serve, ServerRecords
    <3>3. CASE Probe
      <4>1. DOMAIN server = {"at", "token", "frozen", "closed", "proven", "refreshing",
                             "describing", "eof", "cancelled"}
        BY <2>1 DEF ServerRecords
      <4>2. CASE Valid(server.token) /\ host = server.frozen /\ server' = [server EXCEPT !.at = "serving", !.proven = TRUE]
        <5>1. server'.token = <<host, session>> /\ server'.frozen = host
          BY <4>1, <4>2, Zenon DEF Valid
        <5>2. server'.token[1] = server'.frozen
          BY <5>1
        <5> QED
          BY <5>2
      <4>3. CASE server' = [server EXCEPT !.token = <<login, session>>]
        BY <3>3, <4>1, <4>3 DEF Probe
      <4>4. CASE Serve("down")
        BY <4>1, <4>4 DEF Serve
      <4> QED
        BY <3>3, <4>2, <4>3, <4>4 DEF Probe
    <3> QED
      BY <3>1, <3>2, <3>3
  <2>3. server.at \in {"probe", "serving"} => server'.frozen = server.frozen
    BY <2>1 DEF Launch, TakeToken, Display, Probe, Eof, Exit, Serve, ServerRecords
  <2>4. \A r \in Requests : call[r].at = "wait" => server.at = "serving"
    BY <2>1 DEF Started, Drained
  <2> QED
    BY <1>1, <2>2, <2>3, <2>4 DEF IInv, Proven
<1> QED
  BY <1>5, <1>6, <1>7, <1>8, <1>9, <1>10 DEF IInv

\* Call r moves on to c, and takes or gives back a lock on the way.
Move(r, c) ==
  /\ call' = [call EXCEPT ![r] = c]
  /\ call[r].at \notin {"none", "ended"} /\ c.at \notin {"none", "queued", "ended"}
  /\ c.tool = call[r].tool /\ c.late = call[r].late /\ c.answer = call[r].answer
  /\ (c.other => c.unproven) \/ (c.other = call[r].other /\ c.unproven = call[r].unproven)
  /\ c.late => c.at \in {"exclude", "get"}
  /\ call[r].at = "queued" =>
       /\ Cardinality(Running) < PoolSize
       /\ c.at = IF c.tool = "object" THEN "exclude" ELSE "get"
       /\ c.tool # "orgs"
  /\ c.at = "exclude" => call[r].at = "queued"
  /\ c.at \in {"dispatch", "wait", "lock", "cli", "prove"} =>
       c.token \in Tokens /\ c.token[2] <= session
  /\ c.at = "dispatch" => c.token = server.token /\ server'.token = server.token
  /\ c.at = "wait" =>
       /\ c.sent \in Tokens /\ c.sent[2] <= session
       /\ c.token = c.sent \/ ~Valid(c.token)
       /\ c.unproven \/ c.sent[1] = server.frozen
  /\ c.at \in {"lock", "cli"} => ~Valid(c.token)
  /\ c.at = "cli" => c.token = server'.token
  /\ IF call[r].at = "exclude" THEN server.describing = None /\ server'.describing = r
     ELSE server'.describing = server.describing
  /\ IF call[r].at = "lock" /\ c.at = "cli"
     THEN server.refreshing = None /\ server'.refreshing = r
     ELSE IF call[r].at = "prove"
     THEN c.at \notin {"cli", "prove"} /\ server'.refreshing = None
     ELSE /\ server'.refreshing = server.refreshing
          /\ c.at \in {"cli", "prove"} <=> call[r].at \in {"cli", "prove"}
  /\ server'.at = server.at /\ server'.frozen = server.frozen
  /\ server'.cancelled = server.cancelled /\ server'.closed = server.closed
  /\ \/ server'.token = server.token
     \/ server'.token = <<login, session>> /\ call[r].at = "cli"
  /\ server'.proven =>
       \/ server.proven /\ server'.token = server.token
       \/ server'.token[1] = server.frozen

LEMMA MoveSafe ==
  ASSUME IInv, UNCHANGED Outside, server' \in ServerRecords,
         NEW r \in Requests, NEW c \in CallRecords, Move(r, c)
  PROVE  IInv'
<1> USE FacadeAssumption DEF Move
<1>0. server.at = "serving"
  BY DEF IInv, Started, Drained
<1>1. /\ call' \in [Requests -> CallRecords] /\ call'[r] = c
      /\ \A q \in Requests : q # r => call'[q] = call[q]
  BY CallTyped DEF IInv, Typed
<1>2. Typed'
  BY <1>1 DEF IInv, Typed, Outside
<1>3. Started'
  BY <1>0 DEF IInv, Typed, Started, Outside, Acceptable, Pinned, Tokens
<1>4. Asked'
  BY <1>0, <1>1 DEF IInv, Typed, Asked, Locks, Outside, Valid, Tokens
<1>5. Locks'
  <2>1. c.at \in {"exclude", "get", "send", "dispatch", "wait", "read", "lock", "cli", "prove"}
    BY DEF CallRecords, Steps
  <2>2. ASSUME NEW q \in Requests
        PROVE  /\ call'[q].tool = "object"
                    /\ call'[q].at \in {"get", "send", "dispatch", "wait", "lock", "cli", "prove", "read"}
                    <=> server'.describing = q
               /\ call'[q].at = "exclude" => call'[q].tool = "object"
               /\ call'[q].at \notin {"none", "queued", "ended"} => call'[q].tool # "orgs"
    <3>1. CASE q = r
      <4>1. call[r].at \in Steps
        BY DEF IInv, Typed, CallRecords
      <4>2. CASE call[r].at \in {"queued", "exclude"}
        BY <1>1, <2>1, <3>1, <4>2 DEF IInv, Locks
      <4>3. CASE call[r].at \notin {"queued", "exclude"}
        <5>1. call[r].at \in {"get", "send", "dispatch", "wait", "lock", "cli", "prove", "read"}
          BY <4>1, <4>3 DEF Steps
        <5>2. c.at # "exclude"
          BY <4>3
        <5> QED
          BY <1>1, <2>1, <3>1, <4>3, <5>1, <5>2 DEF IInv, Locks
      <4> QED
        BY <4>2, <4>3
    <3>2. CASE q # r
      BY <1>1, <3>2 DEF IInv, Locks
    <3> QED
      BY <3>1, <3>2
  <2>3. ASSUME NEW q \in Requests
        PROVE  call'[q].at \in {"cli", "prove"} <=> server'.refreshing = q
    <3>1. CASE q = r
      BY <1>1, <2>1, <3>1 DEF IInv, Locks
    <3>2. CASE q # r
      BY <1>1, <3>2 DEF IInv, Locks
    <3> QED
      BY <3>1, <3>2
  <2> QED
    BY <2>2, <2>3 DEF Locks
<1>6. Pool'
  <2>1. CASE call[r].at # "queued"
    BY <1>1, <2>1, PoolKept DEF IInv
  <2>2. CASE call[r].at = "queued"
    <3>1. Running' = Running \cup {r} /\ r \notin Running
      BY <1>1, <2>2 DEF Running
    <3>2. IsFiniteSet(Running)
      BY FS_Subset DEF Running
    <3>3. Cardinality(Running') = Cardinality(Running) + 1
      BY <3>1, <3>2, FS_AddElement
    <3> QED
      BY <2>2, <3>2, <3>3, FS_CardinalityType DEF Pool
  <2> QED
    BY <2>1, <2>2
<1>7. LateCalls' /\ Proven'
  BY <1>0, <1>1 DEF IInv, LateCalls, Proven
<1> QED
  BY <1>2, <1>3, <1>4, <1>5, <1>6, <1>7 DEF IInv

\* The error envelopes of a server that has its proof.
LEMMA ErrorsAccepted ==
  ASSUME NEW tool, NEW code, NEW status,
         \/ code \in BlockingWarnings
         \/ status = "INCOMPLETE"
            /\ code \in {"CLI_OUTPUT_TOO_LARGE", "CLI_UNAVAILABLE", "REST_PAYLOAD_TOO_LARGE",
                         "REST_NOT_FOUND", "REST_SCHEMA_MISMATCH", "REST_TIMEOUT",
                         "REST_UNAVAILABLE", "RESULT_TRUNCATED"}
  PROVE  /\ Answerable(tool, ErrorEnvelope(code, status))
         /\ ErrorEnvelope(code, status).status # "VERIFIED"
BY DEF Answerable, EnvelopeValid, ErrorEnvelope, BlockingWarnings

LEMMA NoDataIn ==
  ASSUME NEW r, NEW e, Answerable(call[r].tool, e), e.status # "VERIFIED" \/ call[r].tool = "orgs"
  PROVE  Received(r, e) # "data"
BY DEF Received, Answerable, Refused

LEMMA OthersAccepted ==
  ASSUME NEW tool
  PROVE  /\ tool # "orgs" => Answerable(tool, Verified)
         /\ Answerable(tool, InternalError) /\ InternalError.status # "VERIFIED"
         /\ tool = "orgs" => \A e \in Listings : Answerable(tool, e)
         /\ \A code \in BlockingWarnings :
              Answerable(tool, Blocked(code)) /\ Blocked(code).status # "VERIFIED"
<1>1. InternalError.status # "VERIFIED"
  BY FacadeAssumption DEF InternalError
<1>2. ASSUME tool = "orgs", NEW e \in Listings
      PROVE  Answerable(tool, e)
  <2>1. CASE e = Enumerated
    BY <1>2, <2>1 DEF Answerable, EnvelopeValid, Enumerated, Verified
  <2>2. CASE e = Blocked("SCOPED_ENUMERATION_DISABLED")
    BY <2>2 DEF Answerable, EnvelopeValid, Blocked, BlockingWarnings
  <2>3. CASE e \in {ErrorEnvelope("CONFIG_MISSING", "BLOCKED"),
                   ErrorEnvelope("CONFIG_INVALID", "BLOCKED")}
    BY <2>3 DEF Answerable, Refused, ErrorEnvelope
  <2>4. CASE e = InternalError
    BY <2>4 DEF Answerable, Refused, InternalError
  <2> QED
    BY <1>2, <2>1, <2>2, <2>3, <2>4 DEF Listings
<1>3. \A code \in BlockingWarnings :
        Answerable(tool, Blocked(code)) /\ Blocked(code).status # "VERIFIED"
  BY DEF Answerable, EnvelopeValid, Blocked
<1>4. Answerable(tool, InternalError)
  BY DEF Answerable, Refused, InternalError
<1>5. tool # "orgs" => Answerable(tool, Verified)
  BY DEF Answerable, EnvelopeValid, Verified
<1> QED
  BY <1>1, <1>2, <1>3, <1>4, <1>5

LEMMA Serving ==
  ASSUME IInv, NEW r \in Requests, call[r].at \notin {"none", "ended"}
  PROVE  server.at = "serving"
BY DEF IInv, Started, Drained

\* A call that asks for nothing more gives the contract lock back.
LEMMA SettleSafe ==
  ASSUME IInv, UNCHANGED Outside, NEW r \in Requests, NEW e, Settle(r, e),
         call[r].at \notin {"none", "ended", "cli", "prove"}, Answerable(call[r].tool, e),
         e.status # "VERIFIED" \/ ~call[r].late
  PROVE  IInv'
<1>1. server.at = "serving"
  BY Serving
<1>2. server' = [server EXCEPT !.describing = Released(r)]
  BY DEF Settle
<1>3. server \in ServerRecords
  BY DEF IInv, Typed
<1>4. server' \in ServerRecords
  <2>1. Released(r) \in Requests \cup {None}
    <3>1. server.describing \in Requests \cup {None}
      BY <1>3 DEF ServerRecords
    <3> QED
      BY <3>1 DEF Released
  <2> QED
    BY <1>2, <1>3, <2>1, Zenon DEF ServerRecords
<1>5. server.refreshing # r
  BY DEF IInv, Locks
<1>6. /\ server'.at = "serving" /\ server'.token = server.token
      /\ server'.frozen = server.frozen /\ server'.cancelled = server.cancelled
      /\ server'.proven = server.proven
      /\ server'.closed = server.closed /\ server'.describing = Released(r)
      /\ server'.refreshing = server.refreshing
  BY <1>1, <1>2, <1>3 DEF ServerRecords
<1>7. call[r].late => Received(r, e) # "data"
  BY NoDataIn
<1> QED
  BY <1>1, <1>4, <1>5, <1>6, <1>7, EndSafe DEF Settle

LEMMA FailSafe ==
  ASSUME IInv, UNCHANGED Outside, NEW r \in Requests, NEW code, NEW status,
         Fail(r, code, status), call[r].at \notin {"none", "ended", "cli", "prove"},
         \/ code \in BlockingWarnings
         \/ status = "INCOMPLETE"
            /\ code \in {"CLI_OUTPUT_TOO_LARGE", "CLI_UNAVAILABLE", "REST_PAYLOAD_TOO_LARGE",
                         "REST_NOT_FOUND", "REST_SCHEMA_MISMATCH", "REST_TIMEOUT",
                         "REST_UNAVAILABLE", "RESULT_TRUNCATED"}
  PROVE  IInv'
<1> DEFINE e == ErrorEnvelope(code, status)
<1>1. Answerable(call[r].tool, e) /\ e.status # "VERIFIED"
  BY ErrorsAccepted
<1> HIDE DEF e
<1>2. Settle(r, e)
  BY DEF Fail, e
<1> QED
  BY <1>1, <1>2, SettleSafe

LEMMA SubmitSafe ==
  ASSUME IInv, NEW r \in Requests, NEW tool \in Tools, Submit(r, tool)
  PROVE  IInv'
<1> USE FacadeAssumption
<1> DEFINE c == [call[r] EXCEPT !.tool = tool, !.at = "queued", !.late = server.closed]
<1>1. UNCHANGED <<config, host, login, session, events, server>>
      /\ call' = [call EXCEPT ![r] = c] /\ call[r] = NoCall
  BY DEF Submit, Outside
<1>2. c \in CallRecords
  <2>1. server.closed \in BOOLEAN
    BY Zenon DEF IInv, Typed, ServerRecords
  <2>2. "queued" \in Steps /\ call[r] \in CallRecords
    BY DEF Steps, IInv, Typed
  <2> QED
    BY <2>1, <2>2, Zenon DEF CallRecords
<1>3. /\ c.at = "queued" /\ c.tool = tool /\ c.late = server.closed /\ c.answer = None
      /\ ~c.other
  BY <1>1 DEF NoCall
<1> HIDE DEF c
<1>4. /\ call' \in [Requests -> CallRecords] /\ call'[r] = c
      /\ \A q \in Requests : q # r => call'[q] = call[q]
  BY <1>1, <1>2, CallTyped DEF IInv, Typed
<1>5. server.at = "serving"
  BY DEF Submit
<1>6. Typed' /\ Started'
  BY <1>1, <1>4, <1>5 DEF IInv, Typed, Started, Acceptable, Pinned
<1>7. Asked'
  BY <1>1, <1>3, <1>4 DEF IInv, Asked, Valid
<1>8. Locks'
  BY <1>1, <1>3, <1>4 DEF IInv, Locks, NoCall
<1>9. Pool'
  BY <1>3, <1>4, PoolKept DEF IInv
<1>10. LateCalls' /\ Proven'
  BY <1>1, <1>3, <1>4 DEF IInv, LateCalls, Proven
<1> QED
  BY <1>6, <1>7, <1>8, <1>9, <1>10 DEF IInv

LEMMA TakeSafe ==
  ASSUME IInv, NEW r \in Requests, Take(r)
  PROVE  IInv'
<1> USE FacadeAssumption
<1>1. /\ UNCHANGED <<config, host, login, session, events, server>> /\ UNCHANGED Outside
      /\ call[r].at = "queued" /\ Cardinality(Running) < PoolSize
  BY DEF Take, Outside
<1>2. server.at = "serving" /\ server \in ServerRecords
  BY <1>1, Serving DEF IInv, Typed
<1>3. server.describing # r /\ server.refreshing # r
  BY <1>1 DEF IInv, Locks
<1>4. ASSUME NEW e, Reply(r, e), Answerable(call[r].tool, e), Received(r, e) # "data"
      PROVE  IInv'
  BY <1>1, <1>2, <1>3, <1>4, EndSafe DEF Released
<1>5. CASE \E code \in {"QUERY_PROFILE_DENIED", "OBJECT_NOT_ALLOWLISTED"} : Reply(r, Blocked(code))
  <2>1. PICK code \in {"QUERY_PROFILE_DENIED", "OBJECT_NOT_ALLOWLISTED"} : Reply(r, Blocked(code))
    BY <1>5
  <2>2. code \in BlockingWarnings
    BY DEF BlockingWarnings
  <2>3. Answerable(call[r].tool, Blocked(code)) /\ Blocked(code).status # "VERIFIED"
    BY <2>2, OthersAccepted
  <2>4. Received(r, Blocked(code)) # "data"
    BY <2>3, NoDataIn
  <2> QED
    BY <1>4, <2>1, <2>3, <2>4
<1>6. CASE call[r].tool = "orgs" /\ \E e \in Listings : Reply(r, e)
  <2>1. PICK e \in Listings : Reply(r, e)
    BY <1>6
  <2>2. Answerable(call[r].tool, e)
    BY <1>6, OthersAccepted
  <2>3. Received(r, e) # "data"
    BY <1>6, <2>2, NoDataIn
  <2> QED
    BY <1>4, <2>1, <2>2, <2>3
<1>7. ASSUME NEW at \in {"exclude", "get"}, To(r, at),
             IF at = "exclude" THEN call[r].tool = "object"
             ELSE call[r].tool \in {"identity", "query"}
      PROVE  IInv'
  <2> DEFINE c == [call[r] EXCEPT !.at = at]
  <2>1. call[r] \in CallRecords /\ at \in Steps
    BY DEF IInv, Typed, Steps
  <2>2. c \in CallRecords
    BY <2>1, Zenon DEF CallRecords
  <2>3. /\ c.at = at /\ c.tool = call[r].tool /\ c.late = call[r].late
        /\ c.other = call[r].other /\ c.unproven = call[r].unproven
        /\ c.answer = call[r].answer
    BY <2>1 DEF CallRecords
  <2>4. call' = [call EXCEPT ![r] = c]
    BY <1>7 DEF To
  <2> HIDE DEF c
  <2>5. Move(r, c)
    BY <1>1, <1>7, <2>3, <2>4 DEF Move
  <2> QED
    BY <1>1, <1>2, <2>2, <2>5, MoveSafe
<1> QED
  BY <1>5, <1>6, <1>7 DEF Take

LEMMA ExcludeSafe ==
  ASSUME IInv, NEW r \in Requests, Exclude(r)
  PROVE  IInv'
<1> DEFINE c == [call[r] EXCEPT !.at = "get"]
<1>1. /\ UNCHANGED Outside /\ call[r].at = "exclude" /\ server.describing = None
      /\ call' = [call EXCEPT ![r] = c] /\ server' = [server EXCEPT !.describing = r]
  BY DEF Exclude, To
<1>2. call[r] \in CallRecords /\ server \in ServerRecords /\ "get" \in Steps
  BY DEF IInv, Typed, Steps
<1>3. server' \in ServerRecords
  BY <1>1, <1>2, Zenon DEF ServerRecords
<1>4. c \in CallRecords
  BY <1>2, Zenon DEF CallRecords
<1>5. /\ c.at = "get" /\ c.tool = call[r].tool /\ c.late = call[r].late
      /\ c.answer = call[r].answer
      /\ c.other = call[r].other /\ c.unproven = call[r].unproven
  BY <1>2 DEF CallRecords
<1>6. server.at = "serving"
  BY <1>1, Serving
<1>7. /\ server'.at = "serving" /\ server'.token = server.token
      /\ server'.frozen = server.frozen /\ server'.cancelled = server.cancelled
      /\ server'.proven = server.proven
      /\ server'.closed = server.closed /\ server'.describing = r
      /\ server'.refreshing = server.refreshing
  BY <1>1, <1>2, <1>6 DEF ServerRecords
<1> HIDE DEF c
<1>8. Move(r, c)
  BY <1>1, <1>5, <1>6, <1>7 DEF Move
<1> QED
  BY <1>1, <1>3, <1>4, <1>8, MoveSafe

\* A call that moves on by itself, with or without its answers so far.
LEMMA GoSafe ==
  ASSUME IInv, UNCHANGED <<Outside, server>>, NEW r \in Requests, NEW c \in CallRecords,
         call' = [call EXCEPT ![r] = c], call[r].at \in {"get", "send", "dispatch", "wait", "lock"},
         c.at \in {"get", "send", "dispatch", "wait", "read", "lock"},
         c.tool = call[r].tool, c.late = call[r].late, c.answer = call[r].answer,
         c.late => c.at = "get",
         (c.other => c.unproven) \/ (c.other = call[r].other /\ c.unproven = call[r].unproven),
         c.at \in {"dispatch", "wait", "lock"} => c.token \in Tokens /\ c.token[2] <= session,
         c.at = "dispatch" => c.token = server.token,
         c.at = "wait" => /\ c.sent \in Tokens /\ c.sent[2] <= session
                          /\ c.token = c.sent \/ ~Valid(c.token)
                          /\ c.unproven \/ c.sent[1] = server.frozen,
         c.at = "lock" => ~Valid(c.token)
  PROVE  IInv'
<1>1. server.at = "serving" /\ server \in ServerRecords
  BY Serving DEF IInv, Typed
<1>2. Move(r, c)
  BY DEF Move
<1> QED
  BY <1>1, <1>2, MoveSafe

LEMMA GetSafe ==
  ASSUME IInv, NEW r \in Requests, Get(r)
  PROVE  IInv'
<1>1. call[r].at = "get" /\ UNCHANGED Outside
  BY DEF Get
<1>2. CASE Fail(r, "IDENTITY_ORG_ID_MISMATCH", "BLOCKED")
  <2>1. "IDENTITY_ORG_ID_MISMATCH" \in BlockingWarnings
    BY DEF BlockingWarnings
  <2> QED
    BY <1>1, <1>2, <2>1, FailSafe
<1>3. CASE ~server.closed
  <2> DEFINE c == [call[r] EXCEPT !.at = "send", !.attempt = 1]
  <2>1. call' = [call EXCEPT ![r] = c] /\ UNCHANGED server
    BY <1>3 DEF Get
  <2>2. call[r] \in CallRecords /\ "send" \in Steps /\ 1 \in 0 .. 2
    BY DEF IInv, Typed, Steps
  <2>3. c \in CallRecords
    BY <2>2, Zenon DEF CallRecords
  <2>4. /\ c.at = "send" /\ c.tool = call[r].tool /\ c.late = call[r].late
        /\ c.answer = call[r].answer
        /\ c.other = call[r].other /\ c.unproven = call[r].unproven
    BY <2>2 DEF CallRecords
  <2>5. ~call[r].late
    BY <1>3 DEF IInv, LateCalls
  <2> HIDE DEF c
  <2> QED
    BY <1>1, <2>1, <2>3, <2>4, <2>5, GoSafe
<1> QED
  BY <1>2, <1>3 DEF Get

LEMMA SendSafe ==
  ASSUME IInv, NEW r \in Requests, Send(r)
  PROVE  IInv'
<1> DEFINE c == [call[r] EXCEPT !.at = "dispatch", !.token = server.token]
<1>1. call[r].at = "send" /\ UNCHANGED <<Outside, server>> /\ call' = [call EXCEPT ![r] = c]
  BY DEF Send
<1>2. call[r] \in CallRecords /\ "dispatch" \in Steps
  BY DEF IInv, Typed, Steps
<1>3. server.token \in Tokens /\ server.token[2] <= session
  BY <1>1, Serving DEF IInv, Started, Asked
<1>4. c \in CallRecords
  BY <1>2, <1>3, Zenon DEF CallRecords
<1>5. /\ c.at = "dispatch" /\ c.tool = call[r].tool /\ c.late = call[r].late
      /\ c.other = call[r].other /\ c.unproven = call[r].unproven
      /\ c.answer = call[r].answer /\ c.token = server.token
  BY <1>2 DEF CallRecords
<1>6. ~call[r].late
  BY <1>1 DEF IInv, LateCalls
<1> HIDE DEF c
<1> QED
  BY <1>1, <1>3, <1>4, <1>5, <1>6, GoSafe

\* The token that goes may be newer than the one the call remembers.
LEMMA DispatchSafe ==
  ASSUME IInv, NEW r \in Requests, Dispatch(r)
  PROVE  IInv'
<1> DEFINE unproven == call[r].unproven \/ ~server.proven
           c == [call[r] EXCEPT !.at = "wait", !.sent = server.token, !.unproven = unproven]
<1>1. call[r].at = "dispatch" /\ UNCHANGED <<Outside, server>> /\ call' = [call EXCEPT ![r] = c]
  BY DEF Dispatch
<1>2. call[r] \in CallRecords /\ "wait" \in Steps /\ unproven \in BOOLEAN
  BY DEF IInv, Typed, Steps
<1>3. server.at = "serving" /\ server.token \in Tokens /\ server.token[2] <= session
  BY <1>1, Serving DEF IInv, Started, Asked
<1>4. unproven \/ server.token[1] = server.frozen
  BY <1>3 DEF IInv, Proven
<1>5. call[r].other => unproven
  BY DEF IInv, Proven
<1> HIDE DEF unproven
<1>6. c \in CallRecords
  BY <1>2, <1>3, Zenon DEF CallRecords
<1>7. /\ c.at = "wait" /\ c.tool = call[r].tool /\ c.late = call[r].late
      /\ c.other = call[r].other /\ c.unproven = unproven
      /\ c.answer = call[r].answer /\ c.token = call[r].token /\ c.sent = server.token
  BY <1>2 DEF CallRecords
<1>8. ~call[r].late
  BY <1>1 DEF IInv, LateCalls
<1>9. /\ call[r].token \in Tokens /\ call[r].token[2] <= session
      /\ call[r].token = server.token \/ ~Valid(call[r].token)
  BY <1>1 DEF IInv, Asked
<1> HIDE DEF c
<1> QED
  BY <1>1, <1>3, <1>4, <1>5, <1>6, <1>7, <1>8, <1>9, GoSafe

LEMMA AnsweredSafe ==
  ASSUME IInv, NEW r \in Requests, Answered(r)
  PROVE  IInv'
<1>1. call[r].at = "wait" /\ UNCHANGED <<Outside, server>>
  BY DEF Answered
<1>2. PICK last \in BOOLEAN :
        /\ call[r].gets + 1 = MaxGets => last
        /\ call' = [call EXCEPT ![r] =
                     [@ EXCEPT !.at = IF last THEN "read" ELSE "get", !.token = None,
                               !.sent = None, !.attempt = 0,
                               !.gets = IF last THEN 0 ELSE call[r].gets + 1,
                               !.other = call[r].other \/ host # server.frozen]]
  BY DEF Answered
<1> DEFINE at == IF last THEN "read" ELSE "get"
           gets == IF last THEN 0 ELSE call[r].gets + 1
           other == call[r].other \/ host # server.frozen
           c == [call[r] EXCEPT !.at = at, !.token = None, !.sent = None, !.attempt = 0,
                                !.gets = gets, !.other = other]
<1>3. call' = [call EXCEPT ![r] = c]
  BY <1>2
<1>4. call[r] \in CallRecords
  BY DEF IInv, Typed
<1>5. at \in {"read", "get"} /\ at \in Steps /\ other \in BOOLEAN /\ 0 \in 0 .. 2
  BY DEF Steps
<1>10. other => call[r].unproven
  <2>1. call[r].unproven \/ call[r].sent[1] = server.frozen
    BY <1>1 DEF IInv, Proven
  <2>2. Valid(call[r].sent)
    BY DEF Answered
  <2> QED
    BY <2>1, <2>2 DEF Valid, IInv, Proven
<1>6. gets \in 0 .. MaxGets - 1
  <2>1. call[r].gets \in 0 .. MaxGets - 1
    BY <1>4, Zenon DEF CallRecords
  <2> QED
    BY <1>2, <2>1, FacadeAssumption
<1> HIDE DEF at, gets, other
<1>7. c \in CallRecords
  BY <1>4, <1>5, <1>6, Zenon DEF CallRecords
<1>8. /\ c.at = at /\ c.tool = call[r].tool /\ c.late = call[r].late
      /\ c.answer = call[r].answer
      /\ c.other = other /\ c.unproven = call[r].unproven
  BY <1>4 DEF CallRecords
<1>9. ~call[r].late
  BY <1>1 DEF IInv, LateCalls
<1> HIDE DEF c
<1> QED
  BY <1>1, <1>3, <1>5, <1>7, <1>8, <1>9, <1>10, GoSafe

\* A call that is sent again.
LEMMA ReplaySafe ==
  ASSUME IInv, UNCHANGED Outside, UNCHANGED server, NEW r \in Requests,
         call[r].at \in {"wait", "lock"}, Replay(r)
  PROVE  IInv'
<1> DEFINE c == [call[r] EXCEPT !.at = "send", !.attempt = 2, !.token = None, !.sent = None]
<1>1. call[r] \in CallRecords /\ "send" \in Steps /\ 2 \in 0 .. 2
  BY DEF IInv, Typed, Steps
<1>2. ~call[r].late
  BY DEF IInv, LateCalls
<1>3. call' = [call EXCEPT ![r] = c]
  BY DEF Replay
<1>4. c \in CallRecords
  BY <1>1, Zenon DEF CallRecords
<1>5. /\ c.at = "send" /\ c.tool = call[r].tool /\ c.late = call[r].late
      /\ c.answer = call[r].answer
      /\ c.other = call[r].other /\ c.unproven = call[r].unproven
  BY <1>1 DEF CallRecords
<1> HIDE DEF c
<1> QED
  BY <1>2, <1>3, <1>4, <1>5, GoSafe

\* A rejected call that has to wait for a new token.
LEMMA RejectedSafe ==
  ASSUME IInv, UNCHANGED Outside, UNCHANGED server, NEW r \in Requests,
         call[r].at = "wait", ~Valid(call[r].sent),
         call' = [call EXCEPT ![r] = [@ EXCEPT !.at = "lock", !.sent = None]]
  PROVE  IInv'
<1> DEFINE c == [call[r] EXCEPT !.at = "lock", !.sent = None]
<1>1. call[r] \in CallRecords /\ "lock" \in Steps
  BY DEF IInv, Typed, Steps
<1>2. /\ call[r].token \in Tokens /\ call[r].token[2] <= session /\ ~call[r].late
      /\ ~Valid(call[r].token)
  BY DEF IInv, Asked, LateCalls
<1>3. call' = [call EXCEPT ![r] = c]
  OBVIOUS
<1>4. c \in CallRecords
  BY <1>1, Zenon DEF CallRecords
<1>5. /\ c.at = "lock" /\ c.tool = call[r].tool /\ c.late = call[r].late
      /\ c.other = call[r].other /\ c.unproven = call[r].unproven
      /\ c.answer = call[r].answer /\ c.token = call[r].token
  BY <1>1 DEF CallRecords
<1> HIDE DEF c
<1> QED
  BY <1>2, <1>3, <1>4, <1>5, GoSafe

LEMMA WaitSafe ==
  ASSUME IInv, NEW r \in Requests, Rejected(r) \/ Dropped(r) \/ Failed(r)
  PROVE  IInv'
<1>1. call[r].at = "wait" /\ UNCHANGED Outside
  BY DEF Rejected, Dropped, Failed
<1>2. CASE \E code \in {"REST_UNAVAILABLE", "REST_TIMEOUT", "REST_PAYLOAD_TOO_LARGE",
                        "REST_NOT_FOUND", "REST_SCHEMA_MISMATCH"} : Fail(r, code, "INCOMPLETE")
  BY <1>1, <1>2, FailSafe
<1>3. CASE /\ UNCHANGED server /\ ~Valid(call[r].sent)
           /\ call' = [call EXCEPT ![r] = [@ EXCEPT !.at = "lock", !.sent = None]]
  BY <1>1, <1>3, RejectedSafe
<1>4. CASE UNCHANGED server /\ Replay(r)
  BY <1>1, <1>4, ReplaySafe
<1> QED
  BY <1>2, <1>3, <1>4 DEF Rejected, Dropped, Failed

LEMMA ReadSafe ==
  ASSUME IInv, NEW r \in Requests, Read(r)
  PROVE  IInv'
<1>1. call[r].at = "read" /\ UNCHANGED Outside
  BY DEF Read
<1>2. ~call[r].late
  BY <1>1 DEF IInv, LateCalls
<1>3. /\ "IDENTITY_ORG_ID_MISMATCH" \in BlockingWarnings
      /\ "SENSITIVE_OUTPUT_DETECTED" \in BlockingWarnings /\ "NOT_SANDBOX" \in BlockingWarnings
  BY DEF BlockingWarnings
<1>4. CASE /\ call[r].tool = "identity"
           /\ Reply(r, ErrorEnvelope("IDENTITY_ORG_ID_MISMATCH", "BLOCKED"))
           /\ server' = [server EXCEPT !.closed = TRUE]
  <2> DEFINE e == ErrorEnvelope("IDENTITY_ORG_ID_MISMATCH", "BLOCKED")
  <2>1. Answerable(call[r].tool, e) /\ e.status # "VERIFIED"
    BY <1>3, ErrorsAccepted
  <2> HIDE DEF e
  <2>2. server.at = "serving" /\ server \in ServerRecords
    BY <1>1, Serving DEF IInv, Typed
  <2>3. server' \in ServerRecords
    BY <1>4, <2>2, Zenon DEF ServerRecords
  <2>4. server.describing # r /\ server.refreshing # r
    BY <1>1, <1>4 DEF IInv, Locks
  <2>5. /\ server'.at = "serving" /\ server'.token = server.token
        /\ server'.frozen = server.frozen /\ server'.cancelled = server.cancelled
      /\ server'.proven = server.proven
        /\ server'.closed /\ server'.describing = server.describing
        /\ server'.refreshing = server.refreshing
    BY <1>4, <2>2 DEF ServerRecords
  <2>6. Received(r, e) # "data"
    BY <2>1, NoDataIn
  <2>7. Reply(r, e)
    BY <1>4 DEF e
  <2> QED
    BY <1>1, <2>1, <2>2, <2>3, <2>4, <2>5, <2>6, <2>7, EndSafe DEF Released
<1>5. CASE Settle(r, Verified)
  <2>1. call[r].tool # "orgs"
    BY <1>1 DEF IInv, Locks
  <2> QED
    BY <1>1, <1>2, <1>5, <2>1, OthersAccepted, SettleSafe
<1>6. CASE \E code \in {"RESULT_TRUNCATED", "CLI_OUTPUT_TOO_LARGE"} : Fail(r, code, "INCOMPLETE")
  BY <1>1, <1>6, FailSafe
<1>7. CASE Settle(r, Blocked("SENSITIVE_OUTPUT_DETECTED"))
  BY <1>1, <1>2, <1>3, <1>7, OthersAccepted, SettleSafe
<1>8. CASE Fail(r, "NOT_SANDBOX", "BLOCKED")
  BY <1>1, <1>3, <1>8, FailSafe
<1>9. CASE Settle(r, InternalError)
  BY <1>1, <1>9, OthersAccepted, SettleSafe
<1> QED
  BY <1>4, <1>5, <1>6, <1>7, <1>8, <1>9 DEF Read

LEMMA LockSafe ==
  ASSUME IInv, NEW r \in Requests, Lock(r)
  PROVE  IInv'
<1>1. call[r].at = "lock" /\ server.refreshing = None /\ UNCHANGED Outside
  BY DEF Lock
<1>2. CASE Fail(r, "IDENTITY_ORG_ID_MISMATCH", "BLOCKED")
  <2>1. "IDENTITY_ORG_ID_MISMATCH" \in BlockingWarnings
    BY DEF BlockingWarnings
  <2> QED
    BY <1>1, <1>2, <2>1, FailSafe
<1>3. CASE Replay(r) /\ UNCHANGED server
  BY <1>1, <1>3, ReplaySafe
<1>4. CASE /\ server.token = call[r].token /\ To(r, "cli")
           /\ server' = [server EXCEPT !.refreshing = r]
  <2> DEFINE c == [call[r] EXCEPT !.at = "cli"]
  <2>1. call[r] \in CallRecords /\ "cli" \in Steps /\ server \in ServerRecords
    BY DEF IInv, Typed, Steps
  <2>2. call' = [call EXCEPT ![r] = c]
    BY <1>4 DEF To
  <2>3. c \in CallRecords
    BY <2>1, Zenon DEF CallRecords
  <2>4. /\ c.at = "cli" /\ c.tool = call[r].tool /\ c.late = call[r].late
        /\ c.other = call[r].other /\ c.unproven = call[r].unproven
        /\ c.answer = call[r].answer /\ c.token = call[r].token
    BY <2>1 DEF CallRecords
  <2>5. server' \in ServerRecords
    BY <1>4, <2>1, Zenon DEF ServerRecords
  <2>6. /\ server'.at = server.at /\ server'.token = server.token
        /\ server'.frozen = server.frozen /\ server'.cancelled = server.cancelled
      /\ server'.proven = server.proven
        /\ server'.closed = server.closed /\ server'.describing = server.describing
        /\ server'.refreshing = r
    BY <1>4, <2>1 DEF ServerRecords
  <2>7. /\ ~call[r].late /\ call[r].token \in Tokens /\ call[r].token[2] <= session
        /\ ~Valid(call[r].token)
    BY <1>1 DEF IInv, LateCalls, Asked
  <2> HIDE DEF c
  <2>8. Move(r, c)
    BY <1>1, <1>4, <2>2, <2>4, <2>6, <2>7 DEF Move
  <2> QED
    BY <1>1, <2>3, <2>5, <2>8, MoveSafe
<1> QED
  BY <1>2, <1>3, <1>4 DEF Lock

\* A refresh that fails gives the lock back, and may close the session.
LEMMA FailRefreshSafe ==
  ASSUME IInv, UNCHANGED Outside, NEW r \in Requests, NEW e, NEW closed \in BOOLEAN, Reply(r, e),
         server' = [server EXCEPT !.refreshing = None, !.describing = Released(r), !.closed = closed],
         call[r].at \in {"cli", "prove"},
         server.closed => closed,
         Answerable(call[r].tool, e), e.status # "VERIFIED"
  PROVE  IInv'
<1>1. server.at = "serving" /\ server \in ServerRecords /\ server.refreshing = r
  BY Serving DEF IInv, Typed, Locks
<1>2. Released(r) \in Requests \cup {None}
  <2>1. server.describing \in Requests \cup {None}
    BY <1>1 DEF ServerRecords
  <2> QED
    BY <2>1 DEF Released
<1>3. server' \in ServerRecords
  BY <1>1, <1>2, Zenon DEF ServerRecords
<1>4. /\ server'.at = "serving" /\ server'.token = server.token
      /\ server'.frozen = server.frozen /\ server'.cancelled = server.cancelled
      /\ server'.proven = server.proven
      /\ server'.closed = closed /\ server'.describing = Released(r)
      /\ server'.refreshing = None
  BY <1>1 DEF ServerRecords
<1>5. Received(r, e) # "data"
  BY NoDataIn
<1> QED
  BY <1>1, <1>3, <1>4, <1>5, EndSafe

\* What a refresh may fail with.
LEMMA FailuresAccepted ==
  ASSUME NEW tool,
         NEW e \in Unproven \cup
           {ErrorEnvelope("IDENTITY_ORG_ID_MISMATCH", "BLOCKED"),
            ErrorEnvelope("CLI_SCHEMA_MISMATCH", "INCOMPLETE"),
            ErrorEnvelope("CLI_UNAVAILABLE", "INCOMPLETE"),
            ErrorEnvelope("CLI_OUTPUT_TOO_LARGE", "INCOMPLETE")}
  PROVE  Answerable(tool, e) /\ e.status # "VERIFIED"
<1>1. CASE e = InternalError
  BY <1>1, OthersAccepted
<1>2. CASE e # InternalError
  <2>1. \E code, status :
          /\ e = ErrorEnvelope(code, status)
          /\ \/ code \in BlockingWarnings
             \/ /\ status = "INCOMPLETE"
                /\ code \in {"CLI_OUTPUT_TOO_LARGE", "CLI_UNAVAILABLE", "REST_PAYLOAD_TOO_LARGE",
                             "REST_NOT_FOUND", "REST_SCHEMA_MISMATCH", "REST_TIMEOUT",
                             "REST_UNAVAILABLE", "RESULT_TRUNCATED"}
    BY <1>2 DEF Unproven, BlockingWarnings
  <2> QED
    BY <2>1, ErrorsAccepted
<1> QED
  BY <1>1, <1>2

LEMMA RefreshSafe ==
  ASSUME IInv, NEW r \in Requests, NewToken(r) \/ Prove(r)
  PROVE  IInv'
<1>1. call[r].at \in {"cli", "prove"} /\ UNCHANGED Outside
  BY DEF NewToken, Prove
<1>2. call[r] \in CallRecords /\ server \in ServerRecords
  BY DEF IInv, Typed
<1>3. ~call[r].late
  BY <1>1 DEF IInv, LateCalls
<1>4. ASSUME NEW e, NEW closed \in BOOLEAN, FailRefresh(r, e, closed), server.closed => closed,
             Answerable(call[r].tool, e), e.status # "VERIFIED"
      PROVE  IInv'
  BY <1>1, <1>4, FailRefreshSafe DEF FailRefresh
<1>5. server.closed \in BOOLEAN
  BY <1>2, Zenon DEF ServerRecords
<1>6. CASE \/ \E code \in {"CLI_SCHEMA_MISMATCH", "CLI_UNAVAILABLE", "CLI_OUTPUT_TOO_LARGE"} :
                FailRefresh(r, ErrorEnvelope(code, "INCOMPLETE"), server.closed)
           \/ FailRefresh(r, ErrorEnvelope("IDENTITY_ORG_ID_MISMATCH", "BLOCKED"), TRUE)
           \/ \E e \in Unproven : FailRefresh(r, e, server.closed)
  <2>1. CASE \E code \in {"CLI_SCHEMA_MISMATCH", "CLI_UNAVAILABLE", "CLI_OUTPUT_TOO_LARGE"} :
               FailRefresh(r, ErrorEnvelope(code, "INCOMPLETE"), server.closed)
    BY <1>4, <1>5, <2>1, FailuresAccepted
  <2>2. CASE FailRefresh(r, ErrorEnvelope("IDENTITY_ORG_ID_MISMATCH", "BLOCKED"), TRUE)
    BY <1>4, <2>2, FailuresAccepted
  <2>3. CASE \E e \in Unproven : FailRefresh(r, e, server.closed)
    BY <1>4, <1>5, <2>3, FailuresAccepted
  <2> QED
    BY <1>6, <2>1, <2>2, <2>3
<1>7. CASE /\ call[r].at = "cli" /\ To(r, "prove")
           /\ server' = [server EXCEPT !.token = <<login, session>>, !.proven = FALSE]
  <2> DEFINE c == [call[r] EXCEPT !.at = "prove"]
  <2>1. <<login, session>> \in Tokens /\ "prove" \in Steps
    BY DEF IInv, Typed, Tokens, Steps
  <2>2. call' = [call EXCEPT ![r] = c]
    BY <1>7 DEF To
  <2>3. c \in CallRecords
    BY <1>2, <2>1, Zenon DEF CallRecords
  <2>4. /\ c.at = "prove" /\ c.tool = call[r].tool /\ c.late = call[r].late
        /\ c.other = call[r].other /\ c.unproven = call[r].unproven
        /\ c.answer = call[r].answer /\ c.token = call[r].token
    BY <1>2 DEF CallRecords
  <2>5. server' \in ServerRecords
    BY <1>2, <1>7, <2>1, Zenon DEF ServerRecords
  <2>6. /\ server'.at = server.at /\ server'.token = <<login, session>> /\ ~server'.proven
        /\ server'.frozen = server.frozen /\ server'.cancelled = server.cancelled
        /\ server'.closed = server.closed /\ server'.describing = server.describing
        /\ server'.refreshing = server.refreshing
    BY <1>2, <1>7 DEF ServerRecords
  <2>7. call[r].token \in Tokens /\ call[r].token[2] <= session
    BY <1>7 DEF IInv, Asked
  <2> HIDE DEF c
  <2>8. Move(r, c)
    BY <1>3, <1>7, <2>2, <2>4, <2>6, <2>7 DEF Move
  <2> QED
    BY <1>1, <2>3, <2>5, <2>8, MoveSafe
<1>8. CASE /\ call[r].at = "prove" /\ Replay(r) /\ Valid(server.token) /\ host = server.frozen
           /\ server' = [server EXCEPT !.refreshing = None, !.proven = TRUE]
  <2> DEFINE c == [call[r] EXCEPT !.at = "send", !.attempt = 2, !.token = None, !.sent = None]
  <2>1. "send" \in Steps /\ 2 \in 0 .. 2
    BY DEF Steps
  <2>2. call' = [call EXCEPT ![r] = c]
    BY <1>8 DEF Replay
  <2>3. c \in CallRecords
    BY <1>2, <2>1, Zenon DEF CallRecords
  <2>4. /\ c.at = "send" /\ c.tool = call[r].tool /\ c.late = call[r].late
        /\ c.answer = call[r].answer
        /\ c.other = call[r].other /\ c.unproven = call[r].unproven
    BY <1>2 DEF CallRecords
  <2>5. server' \in ServerRecords
    BY <1>2, <1>8, Zenon DEF ServerRecords
  <2>6. /\ server'.at = server.at /\ server'.token = server.token
        /\ server'.frozen = server.frozen /\ server'.cancelled = server.cancelled
        /\ server'.closed = server.closed /\ server'.describing = server.describing
        /\ server'.refreshing = None /\ server'.token[1] = server.frozen
    BY <1>2, <1>8 DEF ServerRecords, Valid
  <2> HIDE DEF c
  <2>7. Move(r, c)
    BY <1>3, <1>8, <2>2, <2>4, <2>6 DEF Move
  <2> QED
    BY <1>1, <2>3, <2>5, <2>7, MoveSafe
<1> QED
  BY <1>6, <1>7, <1>8 DEF NewToken, Prove

LEMMA OutsideSafe ==
  ASSUME IInv, (\E r \in Requests : Cancel(r)) \/ Login \/ Expire \/ Refresh
  PROVE  IInv'
<1> USE FacadeAssumption
<1>1. CASE \E r \in Requests : Cancel(r)
  <2>1. PICK r \in Requests : Cancel(r)
    BY <1>1
  <2>2. server \in ServerRecords
    BY DEF IInv, Typed
  <2>3. UNCHANGED <<config, host, login, session, events, call>>
        /\ server' = [server EXCEPT !.cancelled = @ \cup {r}]
    BY <2>1 DEF Cancel, Outside
  <2>4. server' \in ServerRecords
    <3>1. server.cancelled \cup {r} \in SUBSET Requests
      BY <2>2 DEF ServerRecords
    <3> QED
      BY <2>2, <2>3, <3>1, Zenon DEF ServerRecords
  <2>5. /\ server'.at = server.at /\ server'.token = server.token
        /\ server'.frozen = server.frozen /\ server'.closed = server.closed
        /\ server'.describing = server.describing /\ server'.refreshing = server.refreshing
        /\ server'.proven = server.proven
    BY <2>2, <2>3 DEF ServerRecords
  <2>6. Typed' /\ Started'
    BY <2>3, <2>4, <2>5 DEF IInv, Typed, Started, Drained, Acceptable, Pinned
  <2>7. Asked' /\ Locks'
    BY <2>3, <2>5 DEF IInv, Asked, Valid, Locks
  <2>8. LateCalls' /\ Proven'
    BY <2>3, <2>5 DEF IInv, LateCalls, Proven
  <2>9. Pool'
    BY <2>3 DEF IInv, Pool, Running
  <2> QED
    BY <2>6, <2>7, <2>8, <2>9 DEF IInv
<1>2. CASE Login \/ Expire \/ Refresh
  <2>1. UNCHANGED <<config, server, call>> /\ events' = events + 1
    BY <1>2 DEF Login, Expire, Refresh, Event
  <2>2. /\ host' \in Orgs /\ login' \in Orgs /\ session' \in Nat /\ session <= session'
        /\ host' = host \/ session' = session + 1
        /\ session' = session \/ session' = session + 1
    BY <1>2 DEF Login, Expire, Refresh, Event, IInv, Typed
  <2>3. Typed' /\ Started'
    BY <2>1, <2>2 DEF IInv, Typed, Started, Drained, Acceptable, Pinned
  <2>4. Asked'
    <3>1. ASSUME NEW token \in Tokens, token[2] <= session
          PROVE  token[2] <= session' /\ (~Valid(token) => ~(Valid(token)'))
      BY <2>2, <3>1 DEF Valid, Tokens, IInv, Typed
    <3>2. server.at \in {"display", "probe", "serving", "exited"} => server.token[2] <= session'
      BY <3>1 DEF IInv, Started, Asked
    <3>3. \A r \in Requests : call[r].at \in {"lock", "cli"} => ~(Valid(call[r].token)')
      BY <2>1, <3>1 DEF IInv, Asked, Valid
    <3> QED
      BY <2>1, <3>1, <3>2, <3>3 DEF IInv, Asked, Valid
  <2>5. Locks' /\ LateCalls' /\ Proven'
    BY <2>1 DEF IInv, Locks, LateCalls, Proven
  <2>6. Pool'
    BY <2>1 DEF IInv, Pool, Running
  <2> QED
    BY <2>3, <2>4, <2>5, <2>6 DEF IInv
<1> QED
  BY <1>1, <1>2

LEMMA StutterSafe ==
  ASSUME IInv, UNCHANGED vars
  PROVE  IInv'
<1> USE DEF vars
<1>1. Typed' /\ Started'
  BY DEF IInv, Typed, Started, Drained, Acceptable, Pinned
<1>2. Asked' /\ Locks'
  BY DEF IInv, Asked, Valid, Locks
<1>3. LateCalls' /\ Proven'
  BY DEF IInv, LateCalls, Proven
<1>4. Pool'
  BY DEF IInv, Pool, Running
<1> QED
  BY <1>1, <1>2, <1>3, <1>4 DEF IInv

LEMMA NextSafe == IInv /\ [Next]_vars => IInv'
<1> SUFFICES ASSUME IInv, [Next]_vars PROVE IInv'
  OBVIOUS
<1>1. CASE Launch \/ TakeToken \/ Display \/ Probe \/ Eof \/ Exit
  BY <1>1, StartSafe
<1>2. CASE \E r \in Requests : Work(r)
  <2>1. PICK r \in Requests : Work(r)
    BY <1>2
  <2>2. CASE Take(r) \/ Exclude(r)
    BY <2>2, TakeSafe, ExcludeSafe
  <2>3. CASE Get(r) \/ Send(r) \/ Dispatch(r)
    BY <2>3, GetSafe, SendSafe, DispatchSafe
  <2>4. CASE Answered(r)
    BY <2>4, AnsweredSafe
  <2>5. CASE Rejected(r) \/ Dropped(r) \/ Failed(r)
    BY <2>5, WaitSafe
  <2>6. CASE Read(r)
    BY <2>6, ReadSafe
  <2>7. CASE Lock(r)
    BY <2>7, LockSafe
  <2>8. CASE NewToken(r) \/ Prove(r)
    BY <2>8, RefreshSafe
  <2> QED
    BY <2>1, <2>2, <2>3, <2>4, <2>5, <2>6, <2>7, <2>8 DEF Work
<1>3. CASE \E r \in Requests : \E tool \in Tools : Submit(r, tool)
  BY <1>3, SubmitSafe
<1>4. CASE (\E r \in Requests : Cancel(r)) \/ Login \/ Expire \/ Refresh
  BY <1>4, OutsideSafe
<1>5. CASE UNCHANGED vars
  BY <1>5, StutterSafe
<1> QED
  BY <1>1, <1>2, <1>3, <1>4, <1>5 DEF Next

LEMMA Invariant == Spec => []IInv
BY InitSafe, NextSafe, PTL DEF Spec

-----------------------------------------------------------------------------
(* What follows from it. *)

\* Calls stay of the type they have, each lock has one holder and no more calls
\* run than there are threads.
THEOREM TypeCorrect == Spec => []TypeOK
<1>1. IInv => TypeOK
  <2> SUFFICES ASSUME IInv PROVE TypeOK
    OBVIOUS
  <2>1. /\ server.token \in (Orgs \X Nat) \cup {None}
        /\ server.frozen \in Orgs \cup {None}
    BY DEF IInv, Typed, ServerRecords, Tokens
  <2>2. ASSUME NEW r \in Requests
        PROVE  call[r].attempt \in 0 .. 2 /\ call[r].gets \in 0 .. MaxGets
    <3>1. call[r] \in CallRecords
      BY DEF IInv, Typed
    <3>2. call[r].attempt \in 0 .. 2 /\ call[r].gets \in 0 .. MaxGets - 1
      BY <3>1, Zenon DEF CallRecords
    <3> QED
      BY <3>2, FacadeAssumption
  <2> QED
    BY <2>1, <2>2 DEF IInv, Locks, Pool, TypeOK
<1> QED
  BY Invariant, <1>1, PTL

\* A token that passed a proof is of the org that was frozen, which is the
\* configured one and none that is denied; only calls that sent a request with
\* a token no proof had passed hear of another org; and none that begins after
\* a mismatch was noticed brings data: for any number of requests and threads.
THEOREM IdentityStaysFrozen == Spec => []IdentityFrozen
<1>1. IInv => IdentityFrozen
  <2> SUFFICES ASSUME IInv PROVE IdentityFrozen
    OBVIOUS
  <2>1. ProvenIsFrozen
    BY DEF IInv, Started, Proven, Acceptable, ProvenIsFrozen
  <2>2. OtherOnlyUnproven
    BY DEF IInv, Proven, OtherOnlyUnproven
  <2>3. ClosedForGood
    BY DEF IInv, LateCalls, ClosedForGood
  <2> QED
    BY <2>1, <2>2, <2>3 DEF IdentityFrozen
<1> QED
  BY Invariant, <1>1, PTL

\* The CLI is asked for another token only when the one in use is dead,
\* whatever the order in which rejected calls reach the lock.
THEOREM LiveTokenKept == Spec => []NoLiveTokenReplaced
<1>1. IInv => NoLiveTokenReplaced
  BY DEF IInv, Asked, NoLiveTokenReplaced
<1> QED
  BY Invariant, <1>1, PTL

\* Of the answers of calls the client refuses only those to a configuration
\* that can no longer be read and to an unexpected exception.
THEOREM EnvelopesAreAccepted == Spec => []EnvelopesAccepted
<1>1. IInv => EnvelopesAccepted
  <2> SUFFICES ASSUME IInv, NEW r \in Requests
               PROVE  call[r].answer \in Results \cup {None}
    BY DEF EnvelopesAccepted, Results, Refused
  <2> QED
    BY Zenon DEF IInv, Typed, CallRecords
<1> QED
  BY Invariant, <1>1, PTL
=============================================================================
