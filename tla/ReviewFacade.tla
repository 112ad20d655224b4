----------------------------- MODULE ReviewFacade -----------------------------
(***************************************************************************)
(* The read-only review server: scripts/start_salesforce_mcp.mjs checks    *)
(* the configuration and starts scripts/salesforce_review_server.py, which *)
(* binds one alias to one org, freezes that org's identity and answers     *)
(* tool calls from a pool of threads over one shared token.  A rejected    *)
(* token is replaced once and proven anew.                                 *)
(*                                                                         *)
(* Outside: the CLI's login of the alias, the org that answers at its      *)
(* instance URL (the refresh of a sandbox puts another one there) and the  *)
(* client, which calls, cancels and closes its end.  A token is an org and *)
(* the session it belongs to.  What a response says is abstracted to       *)
(* whether it came from the frozen org.  The configuration the server was  *)
(* started with is kept; the file may change behind it.                    *)
(***************************************************************************)
EXTENDS Naturals, FiniteSets

CONSTANTS
  Orgs,       \* orgs that have ever been at the instance URL
  Configs,    \* local configurations: see Admitted
  Requests,   \* JSON-RPC request IDs
  PoolSize,   \* THREAD_POOL_SIZE
  MaxGets,    \* bound: the responses one call reads
  MaxEvents,  \* bound: logins, expirations and refreshes of the sandbox
  None

ASSUME FacadeAssumption ==
  /\ IsFiniteSet(Requests) /\ None \notin Requests
  /\ {PoolSize, MaxGets, MaxEvents} \subseteq Nat /\ MaxGets > 0
  /\ None \notin {"error", "configuration", "data", "CONFIG_MISSING", "CONFIG_INVALID",
                  "INTERNAL_ERROR", "VERIFIED"}

VARIABLES
  config,   \* what config/harness.local.json says of the alias
  host,     \* the org that answers at the instance URL
  login,    \* the org of the CLI's authorization of the alias
  session,  \* the number of the session that is alive in every org
  server,
  call,
  events    \* history: the number of events outside

vars == <<config, host, login, session, server, call, events>>

\* Tools that return an evidence envelope.  A call of an unknown tool, with
\* invalid arguments or about an object that is not allowlisted is refused
\* before anything is asked.
Tools == {"identity", "object", "query", "orgs"}

-----------------------------------------------------------------------------
(* Envelopes. *)

BlockingWarnings ==
  {"CLI_SCHEMA_MISMATCH", "CLI_VERSION_UNSUPPORTED", "IDENTITY_HOST_MISMATCH",
   "IDENTITY_ORG_ID_MISMATCH", "INTERNAL_ERROR", "NOT_SANDBOX", "OBJECT_NOT_ALLOWLISTED",
   "ORG_ID_DENIED", "QUERY_PROFILE_DENIED", "QUERY_VALIDATION_DENIED",
   "SCOPED_ENUMERATION_DISABLED", "SENSITIVE_OUTPUT_DETECTED"}

\* make_envelope.
Verified == [status |-> "VERIFIED", warning |-> None, proven |-> TRUE, complete |-> TRUE]
Enumerated == [Verified EXCEPT !.proven = FALSE, !.complete = FALSE]
Blocked(code) ==
  [status |-> "BLOCKED", warning |-> code, proven |-> FALSE, complete |-> FALSE]

\* Faulty variant: the status the error was raised with.
AsRaised(code, status) ==
  [status |-> status, warning |-> code, proven |-> TRUE, complete |-> FALSE]

\* What call_tool answers to an exception nobody expected: no envelope.
InternalError ==
  [status |-> None, warning |-> "INTERNAL_ERROR", proven |-> FALSE, complete |-> FALSE]

\* error_envelope of a server that has its proof.
ErrorEnvelope(code, status) ==
  [status |-> IF status = "INCOMPLETE" /\ code \notin BlockingWarnings
              THEN "INCOMPLETE" ELSE "BLOCKED",
   warning |-> IF code = "REST_NOT_FOUND" THEN "REST_SCHEMA_MISMATCH" ELSE code,
   proven |-> TRUE, complete |-> FALSE]

-----------------------------------------------------------------------------
(* Start. *)

\* The launcher and load_runtime; entries: how many entries claim the alias;
\* pins: "both", "one" or "none" of expectedInstanceHost and
\* expectedOrganizationId.
LauncherAdmits(c) == c.entries <= 1 /\ (c.entries = 1 => c.known) /\ c.enabled
Admitted(c) ==
  /\ c.entries <= 1 /\ c.enabled
  /\ c.entries = 1 => c.known /\ c.pins # "one"

Pinned(c) == c.entries = 1 /\ c.pins = "both"

\* token is token_used, sent the one that went with the request.  History:
\* other, a response came from another org than the frozen one; unproven, a
\* request went out with a token whose org was not proven; late, it had been found
\* to have changed when the call was made.
NoCall == [tool |-> None, at |-> "none", token |-> None, sent |-> None, attempt |-> 0,
           gets |-> 0, other |-> FALSE, unproven |-> FALSE, late |-> FALSE, answer |-> None]

Init ==
  /\ config \in Configs
  /\ host \in Orgs /\ login \in Orgs /\ session = 0
  /\ server = [at |-> "launch", token |-> None, frozen |-> None, closed |-> FALSE,
               proven |-> FALSE, refreshing |-> None, describing |-> None, eof |-> FALSE, cancelled |-> {}]
  /\ call = [r \in Requests |-> NoCall]
  /\ events = 0

Outside == <<config, host, login, session, events>>

Serve(at) == server' = [server EXCEPT !.at = at]

Launch ==
  /\ server.at = "launch"
  /\ Serve(IF LauncherAdmits(config) /\ Admitted(config) THEN "token" ELSE "down")
  /\ UNCHANGED <<Outside, call>>

\* sf org auth show-access-token; the CLI may be missing or too old.
TakeToken ==
  /\ server.at = "token"
  /\ \/ server' = [server EXCEPT !.at = "display", !.token = <<login, session>>]
     \/ Serve("down")
  /\ UNCHANGED <<Outside, call>>

Acceptable(org) == (Pinned(config) => org = config.org) /\ org \notin config.denied

\* sf org display: the org of the login there is now.
Display ==
  /\ server.at = "display"
  /\ server' = IF Acceptable(login) THEN [server EXCEPT !.at = "probe", !.frozen = login]
               ELSE [server EXCEPT !.at = "down"]
  /\ UNCHANGED <<Outside, call>>

Valid(token) == token = <<host, session>>

\* The live probe.  There is no frozen identity yet, and a token that is
\* replaced during the probe is compared with the displayed org right after.
Probe ==
  /\ server.at = "probe"
  /\ \/ /\ Valid(server.token) /\ host = server.frozen
        /\ server' = [server EXCEPT !.at = "serving", !.proven = TRUE]
     \/ /\ ~Valid(server.token) /\ server.token # <<login, session>>
        /\ server' = [server EXCEPT !.token = <<login, session>>]
     \/ Serve("down")
  /\ UNCHANGED <<Outside, call>>

-----------------------------------------------------------------------------
(* Calls. *)

\* What the client accepts of schemas/salesforce-org-review-evidence.schema.json.
EnvelopeValid(tool, e) ==
  CASE e.status = "VERIFIED" ->
         e.warning = None /\ (IF tool = "orgs" THEN ~e.proven ELSE e.proven /\ e.complete)
    [] e.status = "INCOMPLETE" ->
         /\ e.proven /\ ~e.complete
         /\ e.warning \in {"CLI_OUTPUT_TOO_LARGE", "CLI_UNAVAILABLE", "REST_PAYLOAD_TOO_LARGE",
                           "REST_SCHEMA_MISMATCH", "REST_TIMEOUT", "REST_UNAVAILABLE",
                           "RESULT_TRUNCATED"}
    [] e.status = "BLOCKED" -> ~e.complete /\ e.warning \in BlockingWarnings
    [] OTHER -> FALSE

\* What the client makes of the answer of call r; one it refuses stands for
\* its code, if it has one.
Received(r, e) ==
  IF ~EnvelopeValid(call[r].tool, e) THEN (IF e.warning = None THEN "refused" ELSE e.warning)
  ELSE IF e.status # "VERIFIED" THEN "error"
  ELSE IF call[r].tool = "orgs" THEN "configuration" ELSE "data"

Running == {r \in Requests : call[r].at \notin {"none", "queued", "ended"}}

To(r, at) == call' = [call EXCEPT ![r].at = at]

\* The late response of a cancelled call is suppressed.
Reply(r, e) ==
  call' = [call EXCEPT ![r] =
             [NoCall EXCEPT !.at = "ended", !.other = call[r].other,
                            !.unproven = call[r].unproven, !.late = call[r].late,
                            !.answer = IF r \in server.cancelled THEN None ELSE Received(r, e)]]

\* Faulty variant: the lock is released by those that succeed.
StillHeld(r) == IF server.describing = r /\ call[r].at # "read" THEN r ELSE server.describing

\* The object contract lock is held until the result is there.
Released(r) == IF server.describing = r THEN None ELSE server.describing

Settle(r, e) == Reply(r, e) /\ server' = [server EXCEPT !.describing = Released(r)]

Fail(r, code, status) == Settle(r, ErrorEnvelope(code, status))

Submit(r, tool) ==
  /\ server.at = "serving" /\ ~server.eof /\ call[r] = NoCall
  /\ call' = [call EXCEPT ![r] = [@ EXCEPT !.tool = tool, !.at = "queued", !.late = server.closed]]
  /\ UNCHANGED <<Outside, server>>

\* review_configured_orgs reads only the file, as it is by now.
Listings ==
  {Enumerated, Blocked("SCOPED_ENUMERATION_DISABLED"), ErrorEnvelope("CONFIG_MISSING", "BLOCKED"),
   ErrorEnvelope("CONFIG_INVALID", "BLOCKED"), InternalError}

\* A thread of the pool takes the call.
Take(r) ==
  /\ call[r].at = "queued" /\ Cardinality(Running) < PoolSize
  /\ \/ \E code \in {"QUERY_PROFILE_DENIED", "OBJECT_NOT_ALLOWLISTED"} : Reply(r, Blocked(code))
     \/ call[r].tool = "orgs" /\ \E e \in Listings : Reply(r, e)
     \/ call[r].tool = "object" /\ To(r, "exclude")
     \/ call[r].tool \in {"identity", "query"} /\ To(r, "get")
  /\ UNCHANGED <<Outside, server>>

\* One raw describe at a time.
Exclude(r) ==
  /\ call[r].at = "exclude" /\ server.describing = None
  /\ server' = [server EXCEPT !.describing = r]
  /\ To(r, "get")
  /\ UNCHANGED Outside

\* get_json.
Get(r) ==
  /\ call[r].at = "get"
  /\ IF server.closed THEN Fail(r, "IDENTITY_ORG_ID_MISMATCH", "BLOCKED")
     ELSE /\ call' = [call EXCEPT ![r] = [@ EXCEPT !.at = "send", !.attempt = 1]]
          /\ UNCHANGED server
  /\ UNCHANGED Outside

Send(r) ==
  /\ call[r].at = "send"
  /\ call' = [call EXCEPT ![r] = [@ EXCEPT !.at = "dispatch", !.token = server.token]]
  /\ UNCHANGED <<Outside, server>>

\* _get reads the token anew.
Dispatch(r) ==
  /\ call[r].at = "dispatch"
  /\ call' = [call EXCEPT ![r] = [@ EXCEPT !.at = "wait", !.sent = server.token,
                                           !.unproven = call[r].unproven \/ ~server.proven]]
  /\ UNCHANGED <<Outside, server>>

\* The last response, or one of several: the parts of a contract.  The pages
\* of a query, which are read the same way, are taken as one.
Answered(r) ==
  /\ call[r].at = "wait" /\ Valid(call[r].sent)
  /\ \E last \in BOOLEAN :
       /\ call[r].tool # "object" \/ call[r].gets + 1 = MaxGets => last
       /\ call' = [call EXCEPT ![r] =
                     [@ EXCEPT !.at = IF last THEN "read" ELSE "get", !.token = None,
                               !.sent = None, !.attempt = 0, !.gets = IF last THEN 0 ELSE call[r].gets + 1,
                               !.other = call[r].other \/ host # server.frozen]]
  /\ UNCHANGED <<Outside, server>>

\* A 401, once, leads to a refresh.
Rejected(r) ==
  /\ call[r].at = "wait" /\ ~Valid(call[r].sent)
  /\ IF call[r].attempt > 1 THEN Fail(r, "REST_UNAVAILABLE", "INCOMPLETE")
     ELSE /\ call' = [call EXCEPT ![r] = [@ EXCEPT !.at = "lock", !.sent = None]]
          /\ UNCHANGED server
  /\ UNCHANGED Outside

Replay(r) ==
  call' = [call EXCEPT ![r] = [@ EXCEPT !.at = "send", !.attempt = 2, !.token = None, !.sent = None]]

\* A dropped connection is retried once.
Dropped(r) ==
  /\ call[r].at = "wait"
  /\ IF call[r].attempt > 1 THEN Fail(r, "REST_UNAVAILABLE", "INCOMPLETE")
     ELSE Replay(r) /\ UNCHANGED server
  /\ UNCHANGED Outside

\* Timeouts, oversized and malformed payloads.
Failed(r) ==
  /\ call[r].at = "wait"
  /\ \E code \in {"REST_TIMEOUT", "REST_PAYLOAD_TOO_LARGE", "REST_NOT_FOUND",
                   "REST_SCHEMA_MISMATCH"} :
       Fail(r, code, "INCOMPLETE")
  /\ UNCHANGED Outside

\* review_org_identity compares, a truncated result is refused, a result that
\* holds credentials is blocked, one that is too large is incomplete, and one
\* nobody expected is an exception.  NOT_SANDBOX: the same org, of another kind.
Read(r) ==
  /\ call[r].at = "read"
  /\ \/ /\ call[r].tool = "identity" /\ call[r].other
        /\ Reply(r, ErrorEnvelope("IDENTITY_ORG_ID_MISMATCH", "BLOCKED"))
        /\ server' = [server EXCEPT !.closed = TRUE]
     \/ call[r].tool = "identity" /\ ~call[r].other /\ Fail(r, "NOT_SANDBOX", "BLOCKED")
     \/ ~(call[r].tool = "identity" /\ call[r].other) /\ Settle(r, Verified)
     \/ Settle(r, InternalError)
     \/ call[r].tool # "identity" /\ Fail(r, "RESULT_TRUNCATED", "INCOMPLETE")
     \/ call[r].tool = "object" /\ Settle(r, Blocked("SENSITIVE_OUTPUT_DETECTED"))
     \/ call[r].tool # "identity" /\ Fail(r, "CLI_OUTPUT_TOO_LARGE", "INCOMPLETE")
  /\ UNCHANGED Outside

-----------------------------------------------------------------------------
(* _refresh_token_and_reprove. *)

\* Faulty variant: every call that was rejected refreshes.
LockAlways(r) ==
  /\ call[r].at = "lock" /\ server.refreshing = None
  /\ To(r, "cli") /\ server' = [server EXCEPT !.refreshing = r]
  /\ UNCHANGED Outside

Lock(r) ==
  /\ call[r].at = "lock" /\ server.refreshing = None
  /\ IF server.closed THEN Fail(r, "IDENTITY_ORG_ID_MISMATCH", "BLOCKED")
     ELSE IF server.token # call[r].token THEN Replay(r) /\ UNCHANGED server
     ELSE To(r, "cli") /\ server' = [server EXCEPT !.refreshing = r]
  /\ UNCHANGED Outside

FailRefresh(r, e, closed) ==
  /\ Reply(r, e)
  /\ server' = [server EXCEPT !.refreshing = None, !.describing = Released(r),
                              !.closed = closed]

\* The new token is in use for everybody from here on.
NewToken(r) ==
  /\ call[r].at = "cli"
  /\ \/ /\ server' = [server EXCEPT !.token = <<login, session>>, !.proven = FALSE]
        /\ To(r, "prove")
     \/ \E code \in {"CLI_SCHEMA_MISMATCH", "CLI_UNAVAILABLE", "CLI_OUTPUT_TOO_LARGE"} :
          FailRefresh(r, ErrorEnvelope(code, "INCOMPLETE"), server.closed)
  /\ UNCHANGED Outside

Unproven ==
  {ErrorEnvelope("REST_UNAVAILABLE", "INCOMPLETE"),
   ErrorEnvelope("REST_SCHEMA_MISMATCH", "INCOMPLETE"), InternalError}

\* Faulty variant: any org that answers will do.
ProveAny(r) ==
  /\ call[r].at = "prove"
  /\ \/ /\ Valid(server.token)
        /\ Replay(r)
        /\ server' = [server EXCEPT !.refreshing = None, !.proven = TRUE]
     \/ \E e \in Unproven : FailRefresh(r, e, server.closed)
  /\ UNCHANGED Outside

\* The probe is answered by the org there is, or not as expected, which leaves
\* the new token in use and the session open.
Prove(r) ==
  /\ call[r].at = "prove"
  /\ \/ /\ Valid(server.token) /\ host = server.frozen
        /\ Replay(r)
        /\ server' = [server EXCEPT !.refreshing = None, !.proven = TRUE]
     \/ /\ Valid(server.token) /\ host # server.frozen
        /\ FailRefresh(r, ErrorEnvelope("IDENTITY_ORG_ID_MISMATCH", "BLOCKED"), TRUE)
     \/ \E e \in Unproven : FailRefresh(r, e, server.closed)
  /\ UNCHANGED Outside

-----------------------------------------------------------------------------
(* Protocol. *)

Cancel(r) ==
  /\ server.at = "serving" /\ ~server.eof
  /\ call[r].at \notin {"none", "ended"} /\ r \notin server.cancelled
  /\ server' = [server EXCEPT !.cancelled = @ \cup {r}]
  /\ UNCHANGED <<Outside, call>>

\* The client closes its end, or sends a frame that cannot be read: either way
\* the pool is drained first.
Eof ==
  /\ server.at = "serving" /\ ~server.eof
  /\ server' = [server EXCEPT !.eof = TRUE]
  /\ UNCHANGED <<Outside, call>>

Drained == \A r \in Requests : call[r].at \in {"none", "ended"}

Exit ==
  /\ server.at = "serving" /\ server.eof /\ Drained
  /\ Serve("exited")
  /\ UNCHANGED <<Outside, call>>

-----------------------------------------------------------------------------
(* Outside. *)

Event ==
  /\ server.at \notin {"launch", "down", "exited"} /\ events < MaxEvents
  /\ events' = events + 1
  /\ UNCHANGED <<config, server, call>>

\* A human authorizes the alias anew.
Login == Event /\ login' \in Orgs \ {login} /\ UNCHANGED <<host, session>>

\* Sessions end; the CLI gets a new one when it is asked for a token.
Expire == Event /\ session' = session + 1 /\ UNCHANGED <<host, login>>

\* The sandbox is refreshed: another org at the same URL.
Refresh == Event /\ host' \in Orgs \ {host} /\ session' = session + 1 /\ UNCHANGED login

\* What the threads do, and what the network and the CLI answer them: every
\* request has a timeout.
Work(r) ==
  \/ Take(r) \/ Exclude(r) \/ Get(r) \/ Send(r) \/ Dispatch(r)
  \/ Answered(r) \/ Rejected(r) \/ Dropped(r) \/ Failed(r)
  \/ Read(r) \/ Lock(r) \/ NewToken(r) \/ Prove(r)

Next ==
  \/ Launch \/ TakeToken \/ Display \/ Probe
  \/ \E r \in Requests : Work(r) \/ Cancel(r) \/ \E tool \in Tools : Submit(r, tool)
  \/ Eof \/ Exit
  \/ Login \/ Expire \/ Refresh

Spec == Init /\ [][Next]_vars /\ \A r \in Requests : WF_vars(Work(r))

-----------------------------------------------------------------------------
(* Properties. *)

\* Each lock has one holder, and no more calls run than there are threads.
TypeOK ==
  /\ server.token \in (Orgs \X Nat) \cup {None} /\ server.frozen \in Orgs \cup {None}
  /\ \A r \in Requests :
       /\ /\ call[r].tool = "object"
          /\ call[r].at \in {"get", "send", "dispatch", "wait", "lock", "cli", "prove", "read"}
          <=> server.describing = r
       /\ call[r].at \in {"cli", "prove"} <=> server.refreshing = r
       /\ call[r].attempt \in 0 .. 2 /\ call[r].gets \in 0 .. MaxGets
  /\ Cardinality(Running) <= PoolSize

\* The org that is frozen is the configured one and none that is denied; a
\* token that passed a proof is one of that org, whatever logins and refreshes
\* happened between token, display and probe, or at a refresh.
ProvenIsFrozen ==
  server.at \in {"serving", "exited"} =>
    /\ Pinned(config) => server.frozen = config.org
    /\ server.frozen \notin config.denied
    /\ server.proven => server.token[1] = server.frozen

\* Another org answers only a call that sent a request before the token in use
\* was proven, or after its proof failed.
OtherOnlyUnproven == \A r \in Requests : call[r].other => call[r].unproven

\* Once the identity was found to have changed, no later call brings data of
\* an org, whichever thread refreshes, retries or gives up.
ClosedForGood ==
  \A r \in Requests : call[r].late => call[r].answer # "data"

\* What comes back is of the configured org, except to calls that sent a
\* request with a token no proof had passed; no call that begins after a
\* mismatch was noticed brings data.  The token is replaced before its proof,
\* so the exception is real: a session may bring data of another org.
IdentityFrozen == ProvenIsFrozen /\ OtherOnlyUnproven /\ ClosedForGood

\* The CLI is asked for another token only when the one in use is dead: one
\* refresh serves all the calls that were rejected.
NoLiveTokenReplaced == \A r \in Requests : call[r].at = "cli" => ~Valid(server.token)

\* Whatever goes wrong on the way, the client accepts the envelope, except that
\* of a configuration that can no longer be read when orgs are listed, whose
\* codes its schema does not know, and an unexpected exception, which has none.
EnvelopesAccepted ==
  \A r \in Requests :
    call[r].answer \in {None, "data", "configuration", "error",
                        "CONFIG_MISSING", "CONFIG_INVALID", "INTERNAL_ERROR"}

\* Every call ends, whatever the other threads and the network do.
CallsEnd == \A r \in Requests : (call[r].at = "queued") ~> (call[r].at = "ended")
=============================================================================
