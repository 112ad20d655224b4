----------------------------- MODULE JobExecutor -----------------------------
(***************************************************************************)
(* The life of one native command: OperationSession.prepare assesses it    *)
(* (scripts/salesforce_operation_session.py), a job is frozen, and         *)
(* scripts/salesforce_job_executor.mjs, run by job-runner.mjs, carries the *)
(* job out against the org.  Logins, job caches and configuration change   *)
(* at any point; a request may fail, time out or take effect after the     *)
(* executor gave up; the runner may be terminated.                         *)
(*                                                                         *)
(* OperationSession models the dialogs and processes around this and the   *)
(* confirmation of deployments; here it is the data that counts.  A        *)
(* command that is no job ends here once it is assessed.                   *)
(***************************************************************************)
EXTENDS OperationPolicy

CONSTANTS
  Commands,    \* the commands that may be asked for
  Worlds,      \* configurations, logins and caches a machine may begin with
  MaxChanges,  \* bound: changes of logins and files during one command
  Servers,     \* the jobs that exist when it begins
  Error        \* the answer of a request that failed

Final == {"Succeeded", "SucceededPartial", "Failed", "Canceled"}
Finalizing == {"FinalizingDeploy", "FinalizingFailed"}
Statuses == Final \cup Finalizing \cup {"Pending", "InProgress", "Canceling", "Complete"}

\* The validation of a sandbox process is None.  An org says apart from the
\* status that it is done with a deployment.
ServerJobs ==
  [org : Orgs, status : Statuses, validation : BOOLEAN \cup {None}, done : BOOLEAN]

\* What logins, configuration, caches and commands name.  The alias that an
\* answer adds to the configuration is none of these names.
ASSUME JobAssumption ==
  /\ {DefaultWait, MaxWait} \subseteq Nat
  /\ None \notin Nat \cup Orgs \cup Names \cup Jobs
  /\ \A o \in Orgs : <<"native", o>> \notin Names \cup Orgs
  /\ \A w \in Worlds :
       /\ DOMAIN w = {"entries", "denied", "rows", "cache", "lineage", "target", "hub"}
       /\ IsFiniteSet(w.rows) /\ IsFiniteSet(w.entries)
       /\ \A r \in w.rows : /\ DOMAIN r = {"user", "aliases", "org"}
                            /\ {r.user} \cup r.aliases \subseteq Names /\ r.org \in Orgs
       /\ \A e \in w.entries : e.alias \in Names
       /\ \A j \in w.cache : j.id \in Jobs /\ j.target \in Names
       /\ w.target \cup w.hub \subseteq Names
  /\ \A c \in Commands :
       /\ DOMAIN c = {"family", "targets", "hubs", "id", "name", "latest", "wait", "async", "api"}
       /\ c.targets \cup c.hubs \subseteq Names /\ c.id \in Jobs \cup {None}
  /\ \A s \in Servers : s \in [Jobs -> {None} \cup ServerJobs]
  /\ None \notin ServerJobs

\* What logins, cached jobs and commands of every machine are like: a username
\* is the name of one login and neither an alias nor an Org ID, the cached
\* process of a sandbox names no transport of metadata, and the wait of a job
\* that names none is one that may be asked for.
Ordinary ==
  /\ DefaultWait \in 1 .. MaxWait /\ \A n \in Names : {n} # None
  /\ \A w \in Worlds :
       /\ \A r, s \in w.rows : /\ r.user = s.user => r = s
                               /\ r.user \notin s.aliases \cup {s.org}
       /\ IsFiniteSet(w.cache)
       /\ \A j \in w.cache : j.rest \in BOOLEAN /\ (j.family = "sandbox" => ~j.rest)
  /\ \A c \in Commands : IsFiniteSet(c.targets) /\ c.async \in BOOLEAN /\ c.latest \in BOOLEAN

VARIABLES
  world,    \* local state: see OperationPolicy!TargetNames
  answers,  \* the org that answers for each username's authorization
  server,   \* one of ServerJobs for each job, or None
  run,      \* the assessment and execution in progress
  flight,   \* the request the executor awaits or has given up
  hits,     \* history: the changes requested of the orgs
  changes   \* history: the number of changes of logins and files

vars == <<world, answers, server, run, flight, hits, changes>>

Users(w) == {r.user : r \in w.rows}

NoRun == [at |-> "idle", command |-> None, base |-> None, overlay |-> None, asked |-> {},
          job |-> None, execution |-> None, conn |-> None, id |-> None, left |-> 0,
          result |-> None]

Init ==
  /\ world \in Worlds
  /\ answers = [u \in Users(world) |-> Identity(u, world.rows)]
  /\ server \in Servers
  /\ run = NoRun /\ flight = None /\ hits = {} /\ changes = 0

Goto(at) == run' = [run EXCEPT !.at = at]
End(result) == run' = [run EXCEPT !.at = "done", !.result = result]
Refuse == End([exit |-> None])

-----------------------------------------------------------------------------
(* OperationSession.prepare.                                                *)

Bound == IF run.job = None THEN None ELSE {run.job.user}

\* validate_request, the kinds this tool takes, select_job or _choose_target.
\* Without a flag or a default the human selects one of the logins.
Begin(c) ==
  /\ run.at = "idle"
  /\ IF c.family \in {"unknown", "local", "delete sandbox", "delete scratch"} THEN Refuse
     ELSE IF IsJob(c) \/ IsResume(c)
       THEN LET job == Select(c, world.cache, world.rows) IN
            IF job = None THEN Refuse
            ELSE run' = [run EXCEPT !.at = "assess", !.base = world, !.overlay = world,
                                    !.job = job, !.command = [c EXCEPT !.targets = {job.user}]]
     ELSE LET flag == IF c.family = "hub" THEN c.hubs ELSE c.targets
              default == IF c.family = "hub" THEN world.hub ELSE world.target
              choice == IF default # {} THEN {User(n, world.rows) : n \in default}
                        ELSE Users(world)
              chosen(u) == IF c.family = "hub" THEN [c EXCEPT !.hubs = {u}]
                           ELSE [c EXCEPT !.targets = {u}]
          IN IF flag # {}
               THEN run' = [run EXCEPT !.at = "assess", !.base = world, !.overlay = world,
                                       !.command = c]
             ELSE IF \/ \E n \in default : Identity(n, world.rows) = None
                     \/ Cardinality({Identity(n, world.rows) : n \in default}) > 1
               THEN Refuse
             ELSE \E u \in choice :
                    run' = [run EXCEPT !.at = "assess", !.base = world, !.overlay = world,
                                       !.command = chosen(u)]
  /\ UNCHANGED <<world, answers, server, flight, hits, changes>>

\* _targets: every name the command gives must be an authenticated org, and
\* one login stands for each of them.
Given == run.command.targets \cup run.command.hubs

Touched == {Identity(n, run.base.rows) : n \in Given}

Login(o) ==
  User(CHOOSE n \in Given : Identity(n, run.base.rows) = o, run.base.rows)

Classified(o) == Classify(Login(o), run.overlay.entries, run.overlay.rows)

Freeze ==
  [targets |-> {[user |-> Login(o), org |-> o, env |-> Classified(o).env] : o \in Touched},
   job |-> run.job,
   bound |-> [wait |-> run.command.wait, async |-> run.command.async, api |-> run.command.api]]

\* The loop over policy.evaluate.  In the end every login is classified, and
\* what was read is read again.
Assess ==
  LET d == Evaluate(run.command, run.overlay, Bound) IN
  /\ run.at = "assess"
  /\ IF None \in Touched THEN Refuse
     ELSE IF d.status = "environment-required" /\ d.org \in Touched \ run.asked
       THEN run' = [run EXCEPT !.at = "dialog", !.asked = @ \cup {d.org}, !.id = d.org]
     ELSE IF \/ d.status # "allow" \/ world # run.base
             \/ \E o \in Touched : Classified(o).status # "resolved"
       THEN Refuse
     ELSE run' = [run EXCEPT !.at = IF run.job = None THEN "ready" ELSE "validate",
                             !.execution = Freeze, !.id = None]
  /\ UNCHANGED <<world, answers, server, flight, hits, changes>>

\* Faulty variant: the answer is only remembered.
WithAnswerForgotten(o, e) == run.overlay

\* The answer joins a copy of the configuration under an alias of its own.
WithAnswer(o, e) ==
  [run.overlay EXCEPT
     !.entries = @ \cup {[alias |-> <<"native", o>>, pin |-> o, env |-> e]},
     !.rows = {IF r.org = o THEN [r EXCEPT !.aliases = @ \cup {<<"native", o>>}] ELSE r : r \in @}]

Answer ==
  /\ run.at = "dialog"
  /\ \/ Refuse
     \/ \E e \in Environments :
          run' = [run EXCEPT !.at = "assess", !.overlay = WithAnswer(run.id, e), !.id = None]
  /\ UNCHANGED <<world, answers, server, flight, hits, changes>>

-----------------------------------------------------------------------------
(* executeJob.                                                              *)

\* validateJobExecution.
Accepted(x) ==
  LET o == x.job.options  t == CHOOSE t \in x.targets : TRUE
      sandbox == x.job.family = "sandbox"
  IN /\ Cardinality(x.targets) = 1
     /\ t.env \in NonProduction /\ t.user = x.job.user /\ t.org = x.job.org
     /\ x.job.action \in (IF sandbox THEN {"resume sandbox"} ELSE JobActions)
     /\ o.wait \in 0 .. MaxWait
     /\ o.api # None => x.job.action = "quick"
     /\ o.async => x.job.action \in {"quick", "cancel"} /\ o.wait = 0
     /\ ~(sandbox /\ o.rest)
     /\ x.bound.async = o.async /\ x.bound.api = o.api
     /\ IF x.bound.wait = None
          THEN o.wait = IF o.async \/ sandbox \/ x.job.action = "report" THEN 0 ELSE DefaultWait
          ELSE o.wait = x.bound.wait /\ ~o.async /\ (sandbox \/ o.wait >= 1)

Start ==
  /\ run.at = "validate"
  /\ IF Accepted(run.execution)
       THEN run' = [run EXCEPT !.at = "auth", !.id = run.job.id]
       ELSE End([exit |-> 1])
  /\ UNCHANGED <<world, answers, server, flight, hits, changes>>

\* boundedRequest: one at a time, against a timer.
Requests == {"auth", "connect", "live", "org", "check", "mutate", "status", "resume"}

Active == run.at \in Requests \cup {"validate", "sleep"}

Send ==
  /\ run.at \in Requests /\ flight = None
  /\ flight' = [kind |-> run.at, org |-> run.conn, id |-> run.id, answer |-> None]
  /\ hits' = IF run.at \in {"mutate", "resume"}
             THEN hits \cup {[kind |-> run.job.action, org |-> run.conn, id |-> run.id]}
             ELSE hits
  /\ UNCHANGED <<world, answers, server, run, changes>>

\* A timeout aborts everything; the request is not taken back.
RequestTimer ==
  /\ run.at \in Requests /\ flight # None
  /\ End([exit |-> 1])
  /\ UNCHANGED <<world, answers, server, flight, hits, changes>>

\* SIGTERM: the runner exits at once.
Terminate ==
  /\ Active
  /\ End([exit |-> 2])
  /\ UNCHANGED <<world, answers, server, flight, hits, changes>>

Receive(next) ==
  /\ run.at \in Requests /\ flight # None /\ flight.answer # None
  /\ flight' = None
  /\ IF flight.answer = Error THEN End([exit |-> 1]) ELSE next
  /\ UNCHANGED <<world, answers, server, hits, changes>>

\* The authorization file of the exact username names the assessed org.
ReceiveAuth ==
  run.at = "auth" /\ Receive(
    IF flight.answer.claims = run.job.org
      THEN run' = [run EXCEPT !.at = "connect", !.conn = flight.answer.answers]
      ELSE End([exit |-> 1]))

ReceiveConnection == run.at = "connect" /\ Receive(Goto("live"))

Polling == run' = [run EXCEPT !.at = "status", !.left = run.job.options.wait]

\* Faulty variant: what the authorization file says is enough.
FirstOfFile ==
  IF run.job.family = "sandbox" THEN Goto("org")
  ELSE IF run.job.action = "quick" THEN Goto("check")
  ELSE IF run.job.action = "cancel" THEN Goto("mutate")
  ELSE Polling

\* What follows the proof of the live identity.
First ==
  IF flight.answer # run.job.org THEN End([exit |-> 1])
  ELSE IF run.job.family = "sandbox" THEN Goto("org")
  ELSE IF run.job.action = "quick" THEN Goto("check")
  ELSE IF run.job.action = "cancel" THEN Goto("mutate")
  ELSE Polling

ReceiveLive == run.at = "live" /\ Receive(First)

\* A quick deploy starts from a successful, completed validation.
ReceiveCheck ==
  run.at = "check" /\ Receive(
    IF flight.answer.validation /\ flight.answer.status = "Succeeded" /\ flight.answer.done
      THEN Goto("mutate") ELSE End([exit |-> 1]))

\* An asynchronous job ends here; otherwise the deadline starts to run.
ReceiveMutation ==
  run.at = "mutate" /\ Receive(
    IF run.job.options.async
      THEN End([exit |-> 0, status |-> IF run.job.action = "quick" THEN "Pending" ELSE "Canceling"])
      ELSE run' = [run EXCEPT !.at = "status", !.left = run.job.options.wait,
                              !.id = flight.answer])

\* Faulty variant: an exit code of 0 for whatever the server finished.
FailedOnly(status, late) == late \/ status = "Failed"

\* The exit code executeJob derives.
Unsuccessful(status, late) ==
  \/ late \/ status \in {"Failed", "SucceededPartial"}
  \/ status = "Canceled" /\ run.job.action # "cancel"
  \/ status = "Succeeded" /\ run.job.action = "cancel"

Report(status, late) ==
  End([exit |-> IF Unsuccessful(status, late) THEN 1 ELSE 0, status |-> status])

\* Polling ends with a final status, or when the org says that it is done.
AfterStatus(status, done) ==
  IF status \notin Final /\ ~done /\ run.left > 0 THEN Goto("sleep")
  ELSE Report(status, status \notin Final /\ ~done /\ run.job.options.wait > 0)

ReceiveStatus ==
  run.at = "status" /\ Receive(AfterStatus(flight.answer.status, flight.answer.done))

ReceiveOrg ==
  run.at = "org" /\ Receive(run' = [run EXCEPT !.at = "resume", !.left = run.job.options.wait])

\* resumeSandbox takes one step: it fails because the sandbox or its login is
\* not complete, or returns a process, of whatever status.
ReceiveSandbox ==
  run.at = "resume" /\ Receive(
    IF flight.answer # "not complete" THEN End([exit |-> 0, status |-> flight.answer])
    ELSE IF run.left > 0 THEN Goto("sleep")
    ELSE End([exit |-> IF run.job.options.wait > 0 THEN 1 ELSE 0, status |-> "InProgress"]))

\* Faulty variant: the deadline is computed anew.
WakeTimeless ==
  /\ run.at = "sleep"
  /\ run' = [run EXCEPT !.at = IF run.job.family = "sandbox" THEN "resume" ELSE "status"]
  /\ UNCHANGED <<world, answers, server, flight, hits, changes>>

\* A sleep takes time, but no more than is left.
Wake ==
  /\ run.at = "sleep"
  /\ run' = [run EXCEPT !.at = IF run.job.family = "sandbox" THEN "resume" ELSE "status",
                        !.left = @ - 1]
  /\ UNCHANGED <<world, answers, server, flight, hits, changes>>

\* Requests take time as well.
Tick ==
  /\ run.at \in {"status", "resume"} /\ run.left > 0
  /\ run' = [run EXCEPT !.left = @ - 1]
  /\ UNCHANGED <<world, answers, server, flight, hits, changes>>

-----------------------------------------------------------------------------
(* The SDK and the orgs.                                                    *)

Serves(answer) ==
  /\ flight # None /\ flight.answer = None
  /\ flight' = [flight EXCEPT !.answer = answer]
  /\ UNCHANGED <<world, answers, run, hits, changes>>

\* A request may fail whatever it was.
RequestFails == Serves(Error) /\ UNCHANGED server

Exists == flight.id \in Jobs /\ server[flight.id] # None /\ server[flight.id].org = flight.org

ClaimOf(u) == (CHOOSE r \in world.rows : r.user = u).org

\* Nothing to change: the local authorization, the connection, a query.
ServeRead ==
  /\ flight # None /\ flight.kind \in {"auth", "connect", "live", "org", "check", "status"}
  /\ Serves(CASE flight.kind = "auth" ->
                   IF run.at = "auth"
                     THEN [claims |-> ClaimOf(run.job.user),
                           answers |-> answers[run.job.user]]
                     ELSE Error
              [] flight.kind = "live" -> flight.org
              [] flight.kind \in {"check", "status"} ->
                   IF Exists THEN server[flight.id] ELSE Error
              [] OTHER -> "done")
  /\ UNCHANGED server

ServeCancel ==
  /\ flight # None /\ flight.kind = "mutate" /\ run.job.action = "cancel"
  /\ Exists /\ server[flight.id].status \in {"Pending", "InProgress"}
  /\ Serves(flight.id)
  /\ server' = [server EXCEPT ![flight.id] = [@ EXCEPT !.status = "Canceling"]]

ServeQuick ==
  /\ flight # None /\ flight.kind = "mutate" /\ run.job.action = "quick"
  /\ Exists /\ server[flight.id].validation
  /\ \E j \in Jobs :
       /\ server[j] = None
       /\ Serves(j)
       /\ server' = [server EXCEPT ![j] = [org |-> flight.org, status |-> "Pending",
                                           validation |-> FALSE, done |-> FALSE]]

\* Creates the local authorization of a finished sandbox.
ServeResume ==
  /\ flight # None /\ flight.kind = "resume" /\ Exists
  /\ \/ Serves("not complete")
     \/ Serves(server[flight.id].status)
  /\ UNCHANGED server

\* A sandbox process completes; a deployment goes on, or is done.
Becomes(status) ==
  CASE status = "Pending" -> {"InProgress"}
    [] status = "InProgress" -> Finalizing \cup (Final \ {"Canceled"})
    [] status \in Finalizing -> Final \ {"Canceled"}
    [] status = "Canceling" -> {"Canceled", "Succeeded"}
    [] OTHER -> {}

Progress(j) ==
  /\ Active /\ j = run.id /\ server[j] # None   \* nobody looks otherwise
  /\ ~server[j].done
  /\ IF server[j].validation = None
     THEN /\ server[j].status = "Pending"
          /\ server' = [server EXCEPT ![j] = [@ EXCEPT !.status = "Complete"]]
     ELSE \E next \in Becomes(server[j].status) \cup {server[j].status}, done \in BOOLEAN :
            /\ done \/ next # server[j].status
            /\ server' = [server EXCEPT ![j] = [@ EXCEPT !.status = next, !.done = done]]
  /\ UNCHANGED <<world, answers, run, flight, hits, changes>>

\* A username is authorized anew, or its sandbox is refreshed under it.
LoginChanges(u) ==
  /\ run.at \in {"assess", "dialog"} \/ Active
  /\ changes < MaxChanges /\ changes' = changes + 1
  /\ \E o \in Orgs, claimed \in BOOLEAN :
       /\ answers' = [answers EXCEPT ![u] = o]
       /\ world' = IF claimed
                   THEN [world EXCEPT !.rows =
                           {IF r.user = u THEN [r EXCEPT !.org = o] ELSE r : r \in @}]
                   ELSE world
  /\ <<world, answers>>' # <<world, answers>>
  /\ UNCHANGED <<server, run, flight, hits>>

\* The CLI writes a cache, or somebody edits the configuration.
FilesChange ==
  /\ run.at \in {"assess", "dialog"}   \* nobody reads them otherwise
  /\ changes < MaxChanges /\ changes' = changes + 1
  /\ \E w \in Worlds : world' \in {[world EXCEPT !.cache = w.cache],
                                   [world EXCEPT !.entries = w.entries]}
  /\ world' # world
  /\ UNCHANGED <<answers, server, run, flight, hits>>

Executor ==
  \/ Start \/ Send \/ RequestTimer
  \/ ReceiveAuth \/ ReceiveConnection \/ ReceiveLive \/ ReceiveCheck \/ ReceiveMutation
  \/ ReceiveStatus \/ ReceiveOrg \/ ReceiveSandbox \/ Wake

Next ==
  \/ \E c \in Commands : Begin(c)
  \/ Assess \/ Answer \/ Executor \/ Terminate \/ Tick
  \/ RequestFails \/ ServeRead \/ ServeCancel \/ ServeQuick \/ ServeResume
  \/ \E j \in Jobs : Progress(j)
  \/ \E u \in Users(world) : LoginChanges(u)
  \/ FilesChange

\* The process runs, its timers fire; nothing is asked of orgs and humans.
Fairness == WF_vars(Executor)

Spec == Init /\ [][Next]_vars /\ Fairness

-----------------------------------------------------------------------------
(* Properties.                                                              *)

TypeOK ==
  /\ \A j \in Jobs : server[j] # None => server[j].org \in Orgs /\ server[j].status \in Statuses
  /\ run.left \in 0 .. MaxWait
  /\ run.asked \subseteq Orgs /\ run.conn \in Orgs \cup {None}
  /\ \A h \in hits : h.org \in Orgs /\ h.id \in Jobs

\* Whatever select_job and prepare freeze, written in Python, passes
\* validateJobExecution, written in JavaScript: no job is refused after the
\* human has answered.
SelectionAccepted == run.at = "validate" => Accepted(run.execution)

\* An org that some entry of the configuration calls production, by its pin or
\* by the alias it is bound to, is not executed on but for a verified
\* retrieve, and no answer of a human changes the environment of an org that
\* has one.
ConfiguredEnvironmentHolds ==
  run.execution # None =>
    \A t \in run.execution.targets, e \in run.base.entries :
      t.org \in {e.pin, Identity(e.alias, run.base.rows)} =>
        /\ e.env \in DOMAIN Normal /\ t.env = Normal[e.env]
        /\ t.env = "prod" => run.command.family = "verified" /\ run.job = None

\* A human is asked about every org once: an answer settles its environment.
AnswersSettle ==
  run.at = "assess" =>
    LET d == Evaluate(run.command, run.overlay, Bound) IN
    d.status = "environment-required" => d.org \notin run.asked

\* Terminal policy and native selection are written twice.  A job by ID or name
\* that select_job accepts is judged in the terminal as it is natively.
TerminalJudgesAlike ==
  run.at = "idle" =>
    \A c \in Commands :
      LET job == Select(c, world.cache, world.rows)
          native == [c EXCEPT !.targets = {job.user}]
      IN (IsJob(c) \/ IsResume(c)) /\ ~c.latest /\ job # None =>
           Evaluate(c, world, None) = Evaluate(native, world, {job.user})

\* The three places that state the rules of a job, terminal policy, selection
\* and executor, agree.
SidesAgree == SelectionAccepted /\ TerminalJudgesAlike

\* A change is only requested of the org that was assessed, for the job that
\* was selected, however logins, caches and orgs changed since; and only a
\* validation is deployed.
HitsAsAssessed ==
  \A h \in hits :
    /\ h.org = run.job.org /\ h.id = run.job.id
    /\ h.kind # "quick" \/ server[h.id].validation

\* What the assessment settled still holds when the executor acts, after every
\* dialog, change of a file and change of a login.
AsAssessed == TypeOK /\ ConfiguredEnvironmentHolds /\ HitsAsAssessed

\* An exit code of 0 for a job that was waited for says what became of it:
\* deployed, or canceled if it was to be.  A job without a final status that
\* the org called done is reported as it was; the deadline alone, or what the
\* request before the last one said, never makes an exit code of 0.
ExitCodeTells ==
  LET wanted == IF run.job.action = "cancel" THEN "Canceled" ELSE "Succeeded" IN
  /\ run.at = "done" /\ run.result.exit = 0
  /\ run.job.family = "deploy" /\ run.job.options.wait > 0
  => \/ run.result.status = wanted /\ server[run.id].status = wanted
     \/ run.result.status \notin Final /\ server[run.id].done

\* Every execution ends although no org ever answers: requests have timers and
\* polling has a deadline.
ExecutionEnds == Active ~> (run.at = "done")
=============================================================================
