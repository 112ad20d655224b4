-------------------------- MODULE OperationSession --------------------------
(***************************************************************************)
(* The native Salesforce operation tool: the VS Code extension that owns   *)
(* invocations and dialogs (extension.cjs), the host side of one session   *)
(* (protocol.mjs runSession, host.mjs nativeOperation) and the Python      *)
(* worker that assesses the command (salesforce_operation_session.py).     *)
(*                                                                         *)
(* Host and worker exchange lines over two pipes.  A human answers dialogs *)
(* or cancels, timers fire, the worker may die or repeat a line, the       *)
(* workspace may lose its trust, and configuration and logins may change   *)
(* at any point.  Configuration and logins are versions that only grow: a  *)
(* file that changes and then returns to its old bytes is not modelled.    *)
(***************************************************************************)
EXTENDS Naturals, Sequences

CONSTANTS
  Calls,          \* tool invocations
  Targets,        \* authenticated orgs
  None,           \* no value
  ConfiguredEnv,  \* ConfiguredEnv[v][t]: the environment version v configures for t, or None
  MaxConfig,      \* bound: versions of config/harness.local.json
  MaxLogin,       \* bound: versions of an org's local authorization
  MaxLines,       \* bound: unread lines from the worker
  MaxChanges      \* bound: changes of configuration and logins; each
                  \* invocation after the first counts for so many of them

Environments == {"nonprod", "prod"}   \* dev, uat and stage are treated alike
Kinds == {"retrieve", "query", "deploy"}
Questions == {"selectOrg", "environment", "confirmDeploy"}

ASSUME SessionAssumption ==
  /\ {MaxConfig, MaxLogin, MaxLines, MaxChanges} \subseteq Nat
  /\ ConfiguredEnv \in [0 .. MaxConfig -> [Targets -> Environments \cup {None}]]
  /\ None \notin Targets \cup Environments \cup Questions \cup Calls

VARIABLES
  call,     \* outcome of each invocation
  active,   \* the invocation that holds the extension's `active` flag
  host,     \* runSession: where it is and what it has seen
  worker,   \* OperationSession.prepare: where it is and what it has decided
  up, down, \* lines from and to the worker
  trusted,  \* contextValid(): one trusted local workspace, unchanged
  config,   \* version of config/harness.local.json
  login,    \* version of the local authorization of each org
  changes,  \* the changes of configuration and logins, as far as they are bounded
  ran,      \* history: the command each invocation spawned, or None
  consent   \* history: the orgs a human confirmed a deployment to

vars == <<call, active, host, worker, up, down, trusted, config, login, changes, ran, consent>>

world == <<trusted, config, login, changes>>

\* An assessed command; what the host reads of the world; a dispatched command;
\* the lines of the worker.
Executions == [kind : Kinds, target : Targets, config : 0 .. MaxConfig, login : 0 .. MaxLogin]
Readings == [config : 0 .. MaxConfig, login : 0 .. MaxLogin]
Commands == [execution : Executions, seen : Readings]
Lines == [type : Questions, target : Targets \cup {None}] \cup [type : {"blocked"}]
           \cup [type : {"execute"}, execution : Executions]

ASSUME NoneAssumption == None \notin Readings \cup Commands \cup Lines

HostSteps == {"idle", "launch", "reading", "asking", "recheck", "identify", "settle", "dispatch",
              "executing"}
WorkerSteps == {"none", "input", "assess", "wait", "done", "exited", "crashed"}

Hosts ==
  [at : HostSteps, aborted : BOOLEAN, timer : BOOLEAN, prompts : SUBSET Questions,
   question : Lines \cup {None}, terminal : Lines \cup {None}, seen : Readings \cup {None}]

Workers ==
  [at : WorkerSteps, kind : Kinds \cup {None}, target : Targets \cup {None},
   env : Environments \cup {None}, confirmed : BOOLEAN, config : 0 .. MaxConfig,
   login : [Targets -> 0 .. MaxLogin], said : SUBSET Lines, repeated : BOOLEAN]

NoHost == [at |-> "idle", aborted |-> FALSE, timer |-> FALSE, prompts |-> {},
           question |-> None, terminal |-> None, seen |-> None]

NoWorker == [at |-> "none", kind |-> None, target |-> None, env |-> None, confirmed |-> FALSE,
             config |-> 0, login |-> [t \in Targets |-> 0], said |-> {}, repeated |-> FALSE]

Init ==
  /\ call = [c \in Calls |-> "new"]
  /\ active = None
  /\ host = NoHost /\ worker = NoWorker /\ up = <<>> /\ down = <<>>
  /\ trusted = TRUE /\ config = 0 /\ login = [t \in Targets |-> 0]
  /\ changes = 0
  /\ ran = [c \in Calls |-> None] /\ consent = [c \in Calls |-> {}]

-----------------------------------------------------------------------------
(* The extension: one invocation at a time.                                 *)

Free == active = None

Invoke(c) ==
  /\ call[c] = "new"
  /\ \/ /\ trusted /\ Free
        /\ call' = [call EXCEPT ![c] = "running"]
        /\ active' = c
        /\ host' = [NoHost EXCEPT !.at = "launch", !.timer = TRUE]
     \/ /\ ~(trusted /\ Free)
        /\ call' = [call EXCEPT ![c] = "refused"]
        /\ UNCHANGED <<active, host>>
  /\ changes' = IF \A d \in Calls : call[d] = "new" THEN changes ELSE changes + MaxChanges
  /\ changes' <= MaxChanges
  /\ UNCHANGED <<worker, up, down, trusted, config, login, ran, consent>>

\* Faulty variant: the flag is left set.
EndWithoutFlag(outcome) ==
  /\ call' = [call EXCEPT ![active] = outcome]
  /\ host' = NoHost /\ worker' = NoWorker /\ up' = <<>> /\ down' = <<>>
  /\ UNCHANGED <<active, world, ran, consent>>

\* runSession's finally, then invoke's: the worker is terminated, its pipes
\* are destroyed and the flag is cleared.
End(outcome) ==
  /\ call' = [call EXCEPT ![active] = outcome]
  /\ active' = None /\ host' = NoHost /\ worker' = NoWorker /\ up' = <<>> /\ down' = <<>>
  /\ UNCHANGED <<world, ran, consent>>

-----------------------------------------------------------------------------
(* The host session.                                                        *)

Goto(at) == host' = [host EXCEPT !.at = at]

\* Faulty variant: an open dialog is waited for whatever happens.
AbortPointsButDialogs == {"launch", "reading", "recheck", "identify", "settle"}

\* Where an abort is noticed before the dispatch: check(), the race in `ask`,
\* and the listener that closes the pipes and kills the worker.
AbortPoints == {"launch", "reading", "asking", "recheck", "identify", "settle"}

HostAborts == host.aborted /\ host.at \in AbortPoints /\ End("blocked")

\* Standard output has ended and every line of it was read.
Drained == up = <<>> /\ worker.at \in {"exited", "crashed"}

\* check() also finds that the workspace changed: after the launch, at a line,
\* at the end of the worker, before the dispatch.
HostDistrusts ==
  /\ ~trusted /\ ~host.aborted
  /\ \/ host.at \in {"launch", "settle"}
     \/ host.at = "reading" /\ (up # <<>> \/ Drained)
  /\ End("blocked")

\* The worker is spawned and given the arguments; a request may lack a target.
\* The packaged runtime or the interpreter may be unusable.
HostLaunches ==
  /\ host.at = "launch" /\ ~host.aborted /\ trusted
  /\ \/ /\ \E k \in Kinds, t \in Targets \cup {None} :
             worker' = [NoWorker EXCEPT !.at = "input", !.kind = k, !.target = t]
        /\ Goto("reading")
        /\ UNCHANGED <<call, active, up, down, world, ran, consent>>
     \/ End("blocked")

\* A line is accepted once: nothing follows a terminal line, no prompt repeats.
Expected(line) == host.terminal = None /\ line.type \notin host.prompts

HostReads ==
  /\ host.at = "reading" /\ ~host.aborted /\ trusted /\ up # <<>>
  /\ LET line == Head(up) IN
     \/ Expected(line) = FALSE /\ End("blocked")
     \/ /\ Expected(line) = TRUE
        /\ host' = IF line.type \in Questions
                   THEN [host EXCEPT !.at = "asking", !.question = line,
                                     !.prompts = @ \cup {line.type}]
                   ELSE [host EXCEPT !.terminal = line]
        /\ up' = Tail(up)
        /\ UNCHANGED <<call, active, worker, down, world, ran, consent>>

\* Faulty variant: an exit of any kind will do.
AnyExit == TRUE

\* Exit code 0 and no signal.
CleanExit == worker.at = "exited"

Assessed == CleanExit /\ host.terminal # None /\ host.terminal.type = "execute"

\* Standard output ended: only one accepted terminal line and a clean exit
\* lead on.  An assessment that says "blocked" ends here as well.
HostCloses ==
  /\ host.at = "reading" /\ ~host.aborted /\ trusted /\ Drained
  /\ \/ /\ Assessed = TRUE
        /\ Goto("recheck")
        /\ UNCHANGED <<call, active, worker, up, down, world, ran, consent>>
     \/ Assessed = FALSE /\ End("blocked")

-----------------------------------------------------------------------------
(* Dialogs: the human answers, dismisses or cancels; the timer fires.        *)

Answer(value) ==
  /\ down' = Append(down, value)
  /\ host' = [host EXCEPT !.at = "reading", !.question = None]
  /\ UNCHANGED <<call, active, worker, up, world, ran>>

\* The race in `ask` is lost once aborted; check() follows the answer.
UserAnswers ==
  /\ host.at = "asking" /\ ~host.aborted
  /\ \/ /\ trusted /\ host.question.type = "selectOrg"
        /\ \E t \in Targets : Answer(t)
        /\ UNCHANGED consent
     \/ /\ trusted /\ host.question.type = "environment"
        /\ \E e \in Environments : Answer(e)
        /\ UNCHANGED consent
     \/ /\ trusted /\ host.question.type = "confirmDeploy"
        /\ Answer("yes")
        /\ consent' = [consent EXCEPT ![active] = @ \cup {host.question.target}]
     \/ End("blocked")   \* dismissed, or the workspace changed meanwhile

\* The cancellation token of the invocation.
UserCancels ==
  /\ active # None /\ ~host.aborted
  /\ host' = [host EXCEPT !.aborted = TRUE]
  /\ UNCHANGED <<call, active, worker, up, down, world, ran, consent>>

\* The session timer of five minutes.
TimerFires ==
  /\ host.timer /\ ~host.aborted
  /\ host' = [host EXCEPT !.aborted = TRUE]
  /\ UNCHANGED <<call, active, worker, up, down, world, ran, consent>>

-----------------------------------------------------------------------------
(* recheckExecution, then the only dispatch.                                *)

\* Faulty variant: the configuration is not compared again.
NotCompared == TRUE

ConfigUnchanged == config = host.terminal.execution.config

HostRechecksConfig ==
  /\ host.at = "recheck" /\ ~host.aborted
  /\ \/ ConfigUnchanged /\ Goto("identify")
        /\ UNCHANGED <<call, active, worker, up, down, world, ran, consent>>
     \/ ~ConfigUnchanged /\ End("blocked")

\* sf org list auth: the login of the target is the assessed one.  `seen`
\* remembers the state of the world at this point.
HostIdentifies ==
  LET exec == host.terminal.execution IN
  /\ host.at = "identify" /\ ~host.aborted
  /\ \/ /\ login[exec.target] = exec.login
        /\ host' = [host EXCEPT !.at = "settle",
                                !.seen = [config |-> config, login |-> login[exec.target]]]
        /\ UNCHANGED <<call, active, worker, up, down, world, ran, consent>>
     \/ End("blocked")   \* another login, or the listing failed

\* The second comparison of the configuration, the last check() and clearTimeout.
HostSettles ==
  /\ host.at = "settle" /\ ~host.aborted /\ trusted
  /\ \/ ConfigUnchanged /\ host' = [host EXCEPT !.at = "dispatch", !.timer = FALSE]
        /\ UNCHANGED <<call, active, worker, up, down, world, ran, consent>>
     \/ ~ConfigUnchanged /\ End("blocked")

\* What an error after the dispatch is reported as.
AfterDispatch == "failed"

\* runBounded refuses an aborted signal and an executable that does not start;
\* the error is marked as dispatched all the same.
HostSpawns ==
  /\ host.at = "dispatch"
  /\ \/ /\ ~host.aborted
        /\ ran' = [ran EXCEPT ![active] = [execution |-> host.terminal.execution,
                                           seen |-> host.seen]]
        /\ Goto("executing")
        /\ UNCHANGED <<call, active, worker, up, down, world, consent>>
     \/ End(AfterDispatch)

\* The command exits; or it is stopped by its own timer, by the output bound
\* or by an abort.
CommandExits == host.at = "executing" /\ ~host.aborted /\ \E r \in {"completed", "failed"} : End(r)

CommandStops == host.at = "executing" /\ End(AfterDispatch)

-----------------------------------------------------------------------------
(* The worker.                                                              *)

Says(line, at) ==
  /\ up' = Append(up, line)
  /\ worker' = [worker EXCEPT !.at = at, !.said = @ \cup {line}]
  /\ UNCHANGED <<call, active, host, world, ran, consent>>

EnvOf(v, t) == IF t = None THEN None ELSE ConfiguredEnv[v][t]

\* The request line arrives; inventory and configuration are loaded, and
\* compared again until they hold still.
WorkerLoads ==
  /\ worker.at = "input"
  /\ worker' = [worker EXCEPT !.at = "assess", !.config = config, !.login = login,
                              !.env = EnvOf(config, worker.target)]
  /\ UNCHANGED <<call, active, host, up, down, world, ran, consent>>

\* Faulty variant: the environment is only asked, never judged.
NeverDenied == FALSE

\* policy.evaluate: production permits nothing but a metadata retrieve.
Denied == worker.env = "prod" /\ worker.kind # "retrieve"

\* Faulty variant: a deployment is not confirmed.
UnconfirmedQuestion ==
  IF worker.target = None THEN "selectOrg"
  ELSE IF worker.env = None THEN "environment" ELSE None

\* The next dialog the assessment needs, or None.
Question ==
  IF worker.target = None THEN "selectOrg"
  ELSE IF worker.env = None THEN "environment"
  ELSE IF worker.kind = "deploy" /\ ~worker.confirmed THEN "confirmDeploy" ELSE None

WorkerAsks ==
  /\ worker.at = "assess" /\ ~Denied /\ Question # None
  /\ Says([type |-> Question, target |-> worker.target], "wait")
  /\ UNCHANGED down

\* An answer fills in what was asked for.
WorkerHears ==
  /\ worker.at = "wait" /\ down # <<>>
  /\ LET value == Head(down) IN
     worker' =
       IF worker.target = None
       THEN [worker EXCEPT !.at = "assess", !.target = value, !.env = EnvOf(worker.config, value)]
       ELSE IF worker.env = None
       THEN [worker EXCEPT !.at = "assess", !.env = value]
       ELSE [worker EXCEPT !.at = "assess", !.confirmed = TRUE]
  /\ down' = Tail(down)
  /\ UNCHANGED <<call, active, host, up, world, ran, consent>>

\* Inventory and state are read again and must be what they were.
WorkerEmits ==
  /\ worker.at = "assess" /\ ~Denied /\ Question = None
  /\ config = worker.config /\ login = worker.login
  /\ Says([type |-> "execute",
           execution |-> [kind |-> worker.kind, target |-> worker.target,
                          config |-> worker.config, login |-> worker.login[worker.target]]],
          "done")
  /\ UNCHANGED down

\* A denial, a change, a closed or silent host, an unusable inventory.
WorkerBlocks ==
  /\ worker.at \in {"input", "assess", "wait"}
  /\ Says([type |-> "blocked"], "done")
  /\ UNCHANGED down

\* A worker gone wrong: it says again what it said before.
WorkerRepeats ==
  /\ worker.at \in {"assess", "wait", "done"} /\ Len(up) < MaxLines
  /\ \E line \in worker.said : up' = Append(up, line)
  /\ worker' = [worker EXCEPT !.repeated = TRUE]
  /\ UNCHANGED <<call, active, host, down, world, ran, consent>>

WorkerExits ==
  /\ \/ worker.at = "done" /\ worker' = [worker EXCEPT !.at = "exited"]
     \/ worker.at \in {"input", "assess", "wait", "done"}
        /\ worker' = [worker EXCEPT !.at = "crashed"]
  /\ UNCHANGED <<call, active, host, up, down, world, ran, consent>>

-----------------------------------------------------------------------------
(* The surroundings.                                                        *)

Changes == changes < MaxChanges /\ changes' = changes + 1

TrustChanges ==
  /\ trusted' = ~trusted
  /\ UNCHANGED <<call, active, host, worker, up, down, config, login, changes, ran, consent>>

ConfigChanges ==
  /\ Changes
  /\ config < MaxConfig /\ config' = config + 1
  /\ UNCHANGED <<call, active, host, worker, up, down, trusted, login, ran, consent>>

LoginChanges(t) ==
  /\ Changes
  /\ login[t] < MaxLogin /\ login' = [login EXCEPT ![t] = @ + 1]
  /\ UNCHANGED <<call, active, host, worker, up, down, trusted, config, ran, consent>>

HostStep ==
  \/ HostAborts \/ HostDistrusts \/ HostLaunches \/ HostReads \/ HostCloses
  \/ HostRechecksConfig \/ HostIdentifies \/ HostSettles \/ HostSpawns

WorkerStep ==
  \/ WorkerLoads \/ WorkerAsks \/ WorkerHears \/ WorkerEmits
  \/ WorkerBlocks \/ WorkerRepeats \/ WorkerExits

Next ==
  \/ \E c \in Calls : Invoke(c)
  \/ HostStep \/ WorkerStep
  \/ UserAnswers \/ UserCancels \/ TimerFires
  \/ CommandExits \/ CommandStops
  \/ TrustChanges \/ ConfigChanges \/ \E t \in Targets : LoginChanges(t)

Spec == Init /\ [][Next]_vars

\* The host's event loop runs, the session timer fires, and runBounded's timer
\* stops a command.  Nothing is assumed of the worker, the human, the
\* command or the surroundings.
FairSpec == Spec /\ WF_vars(HostStep) /\ WF_vars(TimerFires) /\ WF_vars(CommandStops)

-----------------------------------------------------------------------------
(* Properties.                                                              *)

TypeOK ==
  /\ call \in [Calls -> {"new", "running", "refused", "blocked", "completed", "failed"}]
  /\ active \in Calls \cup {None} /\ (active = None) = (host.at = "idle")
  /\ host \in Hosts /\ worker \in Workers
  /\ up \in Seq(Lines)
  /\ down \in Seq(Targets \cup Environments \cup {"yes"})
  /\ trusted \in BOOLEAN /\ changes \in 0 .. MaxChanges
  /\ config \in 0 .. MaxConfig /\ login \in [Targets -> 0 .. MaxLogin]
  /\ ran \in [Calls -> Commands \cup {None}]
  /\ consent \in [Calls -> SUBSET Targets]

\* After the assessment there was one moment at which the configuration and the
\* login of the org were both the assessed ones, whatever changed while dialogs
\* were open or between the readings (recheckExecution).
RanAsAssessed ==
  \A c \in Calls : ran[c] # None =>
    LET e == ran[c].execution IN ran[c].seen = [config |-> e.config, login |-> e.login]

\* Nothing but a retrieve ever ran against an org that the configuration seen
\* at that moment calls production, whatever the human answered (evaluate,
\* recheckExecution).
ProductionOnlyRetrieved ==
  \A c \in Calls : ran[c] # None =>
    LET e == ran[c].execution IN
    ConfiguredEnv[ran[c].seen.config][e.target] = "prod" => e.kind = "retrieve"

\* A worker that repeated a line or did not exit cleanly leads to no command
\* (runSession waits for a clean end of input and accepts each line once).
FaultyWorkerRunsNothing ==
  [][ran' # ran => worker.at = "exited" /\ ~worker.repeated]_vars

\* Every invocation ends, though the worker hangs, the human never answers and
\* the command never returns (the timers of runSession and runBounded).
InvocationsEnd == \A c \in Calls : (call[c] = "running") ~> (call[c] # "running")

\* A dispatched command divides an invocation in two.
StageOf(c) ==
  IF call[c] = "new" THEN "idle"
  ELSE IF call[c] \in {"refused", "blocked"} THEN "blocked"
  ELSE IF call[c] \in {"completed", "failed"} THEN "ended"
  ELSE IF ran[c] = None THEN "assessing"
  ELSE IF ran[c].execution.kind = "deploy" THEN "deploying" ELSE "running"

OrgOf(c) == IF ran[c] = None THEN {} ELSE {ran[c].execution.target}

OneShot == INSTANCE OneShotOperation
  WITH stage <- [c \in Calls |-> StageOf(c)], org <- [c \in Calls |-> OrgOf(c)]

\* One command at most, for one invocation at a time, a deployment only after
\* its confirmation, and nothing at all where "blocked" is reported.
ImplementsOneShot == OneShot!Spec
=============================================================================
