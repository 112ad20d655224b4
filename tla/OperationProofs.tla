--------------------------- MODULE OperationProofs ---------------------------
(***************************************************************************)
(* Proofs about OperationSession for any number of invocations, orgs,      *)
(* versions of configuration and logins, and lines of the worker.          *)
(***************************************************************************)
EXTENDS OperationSession, TLAPS

-----------------------------------------------------------------------------
(* The inductive invariant. *)

\* One invocation holds the flag; without it there is neither host nor worker.
Sessions ==
  /\ \A c \in Calls : call[c] = "running" <=> c = active
  /\ \A c \in Calls : call[c] \in {"new", "refused", "blocked"} => ran[c] = None
  /\ active # None => (ran[active] # None <=> host.at = "executing")
  /\ host.at \in {"idle", "launch"} => worker = NoWorker /\ up = <<>> /\ down = <<>>
  /\ host.at = "idle" => host = NoHost
  /\ host.at = "launch" => host.prompts = {} /\ host.terminal = None
  /\ host.at \notin {"idle", "launch"} => worker.at # "none"

\* Every line that is not read yet, or was taken as a question or as the
\* terminal line, is one the worker said; what it said and the host did not
\* take is still to be read.
Heard ==
  /\ \A i \in 1 .. Len(up) : up[i] \in worker.said
  /\ host.terminal # None => host.terminal \in worker.said /\ host.terminal.type \notin Questions
  /\ host.at = "asking" => /\ host.question \in worker.said
                           /\ host.question.type \in Questions \cap host.prompts
  /\ \A line \in worker.said :
       \/ host.terminal # None \/ line.type \in host.prompts
       \/ \E i \in 1 .. Len(up) : up[i] = line

\* A repeated line is refused when it is read: the line before it, which it
\* repeats, or a terminal line comes first.
Doomed ==
  \E i \in 1 .. Len(up) :
    \/ host.terminal # None \/ up[i].type \in host.prompts
    \/ \E j \in 1 .. i - 1 : up[j].type = up[i].type \/ up[j].type \notin Questions

CleanWorker ==
  /\ host.at \in {"recheck", "identify", "settle", "dispatch", "executing"} =>
       /\ host.terminal # None /\ host.terminal.type = "execute"
       /\ worker.at = "exited" /\ ~worker.repeated
  /\ worker.repeated => Doomed

\* Question and answer: while the worker waits for the answer to a question,
\* the host asks no other, and the answer on its way is the one to it.
Dialogs ==
  /\ worker.at = "input" =>
       worker.said = {} /\ up = <<>> /\ down = <<>> /\ host.at = "reading" /\ ~worker.confirmed
  /\ worker.at = "assess" =>
       /\ down = <<>> /\ host.at # "asking"
       /\ \A line \in worker.said : line.type \in Questions => line.type \in host.prompts
  /\ worker.at = "wait" =>
       /\ Question # None
       /\ \A line \in worker.said : line.type \in Questions =>
            \/ line.type \in host.prompts
            \/ line.type = Question /\ line.target = worker.target
       /\ host.at = "asking" =>
            /\ down = <<>>
            /\ host.question.type = Question /\ host.question.target = worker.target
       /\ down # <<>> =>
            /\ Len(down) = 1 /\ host.at # "asking" /\ Question \in host.prompts
            /\ Question = "selectOrg" => down[1] \in Targets
            /\ Question = "environment" => down[1] \in Environments
            /\ Question = "confirmDeploy" => worker.target \in consent[active]
  /\ \A line \in worker.said : line.type = "confirmDeploy" => line.target \in Targets

\* What the worker decided: on the environment the configuration gives the
\* org, and on the consent a human gave in this invocation.
Permitted(e) == ConfiguredEnv[e.config][e.target] = "prod" => e.kind = "retrieve"

Judged ==
  /\ worker.at # "none" => worker.kind \in Kinds
  /\ worker.at \in {"assess", "wait"} /\ worker.target # None =>
       ConfiguredEnv[worker.config][worker.target] \in {None, worker.env}
  /\ worker.confirmed => worker.target \in consent[active]
  /\ \A line \in worker.said : line.type = "execute" =>
       /\ Permitted(line.execution)
       /\ line.execution.kind = "deploy" => line.execution.target \in consent[active]

\* The readings of the second check, between two equal versions.
Rechecked ==
  LET e == host.terminal.execution IN
  /\ host.at \in {"identify", "settle", "dispatch"} => e.config <= config
  /\ host.at = "settle" =>
       /\ host.seen \in Readings /\ host.seen.login = e.login
       /\ e.config <= host.seen.config /\ host.seen.config <= config
  /\ host.at = "dispatch" => host.seen = [config |-> e.config, login |-> e.login]

IInv ==
  /\ TypeOK /\ Sessions /\ Heard /\ CleanWorker /\ Dialogs /\ Judged /\ Rechecked
  /\ RanAsAssessed /\ ProductionOnlyRetrieved

LEMMA NoHostTyped ==
  /\ NoHost \in Hosts /\ NoWorker \in Workers
  /\ NoHost.at = "idle" /\ NoHost.prompts = {} /\ NoHost.terminal = None /\ ~NoHost.timer
  /\ NoWorker.at = "none" /\ NoWorker.said = {} /\ ~NoWorker.confirmed /\ ~NoWorker.repeated
<1>1. 0 \in 0 .. MaxConfig /\ [t \in Targets |-> 0] \in [Targets -> 0 .. MaxLogin]
  BY SessionAssumption
<1>2. NoHost \in Hosts
  BY Zenon DEF NoHost, Hosts, HostSteps
<1>3. NoWorker \in Workers
  BY <1>1, Zenon DEF NoWorker, Workers, WorkerSteps
<1> QED
  BY <1>2, <1>3 DEF NoHost, NoWorker

\* Nothing is left of a session that ended, or of none.
LEMMA NothingOpen ==
  ASSUME host = NoHost, worker = NoWorker, up = <<>>, down = <<>>
  PROVE  Heard /\ CleanWorker /\ Dialogs /\ Judged /\ Rechecked
<1>1. Heard /\ CleanWorker /\ Rechecked
  BY NoHostTyped DEF Heard, CleanWorker, Rechecked
<1>2. Dialogs /\ Judged
  BY NoHostTyped DEF Dialogs, Judged
<1> QED
  BY <1>1, <1>2

LEMMA InitSafe == Init => IInv
<1> SUFFICES ASSUME Init PROVE IInv
  OBVIOUS
<1> USE DEF Init
<1>1. TypeOK
  BY NoHostTyped, SessionAssumption DEF TypeOK
<1>2. Sessions
  BY NoHostTyped, SessionAssumption DEF Sessions
<1>3. RanAsAssessed /\ ProductionOnlyRetrieved
  BY DEF RanAsAssessed, ProductionOnlyRetrieved
<1> QED
  BY <1>1, <1>2, <1>3, NothingOpen DEF IInv

\* The end of a session, however it ends.
LEMMA EndSafe ==
  ASSUME IInv, active # None, NEW outcome \in {"blocked", "completed", "failed"}, End(outcome),
         host.at = "executing" => outcome # "blocked"
  PROVE  IInv'
<1> USE SessionAssumption
<1>1. /\ call' = [call EXCEPT ![active] = outcome] /\ active' = None
      /\ host' = NoHost /\ worker' = NoWorker /\ up' = <<>> /\ down' = <<>>
      /\ UNCHANGED <<trusted, config, login, changes, ran, consent>>
  BY DEF End, world
<1>2. active \in Calls
  BY DEF IInv, TypeOK
<1>3. TypeOK'
  BY <1>1, NoHostTyped DEF IInv, TypeOK
<1>4. Sessions'
  BY <1>1, <1>2, NoHostTyped DEF IInv, TypeOK, Sessions
<1>5. (RanAsAssessed /\ ProductionOnlyRetrieved)'
  BY <1>1 DEF IInv, RanAsAssessed, ProductionOnlyRetrieved
<1>6. (Heard /\ CleanWorker /\ Dialogs /\ Judged /\ Rechecked)'
  <2>1. (Heard /\ CleanWorker /\ Rechecked)'
    BY <1>1, NoHostTyped DEF Heard, CleanWorker, Rechecked
  <2>2. (Dialogs /\ Judged)'
    BY <1>1, NoHostTyped DEF Dialogs, Judged
  <2> QED
    BY <2>1, <2>2
<1> QED
  BY <1>3, <1>4, <1>5, <1>6 DEF IInv

LEMMA InvokeSafe ==
  ASSUME IInv, NEW c \in Calls, Invoke(c)
  PROVE  IInv'
<1> USE SessionAssumption
<1>1. /\ call[c] = "new" /\ changes' \in 0 .. MaxChanges
      /\ UNCHANGED <<worker, up, down, trusted, config, login, ran, consent>>
  BY DEF Invoke, IInv, TypeOK
<1>2. (RanAsAssessed /\ ProductionOnlyRetrieved)'
  BY <1>1 DEF IInv, RanAsAssessed, ProductionOnlyRetrieved
<1>3. CASE /\ active = None /\ call' = [call EXCEPT ![c] = "running"] /\ active' = c
           /\ host' = [NoHost EXCEPT !.at = "launch", !.timer = TRUE]
  <2>1. host.at = "idle" /\ worker = NoWorker /\ up = <<>> /\ down = <<>>
    BY <1>3 DEF IInv, TypeOK, Sessions
  <2>2. host' \in Hosts
    BY <1>3, NoHostTyped, Zenon DEF Hosts, HostSteps
  <2>3. host'.at = "launch" /\ host'.prompts = {} /\ host'.terminal = None
    BY <1>3 DEF NoHost
  <2>4. TypeOK'
    BY <1>1, <1>3, <2>2, <2>3 DEF IInv, TypeOK
  <2>5. Sessions'
    BY <1>1, <1>3, <2>1, <2>3 DEF IInv, TypeOK, Sessions
  <2>6. (Heard /\ CleanWorker /\ Rechecked)'
    BY <1>1, <2>1, <2>3, NoHostTyped DEF Heard, CleanWorker, Rechecked
  <2>7. (Dialogs /\ Judged)'
    BY <1>1, <2>1, <2>3, NoHostTyped DEF Dialogs, Judged
  <2> QED
    BY <1>2, <2>4, <2>5, <2>6, <2>7 DEF IInv
<1>4. CASE call' = [call EXCEPT ![c] = "refused"] /\ UNCHANGED <<active, host>>
  <2>1. TypeOK'
    BY <1>1, <1>4 DEF IInv, TypeOK
  <2>2. Sessions'
    BY <1>1, <1>4 DEF IInv, TypeOK, Sessions
  <2>3. (Heard /\ CleanWorker)'
    BY <1>1, <1>4 DEF IInv, Heard, CleanWorker, Doomed
  <2>4. Dialogs'
    BY <1>1, <1>4 DEF IInv, Dialogs, Question
  <2>5. (Judged /\ Rechecked)'
    BY <1>1, <1>4 DEF IInv, Judged, Permitted, Rechecked
  <2> QED
    BY <1>2, <2>1, <2>2, <2>3, <2>4, <2>5 DEF IInv
<1> QED
  BY <1>3, <1>4 DEF Invoke, Free

\* A step of the host on its way to the dispatch, or one that aborts it.
LEMMA HostMoves ==
  ASSUME IInv, UNCHANGED <<call, active, worker, up, down, world, ran, consent>>,
         host' \in Hosts, host'.prompts = host.prompts, host'.terminal = host.terminal,
         host'.question = host.question, host.at # "idle",
         \/ host'.at = host.at
         \/ /\ host'.at \in {"recheck", "identify", "settle", "dispatch"}
            /\ host.at \notin {"launch", "executing"},
         host'.at \in {"recheck", "identify", "settle", "dispatch", "executing"} =>
           /\ host.terminal # None /\ host.terminal.type = "execute"
           /\ worker.at = "exited" /\ ~worker.repeated,
         Rechecked'
  PROVE  IInv'
<1> USE DEF world
<1>1. TypeOK'
  BY DEF IInv, TypeOK
<1>2. Sessions'
  BY DEF IInv, TypeOK, Sessions
<1>3. Heard'
  BY DEF IInv, Heard
<1>4. CleanWorker'
  BY DEF IInv, CleanWorker, Doomed
<1>5. Dialogs'
  <2>1. (worker.at = "assess" \/ worker.at = "input") => host'.at = host.at
    OBVIOUS
  <2> QED
    BY <2>1 DEF IInv, Dialogs, Question
<1>6. Judged'
  BY DEF IInv, Judged, Permitted
<1>7. (RanAsAssessed /\ ProductionOnlyRetrieved)'
  BY DEF IInv, RanAsAssessed, ProductionOnlyRetrieved
<1> QED
  BY <1>1, <1>2, <1>3, <1>4, <1>5, <1>6, <1>7 DEF IInv

LEMMA AbortSafe ==
  ASSUME IInv, UserCancels \/ TimerFires
  PROVE  IInv'
<1>1. /\ host' = [host EXCEPT !.aborted = TRUE]
      /\ UNCHANGED <<call, active, worker, up, down, world, ran, consent>>
  BY DEF UserCancels, TimerFires
<1>2. host \in Hosts
  BY DEF IInv, TypeOK
<1>3. host.at # "idle"
  BY NoHostTyped DEF IInv, TypeOK, Sessions, UserCancels, TimerFires
<1>4. host' \in Hosts
  BY <1>1, <1>2, Zenon DEF Hosts
<1>5. /\ host'.at = host.at /\ host'.prompts = host.prompts /\ host'.terminal = host.terminal
      /\ host'.question = host.question /\ host'.seen = host.seen
  BY <1>1, <1>2 DEF Hosts
<1>6. Rechecked'
  BY <1>1, <1>5 DEF IInv, Rechecked, world
<1>7. host'.at \in {"recheck", "identify", "settle", "dispatch", "executing"} =>
           /\ host.terminal # None /\ host.terminal.type = "execute"
           /\ worker.at = "exited" /\ ~worker.repeated
  BY <1>5 DEF IInv, CleanWorker
<1> QED
  BY <1>1, <1>3, <1>4, <1>5, <1>6, <1>7, HostMoves

LEMMA EarlyEndSafe ==
  ASSUME IInv, HostAborts \/ HostDistrusts
  PROVE  IInv'
<1>1. End("blocked") /\ host.at \notin {"idle", "executing"}
  BY DEF HostAborts, HostDistrusts, AbortPoints
<1>2. active # None
  BY <1>1 DEF IInv, TypeOK
<1> QED
  BY <1>1, <1>2, EndSafe

LEMMA LaunchSafe ==
  ASSUME IInv, HostLaunches
  PROVE  IInv'
<1> USE SessionAssumption
<1>1. host.at = "launch" /\ active # None /\ active \in Calls /\ host \in Hosts
  BY DEF HostLaunches, IInv, TypeOK
<1>2. CASE End("blocked")
  BY <1>1, <1>2, EndSafe
<1>3. ASSUME NEW k \in Kinds, NEW t \in Targets \cup {None},
             worker' = [NoWorker EXCEPT !.at = "input", !.kind = k, !.target = t],
             Goto("reading"), UNCHANGED <<call, active, up, down, world, ran, consent>>
      PROVE  IInv'
  <2>1. worker' \in Workers
    BY <1>3, NoHostTyped, Zenon DEF Workers, WorkerSteps
  <2>2. /\ worker'.at = "input" /\ worker'.kind = k /\ worker'.target = t /\ worker'.said = {}
        /\ ~worker'.confirmed /\ ~worker'.repeated
    BY <1>3, NoHostTyped DEF NoWorker
  <2>3. host' \in Hosts
    BY <1>1, <1>3, Zenon DEF Goto, Hosts, HostSteps
  <2>4. host'.at = "reading" /\ host'.prompts = host.prompts /\ host'.terminal = host.terminal
    BY <1>1, <1>3 DEF Goto, Hosts
  <2>5. up = <<>> /\ down = <<>> /\ host.prompts = {} /\ host.terminal = None
    BY <1>1 DEF IInv, Sessions
  <2>6. UNCHANGED <<call, active, up, down, trusted, config, login, changes, ran, consent>>
    BY <1>3 DEF world
  <2>7. TypeOK'
    BY <1>1, <2>1, <2>3, <2>4, <2>6 DEF IInv, TypeOK
  <2>8. Sessions'
    BY <1>1, <2>2, <2>4, <2>6 DEF IInv, Sessions
  <2>9. (Heard /\ CleanWorker /\ Rechecked)'
    BY <2>2, <2>4, <2>5, <2>6 DEF Heard, CleanWorker, Rechecked
  <2>10. (Dialogs /\ Judged)'
    BY <2>2, <2>4, <2>5, <2>6 DEF Dialogs, Judged
  <2>11. (RanAsAssessed /\ ProductionOnlyRetrieved)'
    BY <2>6 DEF IInv, RanAsAssessed, ProductionOnlyRetrieved
  <2> QED
    BY <2>7, <2>8, <2>9, <2>10, <2>11 DEF IInv
<1> QED
  BY <1>2, <1>3 DEF HostLaunches

LEMMA CheckSafe ==
  ASSUME IInv, HostCloses \/ HostRechecksConfig \/ HostIdentifies \/ HostSettles
  PROVE  IInv'
<1> USE SessionAssumption
<1>1. host.at \in {"reading", "recheck", "identify", "settle"} /\ host \in Hosts /\ active # None
  BY DEF IInv, TypeOK, HostCloses, HostRechecksConfig, HostIdentifies, HostSettles
<1>2. CASE End("blocked")
  BY <1>1, <1>2, EndSafe
<1>3. ASSUME NEW at \in {"recheck", "identify", "settle", "dispatch"}, NEW timer \in BOOLEAN,
             NEW seen \in Readings \cup {None},
             host' = [host EXCEPT !.at = at, !.timer = timer, !.seen = seen],
             UNCHANGED <<call, active, worker, up, down, world, ran, consent>>,
             host.terminal # None /\ host.terminal.type = "execute",
             worker.at = "exited" /\ ~worker.repeated,
             LET e == host.terminal.execution IN
             /\ at # "recheck" => e.config <= config
             /\ at = "settle" =>
                  /\ seen \in Readings /\ seen.login = e.login
                  /\ e.config <= seen.config /\ seen.config <= config
             /\ at = "dispatch" => seen = [config |-> e.config, login |-> e.login]
      PROVE  IInv'
  <2>1. host' \in Hosts
    BY <1>1, <1>3, Zenon DEF Hosts, HostSteps
  <2>2. /\ host'.at = at /\ host'.prompts = host.prompts /\ host'.terminal = host.terminal
        /\ host'.question = host.question /\ host'.seen = seen
    BY <1>1, <1>3 DEF Hosts
  <2>3. Rechecked'
    BY <1>3, <2>2 DEF Rechecked, world
  <2> QED
    BY <1>1, <1>3, <2>1, <2>2, <2>3, HostMoves
<1>4. host.timer \in BOOLEAN /\ host.seen \in Readings \cup {None}
  BY <1>1, Zenon DEF Hosts
<1>5. CASE /\ HostCloses /\ Assessed /\ Goto("recheck")
           /\ UNCHANGED <<call, active, worker, up, down, world, ran, consent>>
  <2>1. ~worker.repeated
    BY <1>5 DEF HostCloses, Drained, IInv, CleanWorker, Doomed
  <2>2. host' = [host EXCEPT !.at = "recheck", !.timer = host.timer, !.seen = host.seen]
    BY <1>1, <1>5 DEF Goto, Hosts
  <2> QED
    BY <1>3, <1>4, <1>5, <2>1, <2>2 DEF Assessed, CleanExit
<1>6. ASSUME HostRechecksConfig \/ HostIdentifies \/ HostSettles
      PROVE  /\ host.terminal # None /\ host.terminal.type = "execute"
             /\ worker.at = "exited" /\ ~worker.repeated
             /\ host.terminal.execution \in Executions
  <2>1. host.terminal # None /\ host.terminal.type = "execute" /\ host.terminal \in Lines
        /\ worker.at = "exited" /\ ~worker.repeated
    BY <1>1, <1>6 DEF IInv, CleanWorker, HostRechecksConfig, HostIdentifies, HostSettles, Hosts
  <2> QED
    BY <2>1 DEF Lines, Questions
<1>7. CASE /\ HostRechecksConfig /\ ConfigUnchanged /\ Goto("identify")
           /\ UNCHANGED <<call, active, worker, up, down, world, ran, consent>>
  <2>1. host' = [host EXCEPT !.at = "identify", !.timer = host.timer, !.seen = host.seen]
    BY <1>1, <1>7 DEF Goto, Hosts
  <2>2. host.terminal.execution.config <= config
    BY <1>6, <1>7 DEF ConfigUnchanged, Executions
  <2> QED
    BY <1>3, <1>4, <1>6, <1>7, <2>1, <2>2
<1>8. CASE /\ HostIdentifies /\ login[host.terminal.execution.target] = host.terminal.execution.login
           /\ host' = [host EXCEPT !.at = "settle",
                          !.seen = [config |-> config, login |-> login[host.terminal.execution.target]]]
           /\ UNCHANGED <<call, active, worker, up, down, world, ran, consent>>
  <2> DEFINE seen == [config |-> config, login |-> login[host.terminal.execution.target]]
  <2>1. host' = [host EXCEPT !.at = "settle", !.timer = host.timer, !.seen = seen]
    BY <1>1, <1>8 DEF Hosts
  <2>2. seen \in Readings
    BY <1>6, <1>8 DEF IInv, TypeOK, Readings, Executions
  <2>3. /\ seen.login = host.terminal.execution.login
        /\ host.terminal.execution.config <= seen.config /\ seen.config <= config
    BY <1>8 DEF HostIdentifies, IInv, TypeOK, Rechecked
  <2> HIDE DEF seen
  <2>4. PICK s \in Readings : s = seen
    BY <2>2
  <2>5. host' = [host EXCEPT !.at = "settle", !.timer = host.timer, !.seen = s]
    BY <2>1, <2>4
  <2>6. s.login = host.terminal.execution.login
        /\ host.terminal.execution.config <= s.config /\ s.config <= config
        /\ host.terminal.execution.config <= config
    BY <2>3, <2>4, <1>8 DEF HostIdentifies, IInv, Rechecked
  <2> QED
    BY <1>3, <1>4, <1>6, <1>8, <2>5, <2>6
<1>9. CASE /\ HostSettles /\ ConfigUnchanged
           /\ host' = [host EXCEPT !.at = "dispatch", !.timer = FALSE]
           /\ UNCHANGED <<call, active, worker, up, down, world, ran, consent>>
  <2>1. host' = [host EXCEPT !.at = "dispatch", !.timer = FALSE, !.seen = host.seen]
    BY <1>1, <1>9 DEF Hosts
  <2>2. /\ host.seen \in Readings /\ host.seen.login = host.terminal.execution.login
        /\ host.seen.config = host.terminal.execution.config
    BY <1>6, <1>9, SMTT(20) DEF HostSettles, ConfigUnchanged, IInv, TypeOK, Rechecked, Readings, Executions
  <2>3. host.seen = [config |-> host.terminal.execution.config,
                     login |-> host.terminal.execution.login]
    BY <2>2 DEF Readings
  <2>4. host.terminal.execution.config <= config
    BY <1>6, <1>9 DEF ConfigUnchanged, Executions
  <2> QED
    BY <1>3, <1>4, <1>6, <1>9, <2>1, <2>3, <2>4
<1> QED
  BY <1>2, <1>5, <1>7, <1>8, <1>9 DEF HostCloses, HostRechecksConfig, HostIdentifies, HostSettles

LEMMA SpawnSafe ==
  ASSUME IInv, HostSpawns
  PROVE  IInv'
<1> USE SessionAssumption
<1>1. host.at = "dispatch" /\ active # None /\ active \in Calls /\ host \in Hosts
  BY DEF HostSpawns, IInv, TypeOK
<1>2. CASE End(AfterDispatch)
  BY <1>1, <1>2, EndSafe DEF AfterDispatch
<1>3. CASE /\ ran' = [ran EXCEPT ![active] = [execution |-> host.terminal.execution,
                                              seen |-> host.seen]]
           /\ Goto("executing")
           /\ UNCHANGED <<call, active, worker, up, down, world, consent>>
  <2> DEFINE e == host.terminal.execution
             command == [execution |-> e, seen |-> host.seen]
  <2>1. UNCHANGED <<call, active, worker, up, down, trusted, config, login, changes, consent>>
    BY <1>3 DEF world
  <2>2. host' \in Hosts
    BY <1>1, <1>3, Zenon DEF Goto, Hosts, HostSteps
  <2>3. /\ host'.at = "executing" /\ host'.prompts = host.prompts
        /\ host'.terminal = host.terminal /\ host'.question = host.question
    BY <1>1, <1>3 DEF Goto, Hosts
  <2>4. /\ host.terminal # None /\ host.terminal.type = "execute" /\ host.terminal \in Lines
        /\ host.terminal \in worker.said /\ worker.at = "exited" /\ ~worker.repeated
    BY <1>1 DEF IInv, CleanWorker, Hosts, Heard
  <2>5. e \in Executions
    BY <2>4 DEF Lines, Questions
  <2>6. host.seen = [config |-> e.config, login |-> e.login] /\ host.seen \in Readings
    BY <1>1, <2>5 DEF IInv, Rechecked, Readings, Executions
  <2>7. command \in Commands /\ command # None
    BY <2>5, <2>6, NoneAssumption DEF Commands
  <2>8. Permitted(e)
    BY <2>4 DEF IInv, Judged
  <2>9. TypeOK'
    BY <1>1, <1>3, <2>1, <2>2, <2>3, <2>7 DEF IInv, TypeOK
  <2>10. Sessions'
    BY <1>1, <1>3, <2>1, <2>3, <2>7 DEF IInv, TypeOK, Sessions
  <2>11. (Heard /\ CleanWorker)'
    BY <1>1, <2>1, <2>3, <2>4 DEF IInv, Heard, CleanWorker
  <2>12. (Dialogs /\ Judged /\ Rechecked)'
    BY <2>1, <2>3, <2>4 DEF IInv, Dialogs, Judged, Permitted, Rechecked
  <2>13. ran'[active] = command /\ \A c \in Calls \ {active} : ran'[c] = ran[c]
    BY <1>1, <1>3 DEF IInv, TypeOK
  <2>14. (RanAsAssessed /\ ProductionOnlyRetrieved)'
    <3>1. command.execution = e /\ command.seen = [config |-> e.config, login |-> e.login]
      BY <2>6
    <3> HIDE DEF command, e
    <3>2. RanAsAssessed'
      BY <2>13, <3>1 DEF IInv, RanAsAssessed
    <3>3. ProductionOnlyRetrieved'
      BY <2>8, <2>13, <3>1 DEF IInv, ProductionOnlyRetrieved, Permitted
    <3> QED
      BY <3>2, <3>3
  <2> QED
    BY <2>9, <2>10, <2>11, <2>12, <2>14 DEF IInv
<1> QED
  BY <1>2, <1>3 DEF HostSpawns

LEMMA CommandSafe ==
  ASSUME IInv, CommandExits \/ CommandStops
  PROVE  IInv'
<1>1. host.at = "executing" /\ active # None
  BY DEF CommandExits, CommandStops, IInv, TypeOK
<1>2. End("completed") \/ End("failed")
  BY DEF CommandExits, CommandStops, AfterDispatch
<1> QED
  BY <1>1, <1>2, EndSafe

\* Reading a line of a queue in which a repeated one is doomed: it still is.
LEMMA DoomedRead ==
  ASSUME up \in Seq(Lines), up # <<>>, up' = Tail(up), Doomed, Expected(Head(up)),
         \/ /\ Head(up).type \in Questions /\ host'.prompts = host.prompts \cup {Head(up).type}
            /\ host'.terminal = host.terminal
         \/ /\ Head(up).type \notin Questions /\ host'.prompts = host.prompts
            /\ host'.terminal # None
  PROVE  Doomed'
<1>1. PICK i \in 1 .. Len(up) :
        \/ host.terminal # None \/ up[i].type \in host.prompts
        \/ \E j \in 1 .. i - 1 : up[j].type = up[i].type \/ up[j].type \notin Questions
  BY DEF Doomed
<1>2. /\ Len(up) \in Nat /\ Len(up') = Len(up) - 1 /\ Head(up) = up[1]
      /\ \A k \in 1 .. Len(up) - 1 : up'[k] = up[k + 1]
  OBVIOUS
<1>3. host.terminal = None /\ up[1].type \notin host.prompts
  BY <1>2 DEF Expected
<1>4. i > 1
  BY <1>1, <1>3
<1>5. i - 1 \in 1 .. Len(up') /\ up'[i - 1] = up[i]
  BY <1>2, <1>4
<1>6. CASE host'.terminal # None
  BY <1>5, <1>6 DEF Doomed
<1>7. CASE host'.prompts = host.prompts \cup {up[1].type}
  <2>1. CASE up[i].type \in host.prompts \/ up[1].type = up[i].type
    BY <1>5, <1>7, <2>1 DEF Doomed
  <2>2. CASE \E j \in 2 .. i - 1 : up[j].type = up[i].type \/ up[j].type \notin Questions
    <3>1. PICK j \in 2 .. i - 1 : up[j].type = up[i].type \/ up[j].type \notin Questions
      BY <2>2
    <3>2. j - 1 \in 1 .. (i - 1) - 1 /\ up'[j - 1] = up[j]
      BY <1>2, <3>1
    <3> QED
      BY <1>5, <3>1, <3>2 DEF Doomed
  <2>3. CASE up[1].type \notin Questions
    BY <1>2, <1>6, <2>3
  <2> QED
    BY <1>1, <1>3, <2>1, <2>2, <2>3
<1> QED
  BY <1>2, <1>6, <1>7

LEMMA ReadSafe ==
  ASSUME IInv, HostReads
  PROVE  IInv'
<1> USE SessionAssumption
<1> DEFINE line == Head(up)
<1>1. /\ host.at = "reading" /\ active # None /\ host \in Hosts
      /\ up \in Seq(Lines) /\ up # <<>>
  BY DEF HostReads, IInv, TypeOK
<1>2. /\ line \in Lines /\ line = up[1] /\ line \in worker.said
      /\ Len(up) \in Nat /\ Len(Tail(up)) = Len(up) - 1
      /\ \A k \in 1 .. Len(up) - 1 : Tail(up)[k] = up[k + 1]
  BY <1>1 DEF IInv, Heard
<1>3. CASE End("blocked")
  BY <1>1, <1>3, EndSafe
<1>4. ASSUME Expected(line), up' = Tail(up),
             UNCHANGED <<call, active, worker, down, world, ran, consent>>,
             host' = IF line.type \in Questions
                     THEN [host EXCEPT !.at = "asking", !.question = line,
                                       !.prompts = @ \cup {line.type}]
                     ELSE [host EXCEPT !.terminal = line]
      PROVE  IInv'
  <2>1. UNCHANGED <<call, active, worker, down, trusted, config, login, changes, ran, consent>>
    BY <1>4 DEF world
  <2>2. host.terminal = None /\ line.type \notin host.prompts
    BY <1>4 DEF Expected
  <2>3. line # None
    BY <1>2, NoneAssumption
  <2>4. host' \in Hosts
    <3>1. CASE line.type \in Questions
      <4>1. host.prompts \cup {line.type} \in SUBSET Questions
        BY <1>1, <3>1 DEF Hosts
      <4> QED
        BY <1>1, <1>2, <1>4, <3>1, <4>1, Zenon DEF Hosts, HostSteps
    <3>2. CASE line.type \notin Questions
      BY <1>1, <1>2, <1>4, <3>2, Zenon DEF Hosts
    <3> QED
      BY <3>1, <3>2
  <2>5. /\ line.type \in Questions =>
             /\ host'.at = "asking" /\ host'.question = line /\ host'.terminal = None
             /\ host'.prompts = host.prompts \cup {line.type}
        /\ line.type \notin Questions =>
             /\ host'.at = "reading" /\ host'.question = host.question /\ host'.terminal = line
             /\ host'.prompts = host.prompts
    BY <1>1, <1>4, <2>2 DEF Hosts
  <2> HIDE DEF line
  <2>6. TypeOK'
    BY <1>1, <1>4, <2>1, <2>4, <2>5 DEF IInv, TypeOK
  <2>7. Sessions'
    BY <1>1, <2>1, <2>5 DEF IInv, Sessions
  <2>8. Heard'
    <3>1. \A i \in 1 .. Len(up') : up'[i] \in worker'.said
      BY <1>2, <1>4, <2>1 DEF IInv, Heard
    <3>2. host'.terminal # None =>
            host'.terminal \in worker'.said /\ host'.terminal.type \notin Questions
      BY <1>2, <2>1, <2>5
    <3>3. host'.at = "asking" => /\ host'.question \in worker'.said
                                 /\ host'.question.type \in Questions \cap host'.prompts
      BY <1>2, <2>1, <2>5
    <3>4. ASSUME NEW l \in worker'.said
          PROVE  \/ host'.terminal # None \/ l.type \in host'.prompts
                 \/ \E i \in 1 .. Len(up') : up'[i] = l
      <4>1. CASE l = line
        BY <2>3, <2>5, <4>1
      <4>2. CASE l.type \in host.prompts
        BY <2>5, <4>2
      <4>3. CASE l # line /\ \E i \in 1 .. Len(up) : up[i] = l
        <5>1. PICK i \in 1 .. Len(up) : up[i] = l
          BY <4>3
        <5>2. i - 1 \in 1 .. Len(up') /\ up'[i - 1] = l
          BY <1>2, <1>4, <4>3, <5>1, SMTT(20)
        <5> QED
          BY <5>2
      <4> QED
        BY <2>1, <2>2, <4>1, <4>2, <4>3 DEF IInv, Heard
    <3> QED
      BY <3>1, <3>2, <3>3, <3>4 DEF Heard
  <2>9. CleanWorker'
    <3>1. worker.repeated => Doomed
      BY DEF IInv, CleanWorker
    <3>2. Doomed => Doomed'
      BY <1>1, <1>4, <2>3, <2>5, DoomedRead DEF line
    <3> QED
      BY <2>1, <2>5, <3>1, <3>2 DEF CleanWorker
  <2>10. Dialogs'
    <3>1. worker.at # "input"
      BY <1>1 DEF IInv, Dialogs
    <3>2. worker.at = "assess" => line.type \notin Questions
      BY <1>2, <2>2 DEF IInv, Dialogs
    <3>3. worker.at = "wait" /\ line.type \in Questions =>
            line.type = Question /\ line.target = worker.target /\ down = <<>>
      BY <1>2, <2>2 DEF IInv, Dialogs
    <3>4. Question' = Question
      BY <2>1 DEF Question
    <3>5. worker'.at = "assess" =>
            /\ down' = <<>> /\ host'.at # "asking"
            /\ \A l \in worker'.said : l.type \in Questions => l.type \in host'.prompts
      BY <2>1, <2>5, <3>2 DEF IInv, Dialogs
    <3>6. worker'.at = "wait" =>
            /\ Question' # None
            /\ \A l \in worker'.said : l.type \in Questions =>
                 \/ l.type \in host'.prompts
                 \/ l.type = Question' /\ l.target = worker'.target
      BY <2>1, <2>5, <3>4 DEF IInv, Dialogs
    <3>7. worker'.at = "wait" /\ host'.at = "asking" =>
            /\ down' = <<>>
            /\ host'.question.type = Question' /\ host'.question.target = worker'.target
      BY <2>1, <2>5, <3>3, <3>4
    <3>8. worker'.at = "wait" /\ down' # <<>> =>
            /\ Len(down') = 1 /\ host'.at # "asking" /\ Question' \in host'.prompts
            /\ Question' = "selectOrg" => down'[1] \in Targets
            /\ Question' = "environment" => down'[1] \in Environments
            /\ Question' = "confirmDeploy" => worker'.target \in consent'[active']
      BY <1>1, <2>1, <2>5, <3>3, <3>4 DEF IInv, Dialogs
    <3>9. \A l \in worker'.said : l.type = "confirmDeploy" => l.target \in Targets
      BY <2>1 DEF IInv, Dialogs
    <3> QED
      BY <2>1, <3>1, <3>5, <3>6, <3>7, <3>8, <3>9 DEF Dialogs
  <2>11. (Judged /\ Rechecked)'
    BY <1>1, <2>1, <2>5 DEF IInv, Judged, Permitted, Rechecked
  <2>12. (RanAsAssessed /\ ProductionOnlyRetrieved)'
    BY <2>1 DEF IInv, RanAsAssessed, ProductionOnlyRetrieved
  <2> QED
    BY <2>6, <2>7, <2>8, <2>9, <2>10, <2>11, <2>12 DEF IInv
<1> QED
  BY <1>3, <1>4 DEF HostReads

LEMMA AnswerSafe ==
  ASSUME IInv, UserAnswers
  PROVE  IInv'
<1> USE SessionAssumption
<1>1. /\ host.at = "asking" /\ active # None /\ active \in Calls /\ host \in Hosts
      /\ worker \in Workers
  BY DEF UserAnswers, IInv, TypeOK
<1>2. CASE End("blocked")
  BY <1>1, <1>2, EndSafe
<1>3. ASSUME NEW value \in Targets \cup Environments \cup {"yes"}, Answer(value),
             host.question.type = "selectOrg" => value \in Targets,
             host.question.type = "environment" => value \in Environments,
             consent' = [consent EXCEPT ![active] =
                           IF host.question.type = "confirmDeploy"
                           THEN @ \cup {host.question.target} ELSE @]
      PROVE  IInv'
  <2>1. /\ UNCHANGED <<call, active, worker, up, trusted, config, login, changes, ran>>
        /\ down' = Append(down, value)
        /\ host' = [host EXCEPT !.at = "reading", !.question = None]
    BY <1>3 DEF Answer, world
  <2>2. host' \in Hosts
    BY <1>1, <2>1, Zenon DEF Hosts, HostSteps
  <2>3. host'.at = "reading" /\ host'.prompts = host.prompts /\ host'.terminal = host.terminal
    BY <1>1, <2>1 DEF Hosts
  <2>4. /\ host.question \in worker.said /\ host.question.type \in Questions \cap host.prompts
        /\ host.question.type = "confirmDeploy" => host.question.target \in Targets
    BY <1>1 DEF IInv, Heard, Dialogs
  <2>5. /\ consent' \in [Calls -> SUBSET Targets]
        /\ \A c \in Calls : consent[c] \subseteq consent'[c]
        /\ host.question.type = "confirmDeploy" => host.question.target \in consent'[active]
    BY <1>1, <1>3, <2>4 DEF IInv, TypeOK
  <2>6. TypeOK'
    BY <1>1, <2>1, <2>2, <2>3, <2>5 DEF IInv, TypeOK
  <2>7. Sessions'
    BY <1>1, <2>1, <2>3 DEF IInv, Sessions
  <2>8. (Heard /\ CleanWorker /\ Rechecked)'
    BY <2>1, <2>3 DEF IInv, Heard, CleanWorker, Doomed, Rechecked
  <2>9. Dialogs'
    <3>1. Question' = Question
      BY <2>1 DEF Question
    <3>2. worker.at \notin {"input", "assess"}
      BY <1>1 DEF IInv, Dialogs
    <3>3. CASE worker.at = "wait"
      <4>1. /\ down = <<>> /\ host.question.type = Question /\ host.question.target = worker.target
        BY <1>1, <3>3 DEF IInv, Dialogs
      <4>2. Len(down') = 1 /\ down'[1] = value
        BY <2>1, <4>1
      <4> QED
        BY <1>3, <2>1, <2>3, <2>4, <2>5, <3>1, <3>3, <4>1, <4>2 DEF IInv, Dialogs
    <3>4. CASE worker.at # "wait"
      BY <2>1, <3>2, <3>4 DEF IInv, Dialogs
    <3> QED
      BY <3>3, <3>4
  <2>10. Judged'
    BY <1>1, <2>1, <2>5 DEF IInv, Judged, Permitted
  <2>11. (RanAsAssessed /\ ProductionOnlyRetrieved)'
    BY <2>1 DEF IInv, RanAsAssessed, ProductionOnlyRetrieved
  <2> QED
    BY <2>6, <2>7, <2>8, <2>9, <2>10, <2>11 DEF IInv
<1>4. CASE host.question.type = "selectOrg" /\ UNCHANGED consent /\ \E t \in Targets : Answer(t)
  <2>1. PICK t \in Targets : Answer(t)
    BY <1>4
  <2>2. consent' = [consent EXCEPT ![active] = @]
    BY <1>1, <1>4 DEF IInv, TypeOK
  <2> QED
    BY <1>3, <1>4, <2>1, <2>2
<1>5. CASE host.question.type = "environment" /\ UNCHANGED consent /\ \E e \in Environments : Answer(e)
  <2>1. PICK e \in Environments : Answer(e)
    BY <1>5
  <2>2. consent' = [consent EXCEPT ![active] = @]
    BY <1>1, <1>5 DEF IInv, TypeOK
  <2> QED
    BY <1>3, <1>5, <2>1, <2>2
<1>6. CASE /\ host.question.type = "confirmDeploy" /\ Answer("yes")
           /\ consent' = [consent EXCEPT ![active] = @ \cup {host.question.target}]
  BY <1>3, <1>6
<1> QED
  BY <1>2, <1>4, <1>5, <1>6 DEF UserAnswers

-----------------------------------------------------------------------------
(* The worker. *)

\* What a step of the worker leaves to the host.
LEMMA WorkerStepSafe ==
  ASSUME IInv, UNCHANGED <<call, active, host, world, ran, consent>>,
         worker.at \notin {"none", "exited", "crashed"}, worker'.at # "none"
  PROVE  /\ (Sessions /\ Rechecked /\ RanAsAssessed /\ ProductionOnlyRetrieved)'
         /\ host.at \in {"reading", "asking"}
         /\ TypeOK' <=> /\ worker' \in Workers /\ up' \in Seq(Lines)
                        /\ down' \in Seq(Targets \cup Environments \cup {"yes"})
<1> USE DEF world
<1>1. host.at \notin {"idle", "launch"}
  BY NoHostTyped DEF IInv, Sessions
<1>2. host.at \in {"reading", "asking"}
  BY <1>1 DEF IInv, CleanWorker, TypeOK, Hosts, HostSteps
<1>3. (Sessions /\ Rechecked)'
  BY <1>1 DEF IInv, Sessions, Rechecked
<1>4. (RanAsAssessed /\ ProductionOnlyRetrieved)'
  BY DEF IInv, RanAsAssessed, ProductionOnlyRetrieved
<1>5. TypeOK' <=> /\ worker' \in Workers /\ up' \in Seq(Lines)
                  /\ down' \in Seq(Targets \cup Environments \cup {"yes"})
  BY DEF IInv, TypeOK
<1> QED
  BY <1>2, <1>3, <1>4, <1>5

\* A line that is said, for the first time or again, after those not read yet.
LEMMA LineSafe ==
  ASSUME IInv, NEW line \in worker'.said, up' = Append(up, line), UNCHANGED host,
         worker.said \subseteq worker'.said, worker'.said \subseteq worker.said \cup {line},
         host.at \in {"reading", "asking"},
         worker'.repeated = worker.repeated \/ line \in worker.said
  PROVE  (Heard /\ CleanWorker)'
<1>1. up \in Seq(Lines)
  BY DEF IInv, TypeOK
<1>2. /\ Len(up) \in Nat /\ Len(up') = Len(up) + 1 /\ up'[Len(up) + 1] = line
      /\ \A i \in 1 .. Len(up) : up'[i] = up[i]
  BY <1>1
<1>3. Heard'
  <2>1. \A i \in 1 .. Len(up') : up'[i] \in worker'.said
    BY <1>2 DEF IInv, Heard
  <2>2. \A l \in worker'.said :
          \/ host'.terminal # None \/ l.type \in host'.prompts
          \/ \E i \in 1 .. Len(up') : up'[i] = l
    BY <1>2 DEF IInv, Heard
  <2> QED
    BY <2>1, <2>2 DEF IInv, Heard
<1>4. Doomed => Doomed'
  BY <1>2 DEF Doomed
<1>5. line \in worker.said => Doomed'
  <2> SUFFICES ASSUME line \in worker.said PROVE Doomed'
    OBVIOUS
  <2>1. Len(up) + 1 \in 1 .. Len(up')
    BY <1>2
  <2>2. CASE host.terminal # None \/ line.type \in host.prompts
    BY <1>2, <2>1, <2>2 DEF Doomed
  <2>3. CASE \E i \in 1 .. Len(up) : up[i] = line
    <3>1. PICK j \in 1 .. Len(up) : up[j] = line
      BY <2>3
    <3>2. j \in 1 .. (Len(up) + 1) - 1 /\ up'[j].type = up'[Len(up) + 1].type
      BY <1>2, <3>1
    <3> QED
      BY <2>1, <3>2 DEF Doomed
  <2> QED
    BY <2>2, <2>3 DEF IInv, Heard
<1> QED
  BY <1>3, <1>4, <1>5 DEF IInv, CleanWorker

LEMMA LoadSafe ==
  ASSUME IInv, WorkerLoads
  PROVE  IInv'
<1> USE SessionAssumption
<1>1. /\ worker.at = "input" /\ worker \in Workers
      /\ config \in 0 .. MaxConfig /\ login \in [Targets -> 0 .. MaxLogin]
      /\ worker' = [worker EXCEPT !.at = "assess", !.config = config, !.login = login,
                                  !.env = EnvOf(config, worker.target)]
      /\ UNCHANGED <<call, active, host, up, down, world, ran, consent>>
  BY DEF WorkerLoads, IInv, TypeOK
<1>2. EnvOf(config, worker.target) \in Environments \cup {None}
  BY <1>1 DEF EnvOf, Workers
<1>3. worker' \in Workers
  BY <1>1, <1>2, Zenon DEF Workers, WorkerSteps
<1>4. /\ worker'.at = "assess" /\ worker'.config = config /\ worker'.said = worker.said
      /\ worker'.env = EnvOf(config, worker.target) /\ worker'.target = worker.target
      /\ worker'.confirmed = worker.confirmed /\ worker'.kind = worker.kind
      /\ worker'.repeated = worker.repeated
  BY <1>1 DEF Workers
<1>5. /\ (Sessions /\ Rechecked /\ RanAsAssessed /\ ProductionOnlyRetrieved)' /\ TypeOK'
  BY <1>1, <1>3, <1>4, WorkerStepSafe DEF IInv, TypeOK
<1>6. worker.said = {} /\ up = <<>> /\ down = <<>> /\ host.at = "reading" /\ ~worker.confirmed
  BY <1>1 DEF IInv, Dialogs
<1>7. (Heard /\ CleanWorker)'
  BY <1>1, <1>4, <1>6 DEF IInv, Heard, CleanWorker, Doomed
<1>8. Dialogs'
  BY <1>1, <1>4, <1>6 DEF Dialogs
<1>9. Judged'
  BY <1>1, <1>4, <1>6 DEF IInv, Judged, EnvOf
<1> QED
  BY <1>5, <1>7, <1>8, <1>9 DEF IInv

\* What the worker says leaves the host what it reads next.
LEMMA SaysSafe ==
  ASSUME IInv, NEW line \in Lines, NEW at \in {"wait", "done"}, Says(line, at), UNCHANGED down,
         worker.at \in {"input", "assess", "wait"}
  PROVE  /\ (TypeOK /\ Sessions /\ Heard /\ CleanWorker /\ Rechecked /\ RanAsAssessed
               /\ ProductionOnlyRetrieved)'
         /\ worker'.at = at /\ worker'.said = worker.said \cup {line}
         /\ worker'.env = worker.env /\ worker'.target = worker.target
         /\ worker'.kind = worker.kind /\ worker'.confirmed = worker.confirmed
         /\ worker'.config = worker.config
<1>1. /\ up' = Append(up, line) /\ UNCHANGED <<call, active, host, world, ran, consent>>
      /\ worker' = [worker EXCEPT !.at = at, !.said = @ \cup {line}]
  BY DEF Says
<1>2. worker \in Workers /\ up \in Seq(Lines)
  BY DEF IInv, TypeOK
<1>3. worker' \in Workers
  <2>1. worker.said \cup {line} \in SUBSET Lines
    BY <1>2 DEF Workers
  <2> QED
    BY <1>1, <1>2, <2>1, Zenon DEF Workers, WorkerSteps
<1>4. /\ worker'.at = at /\ worker'.said = worker.said \cup {line}
      /\ worker'.env = worker.env /\ worker'.target = worker.target
      /\ worker'.kind = worker.kind /\ worker'.confirmed = worker.confirmed
      /\ worker'.config = worker.config /\ worker'.repeated = worker.repeated
  BY <1>1, <1>2 DEF Workers
<1>5. /\ (TypeOK /\ Sessions /\ Rechecked /\ RanAsAssessed /\ ProductionOnlyRetrieved)'
      /\ host.at \in {"reading", "asking"}
  BY <1>1, <1>2, <1>3, <1>4, WorkerStepSafe DEF IInv, TypeOK
<1>6. (Heard /\ CleanWorker)'
  BY <1>1, <1>4, <1>5, LineSafe
<1> QED
  BY <1>4, <1>5, <1>6

LEMMA AskSafe ==
  ASSUME IInv, WorkerAsks
  PROVE  IInv'
<1> USE SessionAssumption
<1> DEFINE line == [type |-> Question, target |-> worker.target]
<1>1. worker.at = "assess" /\ Question # None /\ Says(line, "wait") /\ UNCHANGED down
  BY DEF WorkerAsks
<1>2. worker \in Workers
  BY DEF IInv, TypeOK
<1>3. Question \in Questions /\ (Question = "confirmDeploy" => worker.target \in Targets)
  BY <1>1, <1>2 DEF Question, Questions, Workers
<1>4. line \in Lines
  BY <1>2, <1>3 DEF Lines, Workers
<1>5. line.type = Question /\ line.target = worker.target
  OBVIOUS
<1> HIDE DEF line
<1>6. /\ (TypeOK /\ Sessions /\ Heard /\ CleanWorker /\ Rechecked /\ RanAsAssessed
            /\ ProductionOnlyRetrieved)'
      /\ worker'.at = "wait" /\ worker'.said = worker.said \cup {line}
      /\ worker'.env = worker.env /\ worker'.target = worker.target
      /\ worker'.kind = worker.kind /\ worker'.confirmed = worker.confirmed
      /\ worker'.config = worker.config
  BY <1>1, <1>4, SaysSafe
<1>7. UNCHANGED <<host, consent, active, down>>
  BY <1>1 DEF Says
<1>8. Question' = Question
  BY <1>6 DEF Question
<1>9. Dialogs'
  BY <1>1, <1>3, <1>5, <1>6, <1>7, <1>8 DEF IInv, Dialogs
<1>10. Judged'
  BY <1>1, <1>3, <1>5, <1>6, <1>7 DEF IInv, Judged, Permitted, Questions
<1> QED
  BY <1>6, <1>9, <1>10 DEF IInv

LEMMA EmitSafe ==
  ASSUME IInv, WorkerEmits
  PROVE  IInv'
<1> USE SessionAssumption
<1> DEFINE e == [kind |-> worker.kind, target |-> worker.target, config |-> worker.config,
                 login |-> worker.login[worker.target]]
           line == [type |-> "execute", execution |-> e]
<1>1. worker.at = "assess" /\ ~Denied /\ Question = None /\ Says(line, "done") /\ UNCHANGED down
  BY DEF WorkerEmits
<1>2. worker \in Workers /\ worker.kind \in Kinds
  BY <1>1 DEF IInv, TypeOK, Judged
<1>3. worker.target \in Targets /\ (worker.kind = "deploy" => worker.confirmed)
  <2>1. None \notin {"selectOrg", "environment", "confirmDeploy"}
    BY DEF Questions
  <2>2. worker.target # None /\ ~(worker.kind = "deploy" /\ ~worker.confirmed)
    BY <1>1, <2>1, Zenon DEF Question
  <2> QED
    BY <1>2, <2>2 DEF Workers
<1>4. e \in Executions
  BY <1>2, <1>3 DEF Executions, Workers
<1>5. line \in Lines
  BY <1>4 DEF Lines
<1>6. Permitted(e)
  BY <1>1, <1>3, <1>2 DEF IInv, Judged, Permitted, Denied, Environments
<1>7. e.kind = "deploy" => e.target \in consent[active]
  BY <1>3 DEF IInv, Judged
<1>8. line.type = "execute" /\ line.execution = e
  OBVIOUS
<1> HIDE DEF e, line
<1>9. /\ (TypeOK /\ Sessions /\ Heard /\ CleanWorker /\ Rechecked /\ RanAsAssessed
            /\ ProductionOnlyRetrieved)'
      /\ worker'.at = "done" /\ worker'.said = worker.said \cup {line}
      /\ worker'.target = worker.target /\ worker'.kind = worker.kind
      /\ worker'.confirmed = worker.confirmed
  BY <1>1, <1>5, SaysSafe
<1>10. UNCHANGED <<host, consent, active, down>>
  BY <1>1 DEF Says
<1>11. Dialogs'
  BY <1>8, <1>9 DEF IInv, Dialogs
<1>12. Judged'
  BY <1>1, <1>2, <1>6, <1>7, <1>8, <1>9, <1>10 DEF IInv, Judged, Permitted
<1> QED
  BY <1>9, <1>11, <1>12 DEF IInv

LEMMA BlockSafe ==
  ASSUME IInv, WorkerBlocks
  PROVE  IInv'
<1> DEFINE line == [type |-> "blocked"]
<1>1. worker.at \in {"input", "assess", "wait"} /\ Says(line, "done") /\ UNCHANGED down
  BY DEF WorkerBlocks
<1>2. line \in Lines /\ line.type = "blocked"
  BY DEF Lines
<1> HIDE DEF line
<1>3. /\ (TypeOK /\ Sessions /\ Heard /\ CleanWorker /\ Rechecked /\ RanAsAssessed
            /\ ProductionOnlyRetrieved)'
      /\ worker'.at = "done" /\ worker'.said = worker.said \cup {line}
      /\ worker'.target = worker.target /\ worker'.kind = worker.kind
      /\ worker'.confirmed = worker.confirmed
  BY <1>1, <1>2, SaysSafe
<1>4. UNCHANGED <<host, consent, active, down>>
  BY <1>1 DEF Says
<1>5. Dialogs' /\ Judged'
  BY <1>1, <1>2, <1>3, <1>4 DEF IInv, Dialogs, Judged, Permitted
<1> QED
  BY <1>3, <1>5 DEF IInv

LEMMA RepeatSafe ==
  ASSUME IInv, WorkerRepeats
  PROVE  IInv'
<1>1. PICK line \in worker.said : up' = Append(up, line)
  BY DEF WorkerRepeats
<1>2. /\ worker.at \in {"assess", "wait", "done"} /\ worker' = [worker EXCEPT !.repeated = TRUE]
      /\ UNCHANGED <<call, active, host, down, world, ran, consent>>
  BY DEF WorkerRepeats
<1>3. worker \in Workers /\ up \in Seq(Lines)
  BY DEF IInv, TypeOK
<1>4. worker' \in Workers
  BY <1>2, <1>3, Zenon DEF Workers
<1>5. /\ worker'.at = worker.at /\ worker'.said = worker.said
      /\ worker'.env = worker.env /\ worker'.target = worker.target
      /\ worker'.kind = worker.kind /\ worker'.confirmed = worker.confirmed
      /\ worker'.config = worker.config
  BY <1>2, <1>3 DEF Workers
<1>6. up' \in Seq(Lines)
  BY <1>1, <1>3 DEF Workers
<1>7. /\ (TypeOK /\ Sessions /\ Rechecked /\ RanAsAssessed /\ ProductionOnlyRetrieved)'
      /\ host.at \in {"reading", "asking"}
  BY <1>2, <1>4, <1>5, <1>6, WorkerStepSafe DEF IInv, TypeOK
<1>8. (Heard /\ CleanWorker)'
  BY <1>1, <1>2, <1>5, <1>7, LineSafe
<1>9. Question' = Question
  BY <1>5 DEF Question
<1>10. Dialogs' /\ Judged'
  BY <1>2, <1>5, <1>9 DEF IInv, Dialogs, Judged, Permitted
<1> QED
  BY <1>7, <1>8, <1>10 DEF IInv

LEMMA ExitSafe ==
  ASSUME IInv, WorkerExits
  PROVE  IInv'
<1>1. PICK at \in {"exited", "crashed"} : worker' = [worker EXCEPT !.at = at]
  BY DEF WorkerExits
<1>2. /\ worker.at \in {"input", "assess", "wait", "done"}
      /\ UNCHANGED <<call, active, host, up, down, world, ran, consent>>
  BY DEF WorkerExits
<1>3. worker \in Workers
  BY DEF IInv, TypeOK
<1>4. worker' \in Workers
  BY <1>1, <1>3, Zenon DEF Workers, WorkerSteps
<1>5. /\ worker'.at = at /\ worker'.said = worker.said
      /\ worker'.target = worker.target /\ worker'.kind = worker.kind
      /\ worker'.confirmed = worker.confirmed /\ worker'.repeated = worker.repeated
  BY <1>1, <1>3 DEF Workers
<1>6. /\ (TypeOK /\ Sessions /\ Rechecked /\ RanAsAssessed /\ ProductionOnlyRetrieved)'
      /\ host.at \in {"reading", "asking"}
  BY <1>2, <1>4, <1>5, WorkerStepSafe DEF IInv, TypeOK
<1>7. (Heard /\ CleanWorker)'
  BY <1>2, <1>5, <1>6 DEF IInv, Heard, CleanWorker, Doomed
<1>8. Dialogs' /\ Judged'
  BY <1>2, <1>5 DEF IInv, Dialogs, Judged, Permitted
<1> QED
  BY <1>6, <1>7, <1>8 DEF IInv

\* The answer is the one to the question the worker asked last.
LEMMA HearSafe ==
  ASSUME IInv, WorkerHears
  PROVE  IInv'
<1> USE SessionAssumption
<1> DEFINE value == Head(down)
<1>1. /\ worker.at = "wait" /\ down # <<>> /\ down' = Tail(down)
      /\ UNCHANGED <<call, active, host, up, world, ran, consent>>
  BY DEF WorkerHears
<1>2. /\ worker \in Workers /\ down \in Seq(Targets \cup Environments \cup {"yes"})
      /\ up \in Seq(Lines)
  BY DEF IInv, TypeOK
<1>3. /\ Len(down) = 1 /\ host.at # "asking" /\ Question \in host.prompts /\ Question # None
      /\ Question = "selectOrg" => down[1] \in Targets
      /\ Question = "environment" => down[1] \in Environments
      /\ Question = "confirmDeploy" => worker.target \in consent[active]
      /\ \A line \in worker.said : line.type \in Questions => line.type \in host.prompts
  BY <1>1 DEF IInv, Dialogs
<1>4. value = down[1] /\ down' = <<>>
  BY <1>1, <1>2, <1>3
<1>5. \/ worker.target = None /\ value \in Targets
      \/ worker.target # None /\ worker.env = None /\ value \in Environments
      \/ /\ worker.target # None /\ worker.env # None
         /\ worker.target \in consent[active]
  BY <1>3, <1>4 DEF Question
<1>6. /\ worker' \in Workers /\ worker'.at = "assess" /\ worker'.said = worker.said
      /\ worker'.kind = worker.kind /\ worker'.config = worker.config
      /\ worker'.repeated = worker.repeated
      /\ \/ /\ worker.target = None /\ worker'.target \in Targets
            /\ worker'.env = EnvOf(worker.config, worker'.target)
            /\ worker'.confirmed = worker.confirmed
         \/ /\ worker.target # None /\ worker.env = None /\ worker'.target = worker.target
            /\ worker'.confirmed = worker.confirmed
         \/ /\ worker.target # None /\ worker.env # None
            /\ worker'.target = worker.target /\ worker'.env = worker.env
            /\ worker.target \in consent[active]
  <2>1. CASE worker.target = None /\ value \in Targets
    <3>1. worker' = [worker EXCEPT !.at = "assess", !.target = value,
                                   !.env = EnvOf(worker.config, value)]
      BY <2>1 DEF WorkerHears
    <3>2. EnvOf(worker.config, value) \in Environments \cup {None}
      BY <1>2, <2>1 DEF EnvOf, Workers
    <3>3. worker' \in Workers
      BY <1>2, <2>1, <3>1, <3>2, Zenon DEF Workers, WorkerSteps
    <3> QED
      BY <1>2, <2>1, <3>1, <3>3 DEF Workers
  <2>2. CASE worker.target # None /\ worker.env = None /\ value \in Environments
    <3>1. worker' = [worker EXCEPT !.at = "assess", !.env = value]
      BY <2>2 DEF WorkerHears
    <3>2. worker' \in Workers
      BY <1>2, <2>2, <3>1, Zenon DEF Workers, WorkerSteps
    <3> QED
      BY <1>2, <2>2, <3>1, <3>2 DEF Workers
  <2>3. CASE /\ worker.target # None /\ worker.env # None
             /\ worker.target \in consent[active]
    <3>1. worker' = [worker EXCEPT !.at = "assess", !.confirmed = TRUE]
      BY <2>3 DEF WorkerHears
    <3>2. worker' \in Workers
      BY <1>2, <2>3, <3>1, Zenon DEF Workers, WorkerSteps
    <3> QED
      BY <1>2, <2>3, <3>1, <3>2 DEF Workers
  <2> QED
    BY <1>5, <2>1, <2>2, <2>3
<1>7. /\ (TypeOK /\ Sessions /\ Rechecked /\ RanAsAssessed /\ ProductionOnlyRetrieved)'
      /\ host.at \in {"reading", "asking"}
  BY <1>1, <1>2, <1>4, <1>6, WorkerStepSafe DEF IInv, TypeOK
<1>8. (Heard /\ CleanWorker)'
  BY <1>1, <1>6, <1>7 DEF IInv, Heard, CleanWorker, Doomed
<1>9. Dialogs'
  BY <1>1, <1>3, <1>4, <1>6 DEF IInv, Dialogs
<1>10. Judged'
  <2>1. worker'.target # None =>
          ConfiguredEnv[worker'.config][worker'.target] \in {None, worker'.env}
    BY <1>1, <1>6 DEF IInv, Judged, EnvOf
  <2>2. worker'.confirmed => worker'.target \in consent[active]
    <3>1. consent[active] \subseteq Targets
      BY <1>7, NoHostTyped DEF IInv, TypeOK
    <3> QED
      BY <1>6, <3>1 DEF IInv, Judged
  <2> QED
    BY <1>1, <1>6, <2>1, <2>2 DEF IInv, Judged, Permitted
<1> QED
  BY <1>7, <1>8, <1>9, <1>10 DEF IInv

-----------------------------------------------------------------------------
(* The surroundings, and every step. *)

LEMMA WorldSafe ==
  ASSUME IInv, \/ TrustChanges \/ ConfigChanges \/ \E t \in Targets : LoginChanges(t)
               \/ UNCHANGED vars
  PROVE  IInv'
<1> USE SessionAssumption
<1>1. UNCHANGED <<call, active, host, worker, up, down, ran, consent>>
  BY DEF TrustChanges, ConfigChanges, LoginChanges, vars
<1>2. /\ trusted' \in BOOLEAN /\ changes' \in 0 .. MaxChanges /\ config' \in 0 .. MaxConfig
      /\ login' \in [Targets -> 0 .. MaxLogin] /\ config <= config'
  <2>1. CASE TrustChanges
    BY <2>1 DEF TrustChanges, IInv, TypeOK
  <2>2. CASE ConfigChanges
    BY <2>2 DEF ConfigChanges, Changes, IInv, TypeOK
  <2>3. CASE \E t \in Targets : LoginChanges(t)
    BY <2>3 DEF LoginChanges, Changes, IInv, TypeOK
  <2>4. CASE UNCHANGED vars
    BY <2>4 DEF vars, IInv, TypeOK
  <2> QED
    BY <2>1, <2>2, <2>3, <2>4
<1>3. TypeOK' /\ Sessions'
  BY <1>1, <1>2 DEF IInv, TypeOK, Sessions
<1>4. (Heard /\ CleanWorker)'
  BY <1>1 DEF IInv, Heard, CleanWorker, Doomed
<1>5. Dialogs'
  BY <1>1 DEF IInv, Dialogs, Question
<1>6. Judged'
  BY <1>1 DEF IInv, Judged, Permitted
<1>7. Rechecked'
  <2>1. host.at \in {"identify", "settle", "dispatch"} =>
          host.terminal.execution.config \in 0 .. MaxConfig
    <3> SUFFICES ASSUME host.at \in {"identify", "settle", "dispatch"}
                 PROVE  host.terminal.execution.config \in 0 .. MaxConfig
      OBVIOUS
    <3>1. host.terminal \in Lines /\ host.terminal.type = "execute"
      BY DEF IInv, CleanWorker, TypeOK, Hosts
    <3>2. host.terminal.execution \in Executions
      BY <3>1 DEF Lines, Questions
    <3> QED
      BY <3>2 DEF Executions
  <2>2. host.seen \in Readings => host.seen.config \in 0 .. MaxConfig
    BY DEF Readings
  <2> QED
    BY <1>1, <1>2, <2>1, <2>2, SMTT(20) DEF IInv, Rechecked, TypeOK
<1>8. (RanAsAssessed /\ ProductionOnlyRetrieved)'
  BY <1>1 DEF IInv, RanAsAssessed, ProductionOnlyRetrieved
<1> QED
  BY <1>3, <1>4, <1>5, <1>6, <1>7, <1>8 DEF IInv

LEMMA NextSafe == IInv /\ [Next]_vars => IInv'
<1> SUFFICES ASSUME IInv, [Next]_vars PROVE IInv'
  OBVIOUS
<1>1. CASE \E c \in Calls : Invoke(c)
  BY <1>1, InvokeSafe
<1>2. CASE HostStep
  <2>1. CASE HostAborts \/ HostDistrusts
    BY <2>1, EarlyEndSafe
  <2>2. CASE HostLaunches
    BY <2>2, LaunchSafe
  <2>3. CASE HostReads
    BY <2>3, ReadSafe
  <2>4. CASE HostCloses \/ HostRechecksConfig \/ HostIdentifies \/ HostSettles
    BY <2>4, CheckSafe
  <2>5. CASE HostSpawns
    BY <2>5, SpawnSafe
  <2> QED
    BY <1>2, <2>1, <2>2, <2>3, <2>4, <2>5 DEF HostStep
<1>3. CASE WorkerStep
  BY <1>3, LoadSafe, AskSafe, HearSafe, EmitSafe, BlockSafe, RepeatSafe, ExitSafe DEF WorkerStep
<1>4. CASE UserAnswers
  BY <1>4, AnswerSafe
<1>5. CASE UserCancels \/ TimerFires
  BY <1>5, AbortSafe
<1>6. CASE CommandExits \/ CommandStops
  BY <1>6, CommandSafe
<1>7. CASE TrustChanges \/ ConfigChanges \/ (\E t \in Targets : LoginChanges(t)) \/ UNCHANGED vars
  BY <1>7, WorldSafe
<1> QED
  BY <1>1, <1>2, <1>3, <1>4, <1>5, <1>6, <1>7 DEF Next

LEMMA Invariant == Spec => []IInv
BY InitSafe, NextSafe, PTL DEF Spec

-----------------------------------------------------------------------------
(* The safety properties. *)

\* Host, worker, lines and histories keep their types: among others, every
\* command that ran is an assessed one, of a known kind and for a known org.
THEOREM TypeCorrect == Spec => []TypeOK
<1>1. IInv => TypeOK
  BY DEF IInv
<1> QED
  BY <1>1, Invariant, PTL

\* recheckExecution: when a command ran, there was one moment after the
\* assessment at which configuration and login were both the assessed ones.
THEOREM RanWasAssessed == Spec => []RanAsAssessed
<1>1. IInv => RanAsAssessed
  BY DEF IInv
<1> QED
  BY <1>1, Invariant, PTL

\* evaluate and recheckExecution: nothing but a retrieve runs against an org
\* that the configuration of that moment calls production.
THEOREM ProductionIsKept == Spec => []ProductionOnlyRetrieved
<1>1. IInv => ProductionOnlyRetrieved
  BY DEF IInv
<1> QED
  BY <1>1, Invariant, PTL

\* runSession accepts each line once and waits for a clean exit: no command
\* runs after a worker that repeated a line, crashed or is still there.
THEOREM FaultyWorkersRunNothing == Spec => FaultyWorkerRunsNothing
<1>1. IInv /\ [Next]_vars => (ran' # ran => worker.at = "exited" /\ ~worker.repeated)
  <2> SUFFICES ASSUME IInv, [Next]_vars, ran' # ran
               PROVE  worker.at = "exited" /\ ~worker.repeated
    OBVIOUS
  <2>1. HostSpawns
    BY DEF Next, vars, Invoke, HostStep, WorkerStep, HostAborts, HostDistrusts, HostLaunches,
           HostReads, HostCloses, HostRechecksConfig, HostIdentifies, HostSettles, End,
           WorkerLoads, WorkerAsks, WorkerHears, WorkerEmits, WorkerBlocks, WorkerRepeats,
           WorkerExits, Says, UserAnswers, Answer, UserCancels, TimerFires, CommandExits,
           CommandStops, TrustChanges, ConfigChanges, LoginChanges
  <2> QED
    BY <2>1 DEF HostSpawns, IInv, CleanWorker
<1> QED
  BY <1>1, Invariant, PTL DEF Spec, FaultyWorkerRunsNothing

-----------------------------------------------------------------------------
(* The refinement of OneShotOperation. *)

Stages == [c \in Calls |-> StageOf(c)]

Orgs == [c \in Calls |-> OrgOf(c)]

\* A step that concerns one invocation moves that invocation's stage alone.
LEMMA OneMoves ==
  ASSUME NEW c \in Calls, NEW to, StageOf(c)' = to,
         \A d \in Calls \ {c} : call'[d] = call[d] /\ ran'[d] = ran[d]
  PROVE  Stages' = [Stages EXCEPT ![c] = to]
<1>1. \A d \in Calls \ {c} : StageOf(d)' = StageOf(d)
  BY DEF StageOf
<1>2. Stages' = [d \in Calls |-> StageOf(d)']
  BY DEF Stages
<1> QED
  BY <1>1, <1>2 DEF Stages

LEMMA OthersKeepOrgs ==
  ASSUME UNCHANGED ran
  PROVE  Orgs' = Orgs
BY DEF Orgs, OrgOf

\* A session that ends ends its invocation in the abstract tool as well.
LEMMA EndRefines ==
  ASSUME IInv, active # None, NEW outcome \in {"blocked", "completed", "failed"}, End(outcome),
         host.at = "executing" => outcome # "blocked",
         outcome = "completed" => host.at = "executing"
  PROVE  OneShot!Next
<1> USE SessionAssumption
<1>0. PICK c \in Calls : c = active
  BY DEF IInv, TypeOK
<1>1. /\ call[c] = "running" /\ call' = [call EXCEPT ![c] = outcome]
      /\ ran[c] # None <=> host.at = "executing"
      /\ UNCHANGED <<ran, consent>>
  BY <1>0 DEF IInv, TypeOK, Sessions, End
<1>2. call'[c] = outcome /\ \A d \in Calls \ {c} : call'[d] = call[d]
  BY <1>1 DEF IInv, TypeOK
<1>3. Orgs' = Orgs
  BY <1>1, OthersKeepOrgs
<1>4. CASE host.at # "executing"
  <2>1. Stages[c] = "assessing"
    BY <1>1, <1>4 DEF Stages, StageOf
  <2>2. StageOf(c)' = IF outcome = "blocked" THEN "blocked" ELSE "ended"
    BY <1>2, <1>4 DEF StageOf
  <2>3. Stages' = [Stages EXCEPT ![c] = IF outcome = "blocked" THEN "blocked" ELSE "ended"]
    BY <1>1, <1>2, <2>2, OneMoves, Zenon
  <2>4. OneShot!Block(c) \/ OneShot!Abandon(c)
    BY <1>1, <1>3, <2>1, <2>3
    DEF OneShot!Block, OneShot!Abandon, OneShot!Move, OneShot!Quiet, Stages, Orgs
  <2> QED
    BY <1>1, <2>4 DEF OneShot!Next
<1>5. CASE host.at = "executing"
  <2>1. Stages[c] \in {"running", "deploying"}
    BY <1>1, <1>5 DEF Stages, StageOf
  <2>2. StageOf(c)' = "ended"
    BY <1>2, <1>5 DEF StageOf
  <2>3. Stages' = [Stages EXCEPT ![c] = "ended"]
    BY <1>1, <1>2, <2>2, OneMoves
  <2>4. OneShot!End(c)
    BY <1>1, <1>3, <2>1, <2>3 DEF OneShot!End, OneShot!Move, OneShot!Quiet, Stages, Orgs
  <2> QED
    BY <1>1, <2>4 DEF OneShot!Next
<1> QED
  BY <1>4, <1>5

LEMMA InvokeRefines ==
  ASSUME IInv, NEW c \in Calls, Invoke(c)
  PROVE  OneShot!Next
<1> USE SessionAssumption
<1>1. call[c] = "new" /\ ran[c] = None /\ UNCHANGED <<ran, consent>>
  BY DEF Invoke, IInv, Sessions
<1>2. Orgs' = Orgs /\ Stages[c] = "idle"
  BY <1>1, OthersKeepOrgs DEF Stages, StageOf
<1>3. CASE active = None /\ call' = [call EXCEPT ![c] = "running"]
  <2>1. call'[c] = "running" /\ \A d \in Calls \ {c} : call'[d] = call[d]
    BY <1>3 DEF IInv, TypeOK
  <2>2. StageOf(c)' = "assessing"
    BY <1>1, <2>1 DEF StageOf
  <2>3. Stages' = [Stages EXCEPT ![c] = "assessing"]
    BY <1>1, <2>1, <2>2, OneMoves
  <2>4. \A d \in Calls : call[d] # "running"
    BY <1>3 DEF IInv, Sessions
  <2>5. \A d \in Calls : Stages[d] \in {"idle", "blocked", "ended"}
    BY <2>4 DEF Stages, StageOf, IInv, TypeOK
  <2>6. OneShot!Begin(c)
    BY <1>1, <1>2, <2>3, <2>5
    DEF OneShot!Begin, OneShot!Alone, OneShot!Ended, OneShot!Move, OneShot!Quiet, Stages, Orgs
  <2> QED
    BY <2>6 DEF OneShot!Next
<1>4. CASE call' = [call EXCEPT ![c] = "refused"]
  <2>1. call'[c] = "refused" /\ \A d \in Calls \ {c} : call'[d] = call[d]
    BY <1>4 DEF IInv, TypeOK
  <2>2. StageOf(c)' = "blocked"
    BY <2>1 DEF StageOf
  <2>3. Stages' = [Stages EXCEPT ![c] = "blocked"]
    BY <1>1, <2>1, <2>2, OneMoves
  <2>4. OneShot!Refuse(c)
    BY <1>1, <1>2, <2>3 DEF OneShot!Refuse, OneShot!Move, OneShot!Quiet, Stages, Orgs
  <2> QED
    BY <2>4 DEF OneShot!Next
<1> QED
  BY <1>3, <1>4 DEF Invoke, Free

\* A confirmed dialog is a consent to the org that the question named.
LEMMA AnswerRefines ==
  ASSUME IInv, UserAnswers
  PROVE  OneShot!Next \/ UNCHANGED <<Stages, consent, Orgs>>
<1> USE SessionAssumption
<1>1. /\ host.at = "asking" /\ active # None /\ active \in Calls /\ call[active] = "running"
      /\ ran[active] = None
  BY DEF UserAnswers, IInv, TypeOK, Sessions
<1>2. CASE End("blocked")
  BY <1>1, <1>2, EndRefines
<1>3. CASE /\ host.question.type = "confirmDeploy" /\ Answer("yes")
           /\ consent' = [consent EXCEPT ![active] = @ \cup {host.question.target}]
  <2>1. host.question.target \in Targets
    BY <1>1, <1>3 DEF IInv, Heard, Dialogs
  <2>2. UNCHANGED <<Stages, Orgs>> /\ Stages[active] = "assessing"
    BY <1>1, <1>3 DEF Answer, Stages, StageOf, Orgs, OrgOf
  <2>3. OneShot!Consent(active, host.question.target)
    BY <1>1, <1>3, <2>2 DEF OneShot!Consent, Stages, Orgs
  <2> QED
    BY <1>1, <2>1, <2>3 DEF OneShot!Next
<1>4. CASE UNCHANGED consent /\ \E value : Answer(value)
  BY <1>4 DEF Answer, Stages, StageOf, Orgs, OrgOf
<1> QED
  BY <1>2, <1>3, <1>4 DEF UserAnswers

\* The dispatch runs the assessed command, a deployment with consent.
LEMMA SpawnRefines ==
  ASSUME IInv, HostSpawns
  PROVE  OneShot!Next
<1> USE SessionAssumption
<1>1. /\ host.at = "dispatch" /\ active # None /\ active \in Calls /\ call[active] = "running"
      /\ ran[active] = None /\ host \in Hosts
  BY DEF HostSpawns, IInv, TypeOK, Sessions
<1>2. CASE End(AfterDispatch)
  BY <1>1, <1>2, EndRefines DEF AfterDispatch
<1>3. CASE /\ ran' = [ran EXCEPT ![active] = [execution |-> host.terminal.execution,
                                              seen |-> host.seen]]
           /\ UNCHANGED <<call, consent>>
  <2>1. /\ host.terminal # None /\ host.terminal.type = "execute" /\ host.terminal \in Lines
        /\ host.terminal \in worker.said
    BY <1>1 DEF IInv, CleanWorker, Hosts, Heard
  <2>2. host.terminal.execution \in Executions
    BY <2>1 DEF Lines, Questions
  <2>3. PICK c \in Calls, e \in Executions : c = active /\ e = host.terminal.execution
    BY <1>1, <2>2
  <2>4. e.kind = "deploy" => e.target \in consent[c]
    BY <2>1, <2>3 DEF IInv, Judged
  <2>5. host.seen \in Readings
    BY <1>1, <2>3 DEF IInv, Rechecked, Readings, Executions
  <2>6. ran'[c].execution = e /\ ran'[c] # None
    <3>1. [execution |-> e, seen |-> host.seen] \in Commands
      BY <2>5 DEF Commands
    <3> QED
      BY <1>3, <2>3, <3>1, NoneAssumption DEF IInv, TypeOK
  <2>7. call'[c] = "running" /\ \A d \in Calls \ {c} : call'[d] = call[d] /\ ran'[d] = ran[d]
    BY <1>1, <1>3, <2>3 DEF IInv, TypeOK
  <2>8. PICK to : to = IF e.kind = "deploy" THEN "deploying" ELSE "running"
    OBVIOUS
  <2>9. StageOf(c)' = to
    BY <2>6, <2>7, <2>8 DEF StageOf
  <2>10. Stages' = [Stages EXCEPT ![c] = to]
    BY <2>7, <2>9, OneMoves
  <2>11. Orgs' = [Orgs EXCEPT ![c] = {e.target}]
    BY <2>6, <2>7 DEF Orgs, OrgOf
  <2>12. Stages[c] = "assessing"
    BY <1>1, <2>3 DEF Stages, StageOf
  <2>13. OneShot!Run(c, e.target) \/ OneShot!Deploy(c, e.target)
    BY <1>3, <2>4, <2>8, <2>10, <2>11, <2>12
    DEF OneShot!Run, OneShot!Deploy, OneShot!Move, OneShot!RunAgainst, Stages, Orgs
  <2>14. e.target \in Targets
    BY DEF Executions
  <2> QED
    BY <2>13, <2>14 DEF OneShot!Next
<1> QED
  BY <1>2, <1>3 DEF HostSpawns

\* The tool implements its abstract specification: each invocation runs one
\* command at most, one invocation at a time, a deployment only after its
\* confirmation, and nothing where "blocked" is reported.
THEOREM OperationsAreOneShot == Spec => ImplementsOneShot
<1>1. Init => OneShot!Init
  BY DEF Init, OneShot!Init, StageOf, OrgOf
<1>2. IInv /\ [Next]_vars => [OneShot!Next]_<<Stages, consent, Orgs>>
  <2> SUFFICES ASSUME IInv, [Next]_vars
               PROVE  OneShot!Next \/ UNCHANGED <<Stages, consent, Orgs>>
    OBVIOUS
  <2>1. CASE \E c \in Calls : Invoke(c)
    BY <2>1, InvokeRefines
  <2>2. CASE HostSpawns
    BY <2>2, SpawnRefines
  <2>3. CASE UserAnswers
    BY <2>3, AnswerRefines
  <2>4. CASE CommandExits \/ CommandStops
    <3>1. host.at = "executing" /\ active # None
      BY <2>4 DEF CommandExits, CommandStops, IInv, TypeOK
    <3>2. End("completed") \/ End("failed")
      BY <2>4 DEF CommandExits, CommandStops, AfterDispatch
    <3> QED
      BY <3>1, <3>2, EndRefines
  <2>5. CASE host.at \notin {"idle", "executing"} /\ End("blocked")
    <3>1. active # None
      BY <2>5 DEF IInv, TypeOK
    <3> QED
      BY <2>5, <3>1, EndRefines
  <2>6. CASE UNCHANGED <<call, ran, consent>>
    BY <2>6 DEF Stages, StageOf, Orgs, OrgOf
  <2>7. HostStep => HostSpawns \/ UNCHANGED <<call, ran, consent>>
                      \/ (host.at \notin {"idle", "executing"} /\ End("blocked"))
    BY DEF HostStep, HostAborts, HostDistrusts, HostLaunches, HostReads, HostCloses,
           HostRechecksConfig, HostIdentifies, HostSettles, AbortPoints
  <2>8. WorkerStep => UNCHANGED <<call, ran, consent>>
    BY DEF WorkerStep, WorkerLoads, WorkerAsks, WorkerHears, WorkerEmits, WorkerBlocks,
           WorkerRepeats, WorkerExits, Says
  <2>9. \/ UserCancels \/ TimerFires \/ TrustChanges \/ ConfigChanges
        \/ (\E t \in Targets : LoginChanges(t)) \/ UNCHANGED vars
        => UNCHANGED <<call, ran, consent>>
    BY DEF UserCancels, TimerFires, TrustChanges, ConfigChanges, LoginChanges, vars
  <2> QED
    BY <2>1, <2>2, <2>3, <2>4, <2>5, <2>6, <2>7, <2>8, <2>9 DEF Next
<1>3. IInv /\ [Next]_vars => [OneShot!Next]_OneShot!oneshotvars
  BY <1>2 DEF OneShot!oneshotvars, Stages, Orgs
<1> QED
  BY <1>1, <1>3, Invariant, PTL DEF Spec, ImplementsOneShot, OneShot!Spec
=============================================================================
