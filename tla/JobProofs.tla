------------------------------ MODULE JobProofs ------------------------------
(***************************************************************************)
(* Proofs about OperationPolicy and JobExecutor for any number of logins,  *)
(* entries of the configuration, cached jobs and changes of each of them.  *)
(***************************************************************************)
EXTENDS JobExecutor, FiniteSetTheorems, TLAPS

-----------------------------------------------------------------------------
(* Identities and environments. *)

LEMMA AtMostOne ==
  ASSUME NEW S, IsFiniteSet(S), ~(Cardinality(S) > 1), NEW x \in S, NEW y \in S
  PROVE  x = y
<1> SUFFICES ASSUME x # y PROVE FALSE
  OBVIOUS
<1> PICK T : T = {y}
  OBVIOUS
<1>1. IsFiniteSet(T) /\ Cardinality(T) = 1 /\ x \notin T
  BY FS_Singleton
<1>2. Cardinality(T \cup {x}) = 2
  BY <1>1, FS_AddElement
<1>3. Cardinality(T \cup {x}) <= Cardinality(S)
  BY FS_Subset
<1>4. Cardinality(S) \in Nat
  BY FS_CardinalityType
<1> QED
  BY <1>2, <1>3, <1>4

LEMMA FiniteImage ==
  ASSUME NEW f, IsFiniteSet(DOMAIN f)
  PROVE  IsFiniteSet({f[x] : x \in DOMAIN f})
<1> DEFINE g == [x \in DOMAIN f |-> f[x]]
           T == {f[x] : x \in DOMAIN f}
<1>1. g \in Surjection(DOMAIN f, T)
  BY DEF Surjection
<1> QED
  BY <1>1, FS_Surjection

\* A name that is not ambiguous has the identity of every login it matches.
LEMMA Unambiguous ==
  ASSUME NEW name, NEW rows, IsFiniteSet(rows), ~Ambiguous(name, rows),
         NEW r \in Matches(name, rows)
  PROVE  Identity(name, rows) = r.org
<1> DEFINE S == {s.org : s \in Matches(name, rows)}
<1>1. Matches(name, rows) \subseteq rows
  BY DEF Matches
<1>2. IsFiniteSet(Matches(name, rows))
  BY <1>1, FS_Subset
<1>3. IsFiniteSet(S)
  <2> DEFINE f == [s \in Matches(name, rows) |-> s.org]
  <2>1. IsFiniteSet({f[s] : s \in DOMAIN f})
    BY <1>2, FiniteImage
  <2>2. {f[s] : s \in DOMAIN f} = S
    OBVIOUS
  <2> QED
    BY <2>1, <2>2
<1>4. Identity(name, rows) \in S
  BY DEF Identity
<1>5. r.org \in S
  OBVIOUS
<1> QED
  BY <1>3, <1>4, <1>5, AtMostOne DEF Ambiguous

\* The same logins under more aliases: a name that is neither is unaffected.
SameLogin(r, s) ==
  r.user = s.user /\ r.org = s.org /\ \A n \in Names : n \in r.aliases <=> n \in s.aliases

SameLogins(R, S) ==
  /\ \A r \in R : \E s \in S : SameLogin(r, s)
  /\ \A s \in S : \E r \in R : SameLogin(r, s)

LEMMA SameIdentity ==
  ASSUME NEW R, NEW S, IsFiniteSet(R), SameLogins(R, S), NEW name \in Names,
         ~Ambiguous(name, R)
  PROVE  Identity(name, R) = Identity(name, S)
<1>1. CASE Matches(name, S) = {}
  <2>1. Matches(name, R) = {}
    BY <1>1 DEF Matches, SameLogins, SameLogin
  <2> QED
    BY <1>1, <2>1 DEF Identity
<1>2. CASE Matches(name, S) # {}
  <2>1. PICK s \in Matches(name, S) : Identity(name, S) = s.org
    BY <1>2 DEF Identity
  <2>2. PICK r \in R : SameLogin(r, s)
    BY DEF Matches, SameLogins
  <2>3. r \in Matches(name, R)
    BY <2>2 DEF Matches, SameLogin
  <2> QED
    BY <2>1, <2>2, <2>3, Unambiguous DEF SameLogin
<1> QED
  BY <1>1, <1>2

\* Every entry that is about the org of a classified name agrees with the
\* environment it is given.
LEMMA EntriesAgree ==
  ASSUME NEW name, NEW entries, NEW rows, IsFiniteSet(entries),
         Classify(name, entries, rows).status = "resolved",
         NEW e \in entries, Relevant(e, name, rows)
  PROVE  /\ e.env \in DOMAIN Normal
         /\ Classify(name, entries, rows).env = Normal[e.env]
<1> DEFINE relevant == {x \in entries : Relevant(x, name, rows)}
           envs == {Normal[x.env] : x \in relevant}
<1>1. /\ Classify(name, entries, rows) =
           Verdict("resolved", CHOOSE n \in envs : TRUE, Identity(name, rows))
      /\ \A x \in entries : Usable(x, name, rows)
      /\ ~(Cardinality(envs) > 1)
  BY DEF Classify, Refused, Verdict
<1>2. e.env \in DOMAIN Normal
  BY <1>1 DEF Usable
<1>3. Normal[e.env] \in envs
  OBVIOUS
<1>4. IsFiniteSet(envs)
  <2>1. IsFiniteSet(relevant)
    BY FS_Subset
  <2> DEFINE f == [x \in relevant |-> Normal[x.env]]
  <2>2. IsFiniteSet({f[x] : x \in DOMAIN f})
    BY <2>1, FiniteImage
  <2>3. {f[x] : x \in DOMAIN f} = envs
    OBVIOUS
  <2> QED
    BY <2>2, <2>3
<1>5. (CHOOSE n \in envs : TRUE) \in envs
  BY <1>3
<1> HIDE DEF envs
<1>6. (CHOOSE n \in envs : TRUE) = Normal[e.env]
  BY <1>1, <1>3, <1>4, <1>5, AtMostOne
<1> QED
  BY <1>1, <1>2, <1>6 DEF Verdict

LEMMA ClassifiedStatus ==
  ASSUME NEW name, NEW entries, NEW rows
  PROVE  /\ Classify(name, entries, rows).status \in {"refused", "environment-required", "resolved"}
         /\ Classify(name, entries, rows).status # "refused" =>
              /\ Classify(name, entries, rows).org = Identity(name, rows)
              /\ \A n \in {name} \cup {e.alias : e \in entries} : ~Ambiguous(n, rows)
         /\ Classify(name, entries, rows).status = "environment-required" =>
              \A e \in entries : ~Relevant(e, name, rows)
BY Zenon DEF Classify, Refused, Verdict

\* A command that is allowed names classified orgs only, and production only
\* as a verified retrieve.
LEMMA AllowedNames ==
  ASSUME NEW c, NEW w, NEW bound, Evaluate(c, w, bound).status = "allow",
         c.family # "local", NEW n \in c.targets \cup c.hubs
  PROVE  /\ Classify(n, w.entries, w.rows).status = "resolved"
         /\ Classify(n, w.entries, w.rows).env = "prod" => c.family = "verified"
<1> DEFINE targets == TargetNames(c, w, bound)
           hubs == HubNames(c, w)
           orgs == {Identity(m, w.rows) : m \in targets}
           controllers == IF IsDelete(c) THEN Controllers(c, orgs, w.lineage) ELSE {}
           d == [m \in targets \cup hubs \cup controllers |-> Classify(m, w.entries, w.rows)]
           open == {m \in DOMAIN d : d[m].status = "environment-required"}
           refused ==
             \/ IsDelete(c) /\ (None \in orgs \/ Unproven(c, orgs, w.lineage))
             \/ \E m \in DOMAIN d : d[m].status = "refused" \/ d[m].org \in w.denied
             \/ Cardinality({d[m].org : m \in targets}) > 1
             \/ Cardinality({d[m].org : m \in hubs}) > 1
             \/ /\ Production(d, targets \cup controllers, hubs)
                /\ hubs # {} \/ c.family # "verified"
<1>1. n \in targets \cup hubs
  BY Zenon DEF TargetNames, HubNames
<1>2. Decide(c, w, targets, hubs).status = "allow"
  BY Zenon DEF Evaluate, Refused, Verdict
<1>3. Decide(c, w, targets, hubs) =
        IF refused THEN Refused
        ELSE IF open # {} THEN d[CHOOSE m \in open : TRUE]
        ELSE LET m == CHOOSE m \in DOMAIN d : m \in targets \/ targets = {}
             IN Verdict("allow", d[m].env, d[m].org)
  BY DEF Decide
<1>4. n \in DOMAIN d /\ d[n] = Classify(n, w.entries, w.rows)
  BY <1>1
<1> HIDE DEF targets, hubs, controllers, d, refused
<1>5. ~refused
  BY <1>2, <1>3 DEF Refused, Verdict
<1>6. open = {}
  BY <1>2, <1>3, <1>5
<1>7. d[n].status = "resolved"
  BY <1>4, <1>5, <1>6, ClassifiedStatus DEF refused
<1>8. d[n].env = "prod" => c.family = "verified"
  BY <1>1, <1>4, <1>5 DEF refused, Production
<1> QED
  BY <1>4, <1>7, <1>8

\* The org whose environment is asked for has no entry that pins it.
LEMMA RequiredHasNoPin ==
  ASSUME NEW c, NEW w, NEW bound, Evaluate(c, w, bound).status = "environment-required",
         NEW e \in w.entries
  PROVE  e.pin # Evaluate(c, w, bound).org
<1> DEFINE targets == TargetNames(c, w, bound)
           hubs == HubNames(c, w)
           orgs == {Identity(m, w.rows) : m \in targets}
           controllers == IF IsDelete(c) THEN Controllers(c, orgs, w.lineage) ELSE {}
           d == [m \in targets \cup hubs \cup controllers |-> Classify(m, w.entries, w.rows)]
           open == {m \in DOMAIN d : d[m].status = "environment-required"}
           refused ==
             \/ IsDelete(c) /\ (None \in orgs \/ Unproven(c, orgs, w.lineage))
             \/ \E m \in DOMAIN d : d[m].status = "refused" \/ d[m].org \in w.denied
             \/ Cardinality({d[m].org : m \in targets}) > 1
             \/ Cardinality({d[m].org : m \in hubs}) > 1
             \/ /\ Production(d, targets \cup controllers, hubs)
                /\ hubs # {} \/ c.family # "verified"
<1>1. /\ Evaluate(c, w, bound) = Decide(c, w, targets, hubs)
      /\ Decide(c, w, targets, hubs).status = "environment-required"
  BY Zenon DEF Evaluate, Refused, Verdict
<1>2. Decide(c, w, targets, hubs) =
        IF refused THEN Refused
        ELSE IF open # {} THEN d[CHOOSE m \in open : TRUE]
        ELSE LET m == CHOOSE m \in DOMAIN d : m \in targets \/ targets = {}
             IN Verdict("allow", d[m].env, d[m].org)
  BY DEF Decide
<1>3. \A m \in DOMAIN d : d[m] = Classify(m, w.entries, w.rows)
  OBVIOUS
<1> HIDE DEF targets, hubs, controllers, d, refused
<1>4. PICK m \in open : Decide(c, w, targets, hubs) = d[m]
  <2>1. ~refused /\ open # {}
    BY <1>1, <1>2 DEF Refused, Verdict
  <2>2. Decide(c, w, targets, hubs) = d[CHOOSE m \in open : TRUE]
    BY <1>2, <2>1
  <2>3. (CHOOSE m \in open : TRUE) \in open
    BY <2>1
  <2> HIDE DEF open
  <2> QED
    BY <2>2, <2>3
<1>5. /\ Classify(m, w.entries, w.rows).status = "environment-required"
      /\ Evaluate(c, w, bound).org = Classify(m, w.entries, w.rows).org
  BY <1>1, <1>3, <1>4
<1>6. Evaluate(c, w, bound).org = Identity(m, w.rows) /\ ~Relevant(e, m, w.rows)
  BY <1>5, ClassifiedStatus
<1> QED
  BY <1>6 DEF Relevant

-----------------------------------------------------------------------------
(* The inductive invariant. *)

RunFields == {"at", "command", "base", "overlay", "asked", "job", "execution", "conn", "id",
              "left", "result"}

JobFields == {"org", "status", "validation", "done"}

\* The assessment began and was not refused.
Underway == run.at \notin {"idle", "done"} \/ run.execution # None

Shapes ==
  /\ DOMAIN run = RunFields
  /\ server = [j \in Jobs |-> server[j]]
  /\ answers \in [Users(world) -> Orgs]
  /\ "rows" \in DOMAIN world /\ \A r \in world.rows : "user" \in DOMAIN r
  /\ \A j \in Jobs : server[j] # None =>
       /\ DOMAIN server[j] = JobFields
       /\ server[j].org \in Orgs /\ server[j].status \in Statuses
       /\ server[j].validation \in BOOLEAN \cup {None} /\ server[j].done \in BOOLEAN

Beginning ==
  run.at = "idle" => run = NoRun /\ world \in Worlds /\ hits = {} /\ flight = None

\* The overlay holds the configuration that was read, and the logins under
\* more aliases.
Overlaid ==
  Underway =>
    /\ run.base \in Worlds
    /\ {"entries", "rows"} \subseteq DOMAIN run.overlay
    /\ IsFiniteSet(run.overlay.rows) /\ IsFiniteSet(run.overlay.entries)
    /\ run.base.entries \subseteq run.overlay.entries
    /\ \A r \in run.overlay.rows : "aliases" \in DOMAIN r
    /\ SameLogins(run.overlay.rows, run.base.rows)
    /\ Users(world) = Users(run.base)
    /\ Given \subseteq Names /\ run.command.family # "local"

\* An answer to every question but the one that is open is in the overlay.
Asked ==
  /\ run.asked \subseteq Orgs
  /\ run.at = "dialog" => run.id \in run.asked
  /\ run.at \in {"assess", "dialog"} => \A o \in run.asked :
       \/ run.at = "dialog" /\ run.id = o
       \/ \E e \in run.overlay.entries : e.pin = o

Selected ==
  Underway /\ run.job # None =>
    /\ run.job.user \in Users(run.base) /\ run.job.org \in Orgs /\ run.job.id \in Jobs
    /\ run.job.action \in JobActions => run.job.family # "sandbox"
    /\ IsJob(run.command) \/ IsResume(run.command)

Executing ==
  /\ run.at = "validate" => run.job # None /\ run.execution.job = run.job
  /\ run.at \in Requests \cup {"sleep"} =>
       /\ run.job # None
       /\ run.job.options.wait \in 0 .. MaxWait
       /\ run.job.options.async => run.job.options.wait = 0

\* The request goes to the org and the job that were assessed.
Pointed ==
  /\ run.conn \in Orgs \cup {None}
  /\ run.at \in {"connect", "live"} => run.conn \in Orgs
  /\ run.at \in Requests \cup {"sleep"} =>
       \/ run.id = run.job.id
       \/ run.at \in {"status", "sleep"} /\ run.id \in Jobs /\ run.job.family # "sandbox"
  /\ run.at \in {"org", "check", "mutate", "status", "resume", "sleep"} => run.conn = run.job.org
  /\ run.at \in {"org", "resume"} => run.job.family = "sandbox"
  /\ run.at = "check" => run.job.action = "quick"
  /\ run.at = "mutate" => run.job.action \in {"quick", "cancel"}
  /\ run.at = "mutate" /\ run.job.action = "quick" =>
       server[run.job.id] # None /\ server[run.job.id].validation = TRUE
  /\ run.left \in 0 .. MaxWait /\ (run.at = "sleep" => run.left > 0)

\* What a request is about and what its answer says.  A validation stays one,
\* a final status is final, and what is done is done.
Flown ==
  run.at # "done" /\ flight # None =>
    /\ DOMAIN flight = {"kind", "org", "id", "answer"}
    /\ run.at \in Requests
    /\ flight.kind = run.at /\ flight.org = run.conn /\ flight.id = run.id
    /\ flight.answer \notin {None, Error} =>
         /\ flight.kind = "auth" => flight.answer.answers \in Orgs
         /\ flight.kind = "live" => flight.answer = flight.org
         /\ flight.kind = "mutate" => flight.answer \in Jobs
         /\ flight.kind \in {"check", "status"} =>
              /\ server[flight.id] # None
              /\ flight.answer.validation = server[flight.id].validation
              /\ flight.answer.status \in Final =>
                   server[flight.id].status = flight.answer.status
              /\ flight.answer.done \in BOOLEAN
              /\ flight.answer.done => server[flight.id].done

Hit == \A h \in hits :
  /\ h.org \in Orgs /\ h.id \in Jobs
  /\ h.org = run.job.org /\ h.id = run.job.id
  /\ h.kind = "quick" => server[h.id] # None /\ server[h.id].validation = TRUE

Wanted == IF run.job.action = "cancel" THEN "Canceled" ELSE "Succeeded"

\* A job that ended well has the status that it was reported with, or is done.
Became(status) ==
  /\ run.id \in Jobs /\ server[run.id] # None
  /\ \/ status = Wanted /\ server[run.id].status = Wanted
     \/ status \notin Final /\ server[run.id].done

Told ==
  /\ run.at = "done" /\ run.result.exit = 0
  /\ run.job.family = "deploy" /\ run.job.options.wait > 0
  => Became(run.result.status)

IInv == /\ Shapes /\ Beginning /\ Overlaid /\ Asked /\ Selected /\ Executing /\ Pointed
        /\ Flown /\ Hit /\ ConfiguredEnvironmentHolds /\ Told

-----------------------------------------------------------------------------
(* What an assessment that ends well says. *)

LEMMA TouchedOrgs ==
  ASSUME run.base \in Worlds, NEW o \in Touched, o # None
  PROVE  /\ o \in Orgs
         /\ \E r \in run.base.rows : r.user = Login(o) /\ r.org = o /\ Login(o) \in Names
         /\ \E n \in Given : o = Identity(n, run.base.rows)
<1>1. PICK n \in Given : n = (CHOOSE m \in Given : Identity(m, run.base.rows) = o)
                         /\ Identity(n, run.base.rows) = o
  BY DEF Touched
<1>2. PICK r \in Matches(n, run.base.rows) :
        Identity(n, run.base.rows) = r.org /\ User(n, run.base.rows) = r.user
  BY <1>1 DEF Identity, User
<1>3. r \in run.base.rows /\ Login(o) = r.user
  BY <1>1, <1>2 DEF Matches, Login
<1> QED
  BY <1>1, <1>2, <1>3, JobAssumption

LEMMA EnvironmentsHold ==
  ASSUME run.at = "assess", Overlaid, None \notin Touched,
         Evaluate(run.command, run.overlay, Bound).status = "allow",
         NEW o \in Touched, Classified(o).status = "resolved",
         NEW e \in run.base.entries, o \in {e.pin, Identity(e.alias, run.base.rows)}
  PROVE  /\ e.env \in DOMAIN Normal /\ Classified(o).env = Normal[e.env]
         /\ Classified(o).env = "prod" => run.command.family = "verified"
<1> DEFINE rows == run.overlay.rows
           entries == run.overlay.entries
           u == Login(o)
<1>1. /\ run.base \in Worlds /\ IsFiniteSet(rows) /\ IsFiniteSet(entries)
      /\ e \in entries /\ SameLogins(rows, run.base.rows)
      /\ Given \subseteq Names /\ run.command.family # "local"
  BY DEF Overlaid, Underway
<1>2. e.alias \in Names
  BY <1>1, JobAssumption
<1>3. PICK s \in run.base.rows : s.user = u /\ s.org = o /\ u \in Names
  BY <1>1, TouchedOrgs
<1>4. \A n \in {u} \cup {x.alias : x \in entries} : ~Ambiguous(n, rows)
  BY ClassifiedStatus DEF Classified
<1> HIDE DEF rows, entries, u
<1>5. Identity(u, rows) = o
  <2>1. PICK r \in rows : SameLogin(r, s)
    BY <1>1, <1>3 DEF SameLogins
  <2>2. r \in Matches(u, rows)
    BY <1>3, <2>1 DEF Matches, SameLogin
  <2> QED
    BY <1>1, <1>3, <1>4, <2>1, <2>2, Unambiguous DEF SameLogin
<1>6. Identity(e.alias, rows) = Identity(e.alias, run.base.rows)
  BY <1>1, <1>2, <1>4, SameIdentity
<1>7. e.env \in DOMAIN Normal /\ Classified(o).env = Normal[e.env]
  <2>1. Relevant(e, u, rows)
    BY <1>5, <1>6 DEF Relevant
  <2>2. Classify(u, entries, rows).status = "resolved"
    BY DEF Classified, u, entries, rows
  <2>3. e.env \in DOMAIN Normal /\ Classify(u, entries, rows).env = Normal[e.env]
    BY <1>1, <2>1, <2>2, EntriesAgree
  <2> QED
    BY <2>3 DEF Classified, u, entries, rows
<1>8. ASSUME Classified(o).env = "prod" PROVE run.command.family = "verified"
  <2>1. PICK n \in Given : o = Identity(n, run.base.rows)
    BY <1>1, TouchedOrgs
  <2>2. /\ Classify(n, entries, rows).status = "resolved"
        /\ Classify(n, entries, rows).env = "prod" => run.command.family = "verified"
    BY <1>1, <2>1, AllowedNames DEF Given, entries, rows
  <2>3. Identity(n, rows) = o
    BY <1>1, <2>1, <2>2, ClassifiedStatus, SameIdentity
  <2>4. Relevant(e, n, rows)
    BY <1>6, <2>3 DEF Relevant
  <2>5. Classify(n, entries, rows).env = Normal[e.env]
    BY <1>1, <2>2, <2>4, EntriesAgree
  <2> QED
    BY <1>7, <1>8, <2>2, <2>5
<1> QED
  BY <1>7, <1>8

-----------------------------------------------------------------------------
(* The invariant is inductive. *)

LEMMA JobInit ==
  Init => IInv
<1> SUFFICES ASSUME Init PROVE IInv
  OBVIOUS
<1> USE JobAssumption
<1>1. /\ world \in Worlds /\ server \in Servers /\ run = NoRun /\ flight = None /\ hits = {}
      /\ DOMAIN run = RunFields
  BY DEF Init, NoRun, RunFields
<1>2. Shapes
  <2>1. \A u \in Users(world) : Identity(u, world.rows) \in Orgs
    <3> SUFFICES ASSUME NEW r \in world.rows PROVE Identity(r.user, world.rows) \in Orgs
      BY DEF Users
    <3>1. r \in Matches(r.user, world.rows)
      BY DEF Matches
    <3>2. PICK s \in Matches(r.user, world.rows) : Identity(r.user, world.rows) = s.org
      BY <3>1 DEF Identity
    <3> QED
      BY <1>1, <3>2 DEF Matches
  <2>2. answers \in [Users(world) -> Orgs]
    BY <2>1 DEF Init
  <2>3. server \in [Jobs -> {None} \cup ServerJobs]
    BY <1>1
  <2> QED
    BY <1>1, <2>2, <2>3 DEF Shapes, ServerJobs, JobFields
<1>3. ~Underway
  BY <1>1 DEF Underway, NoRun
<1>4. run.left = 0 /\ 0 \in 0 .. MaxWait
  BY <1>1 DEF NoRun
<1> QED
  BY <1>1, <1>2, <1>3, <1>4 DEF IInv, Beginning, Overlaid, Asked, Selected, Executing, Pointed,
     Flown, Hit, ConfiguredEnvironmentHolds, Told, NoRun, Requests

\* The run ends, and if well, as it should.
LEMMA EndStep ==
  ASSUME IInv, NEW result, End(result), UNCHANGED <<world, answers, server, hits>>,
         run.at # "done", result.exit = 0 => Told'
  PROVE  IInv'
<1> USE DEF IInv
<1>1. /\ DOMAIN run' = RunFields /\ run'.at = "done" /\ run'.result = result
      /\ run'.command = run.command /\ run'.base = run.base /\ run'.overlay = run.overlay
      /\ run'.asked = run.asked /\ run'.job = run.job /\ run'.execution = run.execution
      /\ run'.conn = run.conn /\ run'.id = run.id /\ run'.left = run.left
  BY DEF Shapes, RunFields, End
<1>2. Underway' => Underway
  <2>1. CASE run.at = "idle"
    BY <1>1, <2>1 DEF Beginning, NoRun, Underway
  <2>2. CASE run.at # "idle"
    BY <2>2 DEF Underway
  <2> QED
    BY <2>1, <2>2
<1>3. Shapes' /\ Beginning' /\ Asked' /\ Hit' /\ Flown'
  BY <1>1 DEF Shapes, Beginning, Asked, Hit, Flown, Users
<1>4. Overlaid' /\ Selected'
  BY <1>1, <1>2 DEF Overlaid, Selected, Given, Users
<1>5. Executing' /\ Pointed'
  BY <1>1 DEF Executing, Pointed, Requests
<1>6. ConfiguredEnvironmentHolds'
  BY <1>1 DEF ConfiguredEnvironmentHolds
<1>7. Told'
  BY <1>1 DEF Told
<1> QED
  BY <1>3, <1>4, <1>5, <1>6, <1>7

\* The executor goes on: where it stands and what it asks for next change.
Carried ==
  /\ DOMAIN run' = RunFields
  /\ run'.command = run.command /\ run'.base = run.base /\ run'.overlay = run.overlay
  /\ run'.asked = run.asked /\ run'.job = run.job /\ run'.execution = run.execution

LEMMA GoOnStep ==
  ASSUME IInv, UNCHANGED <<world, answers, server>>, Carried,
         run.at \in Requests \cup {"validate", "sleep"}, run'.at \in Requests \cup {"sleep"},
         Executing', Pointed', Flown', Hit'
  PROVE  IInv'
<1> USE DEF IInv, Carried
<1>1. Underway /\ run'.at \notin {"idle", "done", "assess", "dialog"}
  BY DEF Underway, Requests
<1>2. Shapes' /\ Beginning' /\ Asked'
  BY <1>1 DEF Shapes, Beginning, Asked, Users
<1>3. Overlaid' /\ Selected'
  BY <1>1 DEF Overlaid, Selected, Given, Users
<1>4. ConfiguredEnvironmentHolds' /\ Told'
  BY <1>1 DEF ConfiguredEnvironmentHolds, Told
<1> QED
  BY <1>2, <1>3, <1>4

\* An answer is received, and another request or a sleep follows.
LEMMA NextRequest ==
  ASSUME IInv, UNCHANGED <<world, answers, server, hits>>, flight' = None, Carried,
         run.at \in Requests \cup {"sleep"}, run'.at \in Requests \cup {"sleep"}, Pointed'
  PROVE  IInv'
<1>1. Executing' /\ Flown' /\ Hit'
  BY DEF IInv, Executing, Flown, Hit, Carried, Requests
<1> QED
  BY <1>1, GoOnStep

\* An execution that fails.
LEMMA FailStep ==
  ASSUME IInv, NEW n \in {1, 2}, End([exit |-> n]), UNCHANGED <<world, answers, server, hits>>,
         run.at # "done"
  PROVE  IInv'
<1> PICK r : r = [exit |-> n]
  OBVIOUS
<1> QED
  BY EndStep

\* The assessment of a command begins.
LEMMA BeginStep ==
  ASSUME IInv, run.at = "idle", UNCHANGED <<world, answers, server, flight, hits>>,
         NEW job, NEW c, c.targets \cup c.hubs \subseteq Names, c.family # "local",
         job # None => /\ job.user \in Users(world) /\ job.org \in Orgs /\ job.id \in Jobs
                       /\ job.action \in JobActions => job.family # "sandbox"
                       /\ IsJob(c) \/ IsResume(c),
         DOMAIN run' = DOMAIN run, run'.at = "assess", run'.base = world,
         run'.overlay = world, run'.job = job, run'.command = c, run'.asked = run.asked,
         run'.execution = run.execution, run'.conn = run.conn, run'.left = run.left
  PROVE  IInv'
<1> USE DEF IInv
<1>1. /\ DOMAIN run' = RunFields /\ run'.at = "assess" /\ run'.base = world
      /\ run'.overlay = world /\ run'.job = job /\ run'.command = c /\ run'.asked = {}
      /\ run'.execution = None /\ run'.conn = None /\ run'.left = 0
      /\ hits = {} /\ flight = None /\ world \in Worlds
  BY DEF Shapes, Beginning, NoRun, RunFields
<1>2. Shapes' /\ Beginning' /\ Asked' /\ Hit' /\ Flown'
  BY <1>1 DEF Shapes, Beginning, Asked, Hit, Flown, Users
<1>3. SameLogins(world.rows, world.rows)
  BY DEF SameLogins, SameLogin
<1>4. /\ {"entries", "rows"} \subseteq DOMAIN world
      /\ IsFiniteSet(world.rows) /\ IsFiniteSet(world.entries)
      /\ \A r \in world.rows : "aliases" \in DOMAIN r
  BY <1>1, JobAssumption
<1>5. Overlaid' /\ Selected'
  BY <1>1, <1>3, <1>4 DEF Overlaid, Selected, Given, Users
<1>6. 0 \in 0 .. MaxWait
  BY JobAssumption
<1>7. Executing' /\ Pointed' /\ ConfiguredEnvironmentHolds' /\ Told'
  BY <1>1, <1>6 DEF Executing, Pointed, Requests, ConfiguredEnvironmentHolds, Told
<1> QED
  BY <1>2, <1>5, <1>7

\* A known name is one of a login.
LEMMA KnownUser ==
  ASSUME NEW w \in Worlds, NEW name, Identity(name, w.rows) # None
  PROVE  User(name, w.rows) \in Users(w) /\ Identity(name, w.rows) \in Orgs
<1>1. PICK r \in Matches(name, w.rows) :
        Identity(name, w.rows) = r.org /\ User(name, w.rows) = r.user
  BY DEF Identity, User
<1> QED
  BY <1>1, JobAssumption DEF Matches, Users

LEMMA UserNames ==
  ASSUME NEW w \in Worlds
  PROVE  Users(w) \subseteq Names
BY JobAssumption DEF Users

LEMMA SelectedJob ==
  ASSUME NEW w \in Worlds, NEW c \in Commands, NEW job, job = Select(c, w.cache, w.rows),
         job # None
  PROVE  /\ job.user \in Users(w) /\ job.org \in Orgs /\ job.id \in Jobs
         /\ job.action \in JobActions => job.family # "sandbox"
<1> DEFINE found == Candidates(c, w.cache)
           entry == CHOOSE j \in found : TRUE
           name == IF found # {} THEN entry.target
                   ELSE IF c.targets # {} THEN CHOOSE t \in c.targets : TRUE ELSE None
           id == IF found # {} THEN entry.id ELSE c.id
<1>1. /\ Identity(name, w.rows) # None /\ (found = {} => c.id # None)
      /\ job.user = User(name, w.rows) /\ job.org = Identity(name, w.rows) /\ job.id = id
      /\ job.action = c.family /\ job.family = FamilyOf(c)
  BY Zenon DEF Select
<1>2. found \subseteq w.cache
  BY DEF Candidates, Current, Named
<1>3. id \in Jobs
  BY <1>1, <1>2, JobAssumption
<1>4. job.action \in JobActions => job.family # "sandbox"
  BY <1>1 DEF FamilyOf, JobActions
<1> QED
  BY <1>1, <1>3, <1>4, KnownUser

LEMMA BeginKeeps ==
  ASSUME IInv, NEW c \in Commands, Begin(c)
  PROVE  IInv'
<1> USE DEF IInv
<1>1. /\ run.at = "idle" /\ run = NoRun /\ world \in Worlds
      /\ UNCHANGED <<world, answers, server, flight, hits>>
  BY DEF Begin, Beginning
<1>2. /\ DOMAIN c = {"family", "targets", "hubs", "id", "name", "latest", "wait", "async", "api"}
      /\ c.targets \cup c.hubs \subseteq Names
      /\ Users(world) \subseteq Names
  BY <1>1, JobAssumption, UserNames
<1>3. ASSUME Refuse PROVE IInv'
  <2> PICK r : r = [exit |-> None]
    OBVIOUS
  <2>1. End(r) /\ r.exit # 0
    BY <1>3, JobAssumption DEF Refuse
  <2> QED
    BY <1>1, <2>1, EndStep
<1>4. CASE c.family \in {"unknown", "local", "delete sandbox", "delete scratch"}
  BY <1>3, <1>4 DEF Begin
<1>5. CASE c.family \notin {"unknown", "local", "delete sandbox", "delete scratch"}
           /\ (IsJob(c) \/ IsResume(c))
  <2> PICK job : job = Select(c, world.cache, world.rows)
    OBVIOUS
  <2>1. CASE job = None
    BY <1>3, <1>5, <2>1 DEF Begin
  <2>2. CASE job # None
    <3> PICK d : d = [c EXCEPT !.targets = {job.user}]
      OBVIOUS
    <3>1. /\ DOMAIN run' = DOMAIN run /\ run'.at = "assess" /\ run'.base = world
          /\ run'.overlay = world /\ run'.job = job /\ run'.command = d
          /\ run'.asked = run.asked /\ run'.execution = run.execution
          /\ run'.conn = run.conn /\ run'.left = run.left
      <4>1. run' = [run EXCEPT !.at = "assess", !.base = world, !.overlay = world,
                               !.job = job, !.command = d]
        BY <1>5, <2>2 DEF Begin
      <4> QED
        BY <4>1 DEF Shapes, RunFields
    <3>2. /\ job.user \in Users(world) /\ job.org \in Orgs /\ job.id \in Jobs
          /\ job.action \in JobActions => job.family # "sandbox"
      BY <1>1, <2>2, SelectedJob
    <3>3. d.targets = {job.user} /\ d.hubs = c.hubs /\ d.family = c.family
      BY <1>2
    <3>4. IsJob(d) \/ IsResume(d)
      BY <1>5, <3>3 DEF IsJob, IsResume
    <3>5. d.targets \cup d.hubs \subseteq Names /\ d.family # "local"
      BY <1>2, <1>5, <3>2, <3>3
    <3> QED
      BY <1>1, <3>1, <3>2, <3>4, <3>5, BeginStep
  <2> QED
    BY <2>1, <2>2
<1>6. CASE c.family \notin {"unknown", "local", "delete sandbox", "delete scratch"}
           /\ ~(IsJob(c) \/ IsResume(c))
  <2>1. ASSUME NEW d, d = c \/ \E u \in Names : \/ d = [c EXCEPT !.hubs = {u}]
                                                \/ d = [c EXCEPT !.targets = {u}],
               run' = [run EXCEPT !.at = "assess", !.base = world, !.overlay = world,
                                  !.command = d]
        PROVE  IInv'
    <3>1. d.targets \cup d.hubs \subseteq Names /\ d.family = c.family
      BY <1>2, <2>1
    <3>2. /\ DOMAIN run' = DOMAIN run /\ run'.at = "assess" /\ run'.base = world
          /\ run'.overlay = world /\ run'.job = None /\ run'.command = d
          /\ run'.asked = run.asked /\ run'.execution = run.execution
          /\ run'.conn = run.conn /\ run'.left = run.left
      BY <1>1, <2>1 DEF Shapes, RunFields, NoRun
    <3>3. d.family # "local"
      BY <1>6, <3>1
    <3> QED
      BY <1>1, <3>1, <3>2, <3>3, BeginStep
  <2> DEFINE default == IF c.family = "hub" THEN world.hub ELSE world.target
             choice == IF default # {} THEN {User(n, world.rows) : n \in default}
                       ELSE Users(world)
             chosen(u) == IF c.family = "hub" THEN [c EXCEPT !.hubs = {u}]
                          ELSE [c EXCEPT !.targets = {u}]
             conflict == \/ \E n \in default : Identity(n, world.rows) = None
                         \/ Cardinality({Identity(n, world.rows) : n \in default}) > 1
  <2>2. \/ run' = [run EXCEPT !.at = "assess", !.base = world, !.overlay = world, !.command = c]
        \/ Refuse
        \/ ~conflict /\ \E u \in choice :
             run' = [run EXCEPT !.at = "assess", !.base = world, !.overlay = world,
                                !.command = chosen(u)]
    BY <1>6, Zenon DEF Begin
  <2>3. CASE run' = [run EXCEPT !.at = "assess", !.base = world, !.overlay = world, !.command = c]
    BY <2>1, <2>3
  <2>4. CASE ~conflict /\ \E u \in choice :
               run' = [run EXCEPT !.at = "assess", !.base = world, !.overlay = world,
                                  !.command = chosen(u)]
    <3>1. PICK u \in choice :
            run' = [run EXCEPT !.at = "assess", !.base = world, !.overlay = world,
                               !.command = chosen(u)]
      BY <2>4
    <3>2. u \in Names
      BY <1>1, <1>2, <2>4, KnownUser
    <3> QED
      BY <2>1, <3>1, <3>2
  <2> QED
    BY <1>3, <2>2, <2>3, <2>4
<1> QED
  BY <1>4, <1>5, <1>6

LEMMA AssessKeeps ==
  ASSUME IInv, Assess
  PROVE  IInv'
<1> USE DEF IInv
<1> DEFINE d == Evaluate(run.command, run.overlay, Bound)
<1>1. /\ run.at = "assess" /\ Underway /\ run.base \in Worlds
      /\ UNCHANGED <<world, answers, server, flight, hits>>
  BY DEF Assess, Overlaid, Underway
<1>2. ASSUME Refuse PROVE IInv'
  <2> PICK r : r = [exit |-> None]
    OBVIOUS
  <2>1. End(r) /\ r.exit # 0
    BY <1>2, JobAssumption DEF Refuse
  <2> QED
    BY <1>1, <2>1, EndStep
<1>3. CASE /\ None \notin Touched
           /\ d.status = "environment-required" /\ d.org \in Touched \ run.asked
           /\ run' = [run EXCEPT !.at = "dialog", !.asked = @ \cup {d.org}, !.id = d.org]
  <2> PICK o : o = d.org
    OBVIOUS
  <2>1. /\ DOMAIN run' = RunFields /\ run'.at = "dialog" /\ run'.asked = run.asked \cup {o}
        /\ run'.id = o /\ run'.base = run.base /\ run'.overlay = run.overlay
        /\ run'.job = run.job /\ run'.command = run.command /\ run'.execution = run.execution
        /\ run'.conn = run.conn /\ run'.left = run.left
    BY <1>3 DEF Shapes, RunFields
  <2>2. o \in Orgs
    BY <1>1, <1>3, TouchedOrgs
  <2>3. Shapes' /\ Beginning' /\ Asked' /\ Hit' /\ Flown'
    BY <1>1, <2>1, <2>2 DEF Shapes, Beginning, Asked, Hit, Flown, Users, Requests
  <2>4. Overlaid' /\ Selected'
    BY <1>1, <2>1 DEF Overlaid, Selected, Given, Users
  <2>5. Executing' /\ Pointed' /\ ConfiguredEnvironmentHolds' /\ Told'
    BY <1>1, <2>1 DEF Executing, Pointed, Requests, ConfiguredEnvironmentHolds, Told
  <2> QED
    BY <2>3, <2>4, <2>5
<1>4. CASE /\ None \notin Touched /\ d.status = "allow"
           /\ \A o \in Touched : Classified(o).status = "resolved"
           /\ run' = [run EXCEPT !.at = IF run.job = None THEN "ready" ELSE "validate",
                                 !.execution = Freeze, !.id = None]
  <2>1. /\ DOMAIN run' = RunFields /\ run'.at \in {"ready", "validate"}
        /\ run'.execution = Freeze /\ run'.asked = run.asked
        /\ run'.base = run.base /\ run'.overlay = run.overlay
        /\ run'.job = run.job /\ run'.command = run.command
        /\ run'.conn = run.conn /\ run'.left = run.left
    BY <1>4 DEF Shapes, RunFields
  <2>2. Shapes' /\ Beginning' /\ Asked' /\ Hit' /\ Flown'
    BY <1>1, <2>1 DEF Shapes, Beginning, Asked, Hit, Flown, Users, Requests
  <2>3. Overlaid' /\ Selected'
    BY <1>1, <2>1 DEF Overlaid, Selected, Given, Users
  <2>4. Pointed' /\ Told'
    BY <1>1, <2>1 DEF Pointed, Requests, Told
  <2>5. Executing'
    <3>1. run'.at = "validate" => run.job # None
      BY <1>4 DEF Shapes, RunFields
    <3>2. Freeze.job = run.job
      BY DEF Freeze
    <3> QED
      BY <2>1, <3>1, <3>2 DEF Executing, Requests
  <2>6. ConfiguredEnvironmentHolds'
    <3>1. ASSUME NEW o \in Touched, NEW e \in run.base.entries,
                 o \in {e.pin, Identity(e.alias, run.base.rows)}
          PROVE  /\ e.env \in DOMAIN Normal /\ Classified(o).env = Normal[e.env]
                 /\ Classified(o).env = "prod" =>
                      run.command.family = "verified" /\ run.job = None
      <4>1. /\ e.env \in DOMAIN Normal /\ Classified(o).env = Normal[e.env]
            /\ Classified(o).env = "prod" => run.command.family = "verified"
        BY <1>1, <1>4, <3>1, EnvironmentsHold
      <4>2. run.command.family = "verified" => run.job = None
        BY <1>1 DEF Selected, IsJob, IsResume, JobActions
      <4> QED
        BY <4>1, <4>2
    <3>2. \A t \in Freeze.targets : \E o \in Touched :
            t = [user |-> Login(o), org |-> o, env |-> Classified(o).env]
      BY DEF Freeze
    <3>3. \A t \in Freeze.targets, e \in run.base.entries :
            t.org \in {e.pin, Identity(e.alias, run.base.rows)} =>
              /\ e.env \in DOMAIN Normal /\ t.env = Normal[e.env]
              /\ t.env = "prod" => run.command.family = "verified" /\ run.job = None
      BY <3>1, <3>2
    <3> QED
      BY <2>1, <3>3 DEF ConfiguredEnvironmentHolds
  <2> QED
    BY <2>2, <2>3, <2>4, <2>5, <2>6
<1> QED
  BY <1>2, <1>3, <1>4, Zenon DEF Assess

\* An answer leaves every login what it was under every name but its own.
LEMMA AnswerOverlays ==
  ASSUME Overlaid, run.at = "dialog", NEW o \in Orgs, NEW e,
         NEW w, w = WithAnswer(o, e)
  PROVE  /\ {"entries", "rows"} \subseteq DOMAIN w
         /\ IsFiniteSet(w.rows) /\ IsFiniteSet(w.entries)
         /\ run.overlay.entries \subseteq w.entries
         /\ \E x \in w.entries : x.pin = o
         /\ \A r \in w.rows : "aliases" \in DOMAIN r
         /\ SameLogins(w.rows, run.base.rows)
<1> PICK new : new = [alias |-> <<"native", o>>, pin |-> o, env |-> e]
  OBVIOUS
<1> DEFINE More(r) == IF r.org = o THEN [r EXCEPT !.aliases = @ \cup {<<"native", o>>}] ELSE r
<1>1. /\ {"entries", "rows"} \subseteq DOMAIN run.overlay
      /\ IsFiniteSet(run.overlay.rows) /\ IsFiniteSet(run.overlay.entries)
      /\ \A r \in run.overlay.rows : "aliases" \in DOMAIN r
      /\ SameLogins(run.overlay.rows, run.base.rows)
  BY DEF Overlaid, Underway
<1>2. /\ DOMAIN w = DOMAIN run.overlay
      /\ w.entries = run.overlay.entries \cup {new}
      /\ w.rows = {More(r) : r \in run.overlay.rows}
  BY <1>1 DEF WithAnswer
<1>3. IsFiniteSet(w.entries)
  <2>1. IsFiniteSet(run.overlay.entries \cup {new})
    BY <1>1, FS_AddElement, Zenon
  <2> QED
    BY <1>2, <2>1, Zenon
<1>4. IsFiniteSet(w.rows)
  <2> DEFINE f == [r \in run.overlay.rows |-> More(r)]
  <2>1. IsFiniteSet({f[r] : r \in DOMAIN f})
    BY <1>1, FiniteImage
  <2>2. {f[r] : r \in DOMAIN f} = {More(r) : r \in run.overlay.rows}
    OBVIOUS
  <2> QED
    BY <1>2, <2>1, <2>2
<1>5. \A r \in run.overlay.rows : SameLogin(More(r), r) /\ "aliases" \in DOMAIN More(r)
  BY <1>1, JobAssumption DEF SameLogin
<1>6. \A r, s, t : SameLogin(r, s) /\ SameLogin(s, t) => SameLogin(r, t)
  BY DEF SameLogin
<1> HIDE DEF More
<1>7. SameLogins(w.rows, run.base.rows)
  BY <1>1, <1>2, <1>5, <1>6 DEF SameLogins
<1>8. new \in w.entries /\ new.pin = o
  BY <1>2
<1> QED
  BY <1>1, <1>2, <1>3, <1>4, <1>5, <1>7, <1>8

LEMMA AnswerKeeps ==
  ASSUME IInv, Answer
  PROVE  IInv'
<1> USE DEF IInv
<1>1. /\ run.at = "dialog" /\ Underway /\ run.id \in run.asked /\ run.id \in Orgs
      /\ UNCHANGED <<world, answers, server, flight, hits>>
  BY DEF Answer, Underway, Asked
<1>2. CASE Refuse
  <2> PICK r : r = [exit |-> None]
    OBVIOUS
  <2>1. End(r) /\ r.exit # 0
    BY <1>2, JobAssumption DEF Refuse
  <2> QED
    BY <1>1, <2>1, EndStep
<1>3. ASSUME NEW e \in Environments,
             run' = [run EXCEPT !.at = "assess", !.overlay = WithAnswer(run.id, e), !.id = None]
      PROVE  IInv'
  <2> PICK w : w = WithAnswer(run.id, e)
    OBVIOUS
  <2> PICK o \in Orgs : o = run.id
    BY <1>1
  <2>1. /\ DOMAIN run' = RunFields /\ run'.at = "assess" /\ run'.asked = run.asked
        /\ run'.base = run.base /\ run'.overlay = w
        /\ run'.job = run.job /\ run'.command = run.command /\ run'.execution = run.execution
        /\ run'.conn = run.conn /\ run'.left = run.left
    BY <1>3 DEF Shapes, RunFields
  <2>2. /\ {"entries", "rows"} \subseteq DOMAIN w
        /\ IsFiniteSet(w.rows) /\ IsFiniteSet(w.entries)
        /\ run.overlay.entries \subseteq w.entries
        /\ \E x \in w.entries : x.pin = o
        /\ \A r \in w.rows : "aliases" \in DOMAIN r
        /\ SameLogins(w.rows, run.base.rows)
    BY <1>1, AnswerOverlays
  <2>3. Asked'
    BY <1>1, <2>1, <2>2 DEF Asked
  <2>4. Shapes' /\ Beginning' /\ Hit' /\ Flown'
    BY <1>1, <2>1 DEF Shapes, Beginning, Hit, Flown, Users, Requests
  <2>5. Overlaid' /\ Selected'
    BY <1>1, <2>1, <2>2 DEF Overlaid, Selected, Given, Users
  <2>6. Executing' /\ Pointed' /\ ConfiguredEnvironmentHolds' /\ Told'
    BY <1>1, <2>1 DEF Executing, Pointed, Requests, ConfiguredEnvironmentHolds, Told
  <2> QED
    BY <2>3, <2>4, <2>5, <2>6
<1> QED
  BY <1>2, <1>3 DEF Answer

LEMMA StartKeeps ==
  ASSUME IInv, Start
  PROVE  IInv'
<1> USE DEF IInv
<1>1. /\ run.at = "validate" /\ UNCHANGED <<world, answers, server, flight, hits>>
      /\ run.job # None /\ run.execution.job = run.job
  BY DEF Start, Executing
<1>2. CASE Accepted(run.execution)
  <2>1. run' = [run EXCEPT !.at = "auth", !.id = run.job.id]
    BY <1>2 DEF Start
  <2>2. /\ Carried /\ run'.at = "auth" /\ run'.id = run.job.id
        /\ run'.conn = run.conn /\ run'.left = run.left
    BY <2>1 DEF Shapes, RunFields, Carried
  <2>3. /\ run.job.options.wait \in 0 .. MaxWait
        /\ run.job.options.async => run.job.options.wait = 0
    BY <1>1, <1>2 DEF Accepted
  <2>4. Executing' /\ Pointed' /\ Flown' /\ Hit'
    BY <1>1, <2>2, <2>3 DEF Executing, Pointed, Flown, Hit, Requests, Carried
  <2> QED
    BY <1>1, <2>2, <2>4, GoOnStep DEF Requests
<1>3. CASE ~Accepted(run.execution)
  BY <1>1, <1>3, FailStep DEF Start
<1> QED
  BY <1>2, <1>3

LEMMA SendKeeps ==
  ASSUME IInv, Send
  PROVE  IInv'
<1> USE DEF IInv
<1>1. /\ run.at \in Requests /\ UNCHANGED <<world, answers, server, run>>
      /\ flight' = [kind |-> run.at, org |-> run.conn, id |-> run.id, answer |-> None]
  BY DEF Send
<1>2. Flown'
  BY <1>1 DEF Flown
<1>3. Hit'
  <2>1. \A h \in hits' \ hits :
          /\ run.at \in {"mutate", "resume"}
          /\ h = [kind |-> run.job.action, org |-> run.conn, id |-> run.id]
    BY DEF Send
  <2>2. ASSUME run.at \in {"mutate", "resume"}
        PROVE  /\ run.conn = run.job.org /\ run.id = run.job.id
               /\ run.job.org \in Orgs /\ run.job.id \in Jobs
               /\ run.job.action = "quick" =>
                    server[run.job.id] # None /\ server[run.job.id].validation = TRUE
    <3>1. run.job # None /\ Underway
      BY <2>2 DEF Executing, Requests, Underway
    <3>2. run.job.org \in Orgs /\ run.job.id \in Jobs
      BY <3>1 DEF Selected
    <3>3. run.conn = run.job.org /\ run.id = run.job.id
      BY <2>2 DEF Pointed, Requests
    <3>4. CASE run.at = "mutate"
      BY <3>2, <3>3, <3>4 DEF Pointed
    <3>5. CASE run.at = "resume"
      BY <3>1, <3>2, <3>3, <3>5 DEF Pointed, Selected, JobActions
    <3> QED
      BY <2>2, <3>4, <3>5
  <2>3. ASSUME NEW h \in hits'
        PROVE  /\ h.org \in Orgs /\ h.id \in Jobs
               /\ h.org = run.job.org /\ h.id = run.job.id
               /\ h.kind = "quick" => server[h.id] # None /\ server[h.id].validation = TRUE
    <3>1. CASE h \in hits
      BY <3>1 DEF Hit
    <3>2. CASE h \notin hits
      <4>1. /\ run.at \in {"mutate", "resume"}
            /\ h.kind = run.job.action /\ h.org = run.conn /\ h.id = run.id
        BY <2>1, <3>2
      <4> QED
        BY <2>2, <4>1
    <3> QED
      BY <3>1, <3>2
  <2> QED
    BY <1>1, <2>3 DEF Hit
<1>4. Carried /\ run'.at \in Requests
  BY <1>1 DEF Carried, Shapes
<1>5. Executing' /\ Pointed'
  BY <1>1 DEF Executing, Pointed
<1> QED
  BY <1>1, <1>2, <1>3, <1>4, <1>5, GoOnStep

\* What holds when an answer arrives that is no error.
LEMMA AnswerArrives ==
  ASSUME IInv, run.at \in Requests, flight # None, flight.answer \notin {None, Error}
  PROVE  /\ run.job # None /\ run.job.org \in Orgs /\ run.job.id \in Jobs
         /\ run.job.options.wait \in 0 .. MaxWait
         /\ run.job.options.async => run.job.options.wait = 0
         /\ run.job.action \in JobActions => run.job.family # "sandbox"
         /\ run.at = "auth" => flight.answer.answers \in Orgs
         /\ run.at = "live" => flight.answer = run.conn
         /\ run.at = "mutate" => flight.answer \in Jobs
         /\ run.at \in {"check", "status"} =>
              /\ server[run.id] # None
              /\ flight.answer.validation = server[run.id].validation
              /\ flight.answer.status \in Final => server[run.id].status = flight.answer.status
              /\ flight.answer.done \in BOOLEAN
              /\ flight.answer.done => server[run.id].done
<1>1. Underway /\ run.job # None
  BY DEF IInv, Executing, Requests, Underway
<1>2. /\ run.job.org \in Orgs /\ run.job.id \in Jobs
      /\ run.job.options.wait \in 0 .. MaxWait
      /\ run.job.options.async => run.job.options.wait = 0
      /\ run.job.action \in JobActions => run.job.family # "sandbox"
  BY <1>1 DEF IInv, Selected, Executing
<1>3. run.at # "done"
  BY DEF Requests
<1> QED
  BY <1>1, <1>2, <1>3 DEF IInv, Flown

LEMMA IdentityReceived ==
  ASSUME IInv, ReceiveAuth \/ ReceiveConnection \/ ReceiveLive \/ ReceiveCheck
  PROVE  IInv'
<1> USE DEF Receive
<1>1. /\ run.at \in {"auth", "connect", "live", "check"} /\ run.at \in Requests
      /\ run.at # "done" /\ flight # None /\ flight.answer # None /\ flight' = None
      /\ UNCHANGED <<world, answers, server, hits>>
  BY DEF ReceiveAuth, ReceiveConnection, ReceiveLive, ReceiveCheck, Requests
<1>2. ASSUME End([exit |-> 1]) PROVE IInv'
  BY <1>1, <1>2, FailStep
<1>3. CASE flight.answer = Error
  BY <1>2, <1>3 DEF ReceiveAuth, ReceiveConnection, ReceiveLive, ReceiveCheck
<1>4. CASE flight.answer # Error
  <2>1. /\ run.job.org \in Orgs /\ run.job.id \in Jobs /\ run.job.options.wait \in 0 .. MaxWait
        /\ run.at = "auth" => flight.answer.answers \in Orgs
        /\ run.at = "live" => flight.answer = run.conn
        /\ run.at = "check" => /\ server[run.id] # None
                               /\ flight.answer.validation = server[run.id].validation
    BY <1>1, <1>4, AnswerArrives
  <2>2. run.id = run.job.id
    BY <1>1 DEF IInv, Pointed
  <2>3. ASSUME NEW at \in Requests, Goto(at) PROVE /\ Carried /\ run'.at = at
                                                   /\ run'.id = run.id /\ run'.conn = run.conn
                                                   /\ run'.left = run.left
    BY <2>3 DEF Goto, IInv, Shapes, RunFields, Carried
  <2>4. CASE ReceiveAuth
    <3>1. CASE flight.answer.claims = run.job.org
      <4>1. run' = [run EXCEPT !.at = "connect", !.conn = flight.answer.answers]
        BY <1>4, <2>4, <3>1 DEF ReceiveAuth
      <4>2. /\ Carried /\ run'.at = "connect" /\ run'.conn \in Orgs /\ run'.id = run.job.id
            /\ run'.left = run.left
        BY <2>1, <2>2, <2>4, <4>1 DEF ReceiveAuth, IInv, Shapes, RunFields, Carried
      <4>3. Pointed'
        BY <4>2 DEF IInv, Pointed, Carried
      <4> QED
        BY <1>1, <4>2, <4>3, NextRequest DEF Requests
    <3>2. CASE flight.answer.claims # run.job.org
      BY <1>2, <1>4, <2>4, <3>2 DEF ReceiveAuth
    <3> QED
      BY <3>1, <3>2
  <2>5. CASE ReceiveConnection
    <3>1. Goto("live") /\ run.at = "connect" /\ "live" \in Requests
      BY <1>4, <2>5 DEF ReceiveConnection, Requests
    <3>2. Pointed'
      BY <2>2, <2>3, <3>1 DEF IInv, Pointed, Carried
    <3> QED
      BY <1>1, <2>3, <3>1, <3>2, NextRequest
  <2>6. CASE ReceiveLive
    <3>1. run.at = "live" /\ First
      BY <1>4, <2>6 DEF ReceiveLive
    <3>2. CASE flight.answer # run.job.org
      BY <1>2, <3>1, <3>2 DEF First
    <3>3. CASE flight.answer = run.job.org
      <4>1. run.conn = run.job.org
        BY <2>1, <3>1, <3>3
      <4>2. \/ Goto("org") /\ run.job.family = "sandbox"
            \/ Goto("check") /\ run.job.action = "quick"
            \/ Goto("mutate") /\ run.job.action = "cancel"
            \/ Polling /\ run.job.family # "sandbox"
        BY <3>1, <3>3 DEF First
      <4>3. ASSUME NEW at \in {"org", "check", "mutate"}, Goto(at),
                   at = "mutate" => run.job.action = "cancel",
                   at = "check" => run.job.action = "quick",
                   at = "org" => run.job.family = "sandbox"
            PROVE  IInv'
        <5>1. at \in Requests
          BY DEF Requests
        <5>2. Pointed'
          BY <2>2, <2>3, <4>1, <4>3, <5>1 DEF IInv, Pointed, Carried
        <5> QED
          BY <1>1, <2>3, <4>3, <5>1, <5>2, NextRequest
      <4>4. ASSUME Polling, run.job.family # "sandbox" PROVE IInv'
        <5>1. /\ Carried /\ run'.at = "status" /\ run'.id = run.job.id /\ run'.conn = run.conn
              /\ run'.left \in 0 .. MaxWait
          BY <2>1, <2>2, <4>4 DEF Polling, IInv, Shapes, RunFields, Carried
        <5>2. Pointed'
          BY <2>1, <4>1, <4>4, <5>1 DEF IInv, Pointed, Carried
        <5> QED
          BY <1>1, <5>1, <5>2, NextRequest DEF Requests
      <4> QED
        BY <4>2, <4>3, <4>4
    <3> QED
      BY <3>2, <3>3
  <2>7. CASE ReceiveCheck
    <3>1. run.at = "check"
      BY <2>7 DEF ReceiveCheck
    <3>2. \/ Goto("mutate") /\ flight.answer.validation
          \/ End([exit |-> 1])
      BY <1>4, <2>7 DEF ReceiveCheck
    <3>3. CASE Goto("mutate") /\ flight.answer.validation
      <4>1. server[run.job.id] # None /\ server[run.job.id].validation = TRUE
        BY <2>1, <2>2, <3>1, <3>3, JobAssumption DEF IInv, Shapes
      <4>2. "mutate" \in Requests
        BY DEF Requests
      <4>3. run.conn = run.job.org /\ run.job.action = "quick"
        BY <3>1 DEF IInv, Pointed
      <4>4. Pointed'
        BY <1>1, <2>2, <2>3, <3>1, <3>3, <4>1, <4>2, <4>3 DEF IInv, Pointed, Carried
      <4> QED
        BY <1>1, <2>3, <3>3, <4>2, <4>4, NextRequest
    <3> QED
      BY <1>2, <3>2, <3>3
  <2> QED
    BY <2>4, <2>5, <2>6, <2>7
<1> QED
  BY <1>3, <1>4

LEMMA ResultReceived ==
  ASSUME IInv, ReceiveMutation \/ ReceiveStatus \/ ReceiveOrg \/ ReceiveSandbox
  PROVE  IInv'
<1> USE DEF Receive
<1>1. /\ run.at \in {"mutate", "status", "org", "resume"} /\ run.at \in Requests
      /\ run.at # "done" /\ flight # None /\ flight.answer # None /\ flight' = None
      /\ UNCHANGED <<world, answers, server, hits>>
  BY DEF ReceiveMutation, ReceiveStatus, ReceiveOrg, ReceiveSandbox, Requests
<1>2. CASE flight.answer = Error
  <2>1. End([exit |-> 1])
    BY <1>2 DEF ReceiveMutation, ReceiveStatus, ReceiveOrg, ReceiveSandbox
  <2> QED
    BY <1>1, <2>1, FailStep
<1>3. CASE flight.answer # Error
  <2>1. /\ run.job.options.wait \in 0 .. MaxWait
        /\ run.job.options.async => run.job.options.wait = 0
        /\ run.job.action \in JobActions => run.job.family # "sandbox"
        /\ run.at = "mutate" => flight.answer \in Jobs
        /\ run.job.id \in Jobs
        /\ run.at = "status" =>
             /\ server[run.id] # None
             /\ flight.answer.status \in Final => server[run.id].status = flight.answer.status
             /\ flight.answer.done \in BOOLEAN
             /\ flight.answer.done => server[run.id].done
    BY <1>1, <1>3, AnswerArrives
  <2>2. /\ run.conn = run.job.org
        /\ \/ run.id = run.job.id
           \/ run.at = "status" /\ run.id \in Jobs /\ run.job.family # "sandbox"
    BY <1>1 DEF IInv, Pointed
  <2>3. ASSUME NEW r, End(r),
               r.exit = 0 /\ run.job.family = "deploy" /\ run.job.options.wait > 0 =>
                 Became(r.status)
        PROVE  IInv'
    <3>1. /\ run'.at = "done" /\ run'.result = r /\ run'.job = run.job /\ run'.id = run.id
      BY <2>3 DEF End, IInv, Shapes, RunFields
    <3>2. r.exit = 0 => Told'
      BY <1>1, <2>3, <3>1 DEF Told, Became, Wanted
    <3> QED
      BY <1>1, <2>3, <3>2, EndStep
  <2>4. ASSUME Goto("sleep"), run.left > 0 PROVE IInv'
    <3>1. /\ Carried /\ run'.at = "sleep" /\ run'.id = run.id /\ run'.conn = run.conn
          /\ run'.left = run.left
      BY <2>4 DEF Goto, IInv, Shapes, RunFields, Carried
    <3>2. Pointed'
      BY <2>2, <2>4, <3>1 DEF IInv, Pointed, Carried
    <3> QED
      BY <1>1, <3>1, <3>2, NextRequest
  <2>5. CASE ReceiveMutation
    <3>1. run.at = "mutate" /\ run.job.action \in {"quick", "cancel"}
      BY <2>5 DEF ReceiveMutation, IInv, Pointed
    <3>2. CASE run.job.options.async
      <4> PICK r : r = [exit |-> 0, status |-> IF run.job.action = "quick" THEN "Pending"
                                               ELSE "Canceling"]
        OBVIOUS
      <4>1. End(r)
        BY <1>3, <2>5, <3>2 DEF ReceiveMutation
      <4> QED
        BY <2>1, <2>3, <3>2, <4>1
    <3>3. CASE ~run.job.options.async
      <4>1. run' = [run EXCEPT !.at = "status", !.left = run.job.options.wait,
                               !.id = flight.answer]
        BY <1>3, <2>5, <3>3 DEF ReceiveMutation
      <4>2. /\ Carried /\ run'.at = "status" /\ run'.id \in Jobs /\ run'.conn = run.conn
            /\ run'.left \in 0 .. MaxWait
        BY <2>1, <3>1, <4>1 DEF IInv, Shapes, RunFields, Carried
      <4>3. Pointed'
        BY <2>1, <2>2, <3>1, <4>2 DEF IInv, Pointed, Carried, JobActions
      <4> QED
        BY <1>1, <4>2, <4>3, NextRequest DEF Requests
    <3> QED
      BY <3>2, <3>3
  <2>6. CASE ReceiveStatus
    <3> DEFINE status == flight.answer.status
               open == status \notin Final /\ ~flight.answer.done
               late == open /\ run.job.options.wait > 0
    <3>1. run.at = "status" /\ AfterStatus(status, flight.answer.done)
      BY <1>3, <2>6 DEF ReceiveStatus
    <3>2. CASE open /\ run.left > 0
      BY <2>4, <3>1, <3>2 DEF AfterStatus
    <3>3. CASE ~(open /\ run.left > 0)
      <4> PICK r : r = [exit |-> IF Unsuccessful(status, late) THEN 1 ELSE 0, status |-> status]
        OBVIOUS
      <4>1. End(r)
        BY <3>1, <3>3 DEF AfterStatus, Report
      <4>2. ASSUME r.exit = 0, run.job.options.wait > 0 PROVE Became(r.status)
        <5>1. ~Unsuccessful(status, late) /\ r.status = status
          BY <4>2
        <5>2. ~open
          BY <4>2, <5>1 DEF Unsuccessful
        <5>3. run.id \in Jobs /\ server[run.id] # None
          BY <2>1, <2>2, <3>1
        <5>4. CASE status \in Final
          <6>1. server[run.id].status = status
            BY <2>1, <3>1, <5>4
          <6> QED
            BY <5>1, <5>3, <5>4, <6>1 DEF Became, Wanted, Unsuccessful, Final
        <5>5. CASE status \notin Final
          BY <2>1, <3>1, <5>1, <5>2, <5>3, <5>5 DEF Became
        <5> QED
          BY <5>4, <5>5
      <4> QED
        BY <2>3, <4>1, <4>2
    <3> QED
      BY <3>2, <3>3
  <2>7. CASE ReceiveOrg
    <3>1. run.at = "org" /\ run' = [run EXCEPT !.at = "resume", !.left = run.job.options.wait]
      BY <1>3, <2>7 DEF ReceiveOrg
    <3>2. /\ Carried /\ run'.at = "resume" /\ run'.id = run.id /\ run'.conn = run.conn
          /\ run'.left \in 0 .. MaxWait
      BY <2>1, <3>1 DEF IInv, Shapes, RunFields, Carried
    <3>3. Pointed'
      BY <2>2, <3>1, <3>2 DEF IInv, Pointed, Carried
    <3> QED
      BY <1>1, <3>2, <3>3, NextRequest DEF Requests
  <2>8. CASE ReceiveSandbox
    <3>1. run.at = "resume" /\ run.job.family = "sandbox"
      BY <2>8 DEF ReceiveSandbox, IInv, Pointed
    <3>2. \/ \E r : End(r)
          \/ Goto("sleep") /\ run.left > 0
      BY <1>3, <2>8 DEF ReceiveSandbox
    <3> QED
      BY <2>3, <2>4, <3>1, <3>2
  <2> QED
    BY <2>5, <2>6, <2>7, <2>8
<1> QED
  BY <1>2, <1>3

LEMMA TimersKeep ==
  ASSUME IInv, RequestTimer \/ Terminate \/ Wake \/ Tick
  PROVE  IInv'
<1>1. UNCHANGED <<world, answers, server, flight, hits>>
  BY DEF RequestTimer, Terminate, Wake, Tick
<1>2. CASE RequestTimer \/ Terminate
  <2>1. run.at # "done" /\ \E n \in {1, 2} : End([exit |-> n])
    BY <1>2 DEF RequestTimer, Terminate, Active, Requests
  <2> QED
    BY <1>1, <2>1, FailStep
<1>3. CASE Wake \/ Tick
  <2>1. /\ Carried /\ run'.id = run.id /\ run'.conn = run.conn
        /\ run'.left = run.left - 1
        /\ \/ run.at \in {"status", "resume"} /\ run'.at = run.at
           \/ run.at = "sleep"
              /\ run'.at = IF run.job.family = "sandbox" THEN "resume" ELSE "status"
        /\ run.left > 0
    BY <1>3 DEF Wake, Tick, IInv, Shapes, Pointed, RunFields, Carried
  <2>2. run.at \in Requests \cup {"sleep"} /\ run'.at \in Requests
    BY <2>1 DEF Requests
  <2>3. run'.left \in 0 .. MaxWait
    BY <2>1, JobAssumption DEF IInv, Pointed
  <2>4. Pointed'
    BY <1>1, <2>1, <2>2, <2>3 DEF IInv, Pointed, Carried
  <2>5. Executing' /\ Hit'
    BY <1>1, <2>1, <2>2 DEF IInv, Executing, Hit, Carried, Requests
  <2>6. Flown'
    <3>1. CASE run.at = "sleep"
      BY <1>1, <3>1 DEF IInv, Flown, Requests
    <3>2. CASE run.at # "sleep"
      BY <1>1, <2>1, <2>2, <3>2 DEF IInv, Flown, Requests
    <3> QED
      BY <3>1, <3>2
  <2> QED
    BY <1>1, <2>1, <2>2, <2>4, <2>5, <2>6, GoOnStep
<1> QED
  BY <1>2, <1>3

\* A job goes on: it stays in its org, a validation or not, and what is final
\* or done stays so.
Later(s, t) ==
  /\ t # None /\ t.validation = s.validation
  /\ s.status \in Final => t.status = s.status
  /\ s.done => t.done

LEMMA ServerStep ==
  ASSUME IInv, UNCHANGED <<world, answers, run, hits>>,
         server' = [j \in Jobs |-> server'[j]],
         \A j \in Jobs : server'[j] # None =>
           /\ DOMAIN server'[j] = JobFields
           /\ server'[j].org \in Orgs /\ server'[j].status \in Statuses
           /\ server'[j].validation \in BOOLEAN \cup {None} /\ server'[j].done \in BOOLEAN /\ server'[j].done \in BOOLEAN /\ server'[j].done \in BOOLEAN,
         \A j \in Jobs : server[j] # None => Later(server[j], server'[j]),
         Flown', run.at = "idle" => flight' = None
  PROVE  IInv'
<1> USE DEF IInv
<1>1. Shapes' /\ Beginning' /\ Asked'
  BY DEF Shapes, Beginning, Asked, Users
<1>2. Overlaid' /\ Selected'
  BY DEF Overlaid, Selected, Given, Underway, Users
<1>3. Executing' /\ ConfiguredEnvironmentHolds'
  BY DEF Executing, ConfiguredEnvironmentHolds
<1>4. Hit' /\ Told'
  BY DEF Hit, Told, Became, Wanted, Later, Final
<1>5. Pointed'
  <2>1. ASSUME run.at = "mutate", run.job.action = "quick"
        PROVE  server'[run.job.id] # None /\ server'[run.job.id].validation = TRUE
    <3>1. run.job.id \in Jobs
      BY <2>1 DEF Executing, Selected, Underway, Requests
    <3>2. server[run.job.id] # None /\ server[run.job.id].validation = TRUE
      BY <2>1 DEF Pointed
    <3> QED
      BY <3>1, <3>2 DEF Later
  <2> QED
    BY <2>1 DEF Pointed
<1> QED
  BY <1>1, <1>2, <1>3, <1>4, <1>5

LEMMA ServedReads ==
  ASSUME IInv, RequestFails \/ ServeRead \/ ServeResume
  PROVE  IInv'
<1> USE DEF IInv
<1>1. PICK answer : /\ flight # None /\ flight.answer = None
                    /\ flight' = [flight EXCEPT !.answer = answer]
                    /\ UNCHANGED <<world, answers, run, hits, server>>
                    /\ \/ answer = Error
                       \/ flight.kind = "resume"
                       \/ ServeRead /\ answer =
                            (CASE flight.kind = "auth" ->
                                    IF run.at = "auth"
                                      THEN [claims |-> ClaimOf(run.job.user),
                                            answers |-> answers[run.job.user]]
                                      ELSE Error
                               [] flight.kind = "live" -> flight.org
                               [] flight.kind \in {"check", "status"} ->
                                    IF Exists THEN server[flight.id] ELSE Error
                               [] OTHER -> "done")
  BY Zenon DEF RequestFails, ServeRead, ServeResume, Serves
<1>2. Flown'
  <2> SUFFICES ASSUME run.at # "done" PROVE Flown'
    BY <1>1 DEF Flown
  <2>1. /\ DOMAIN flight = {"kind", "org", "id", "answer"} /\ flight.kind = run.at
        /\ flight.org = run.conn /\ flight.id = run.id /\ run.at \in Requests
    BY <1>1 DEF Flown
  <2>2. /\ DOMAIN flight' = {"kind", "org", "id", "answer"} /\ flight'.kind = run.at
        /\ flight'.org = run.conn /\ flight'.id = run.id /\ flight'.answer = answer
    BY <1>1, <2>1
  <2>3. ASSUME answer \notin {None, Error}
        PROVE  /\ run.at = "auth" => answer.answers \in Orgs
               /\ run.at = "live" => answer = flight.org
               /\ run.at # "mutate"
               /\ run.at \in {"check", "status"} => flight.id \in Jobs /\ server[flight.id] # None
                                                     /\ answer = server[flight.id]
    <3>1. CASE run.at = "auth"
      <4>1. run.job.user \in Users(world)
        BY <2>1, <3>1 DEF Executing, Selected, Overlaid, Underway
      <4>2. answer = [claims |-> ClaimOf(run.job.user), answers |-> answers[run.job.user]]
        BY <1>1, <2>1, <2>3, <3>1
      <4> QED
        BY <3>1, <4>1, <4>2 DEF Shapes
    <3>2. CASE run.at # "auth"
      BY <1>1, <2>1, <2>3, <3>2 DEF ServeRead, Exists
    <3> QED
      BY <3>1, <3>2
  <2>4. run.at \in {"check", "status"} /\ answer \notin {None, Error} => answer.done \in BOOLEAN
    BY <2>3 DEF Shapes
  <2> QED
    BY <1>1, <2>1, <2>2, <2>3, <2>4 DEF Flown
<1>3. \A j \in Jobs : server[j] # None => Later(server[j], server[j])
  BY DEF Later
<1>4. run.at # "idle"
  BY <1>1 DEF Beginning
<1> QED
  BY <1>1, <1>2, <1>3, <1>4, ServerStep DEF Shapes

LEMMA ServerRecord ==
  ASSUME NEW o \in Orgs, NEW st \in Statuses, NEW v \in BOOLEAN \cup {None}, NEW d \in BOOLEAN
  PROVE  [org |-> o, status |-> st, validation |-> v, done |-> d] # None
<1>1. [org |-> o, status |-> st, validation |-> v, done |-> d] \in ServerJobs
  BY Zenon DEF ServerJobs
<1> QED
  BY <1>1, JobAssumption

LEMMA ServedMutations ==
  ASSUME IInv, ServeCancel \/ ServeQuick
  PROVE  IInv'
<1> USE DEF IInv
<1>1. PICK answer \in Jobs : /\ flight # None /\ flight.answer = None
                             /\ flight.kind = "mutate"
                             /\ flight' = [flight EXCEPT !.answer = answer]
                             /\ UNCHANGED <<world, answers, run, hits>>
  BY DEF ServeCancel, ServeQuick, Serves, Exists
<1>2. Flown'
  <2> SUFFICES ASSUME run.at # "done" PROVE Flown'
    BY <1>1 DEF Flown
  <2>1. /\ DOMAIN flight = {"kind", "org", "id", "answer"} /\ flight.kind = run.at
        /\ flight.org = run.conn /\ flight.id = run.id /\ run.at \in Requests
    BY <1>1 DEF Flown
  <2>2. /\ DOMAIN flight' = {"kind", "org", "id", "answer"} /\ flight'.kind = run.at
        /\ flight'.org = run.conn /\ flight'.id = run.id /\ flight'.answer = answer
    BY <1>1, <2>1
  <2> QED
    BY <1>1, <2>1, <2>2 DEF Flown
<1>3. run.at # "idle"
  BY <1>1 DEF Beginning
<1>4. CASE ServeCancel
  <2>1. /\ flight.id \in Jobs /\ server[flight.id] # None
        /\ server[flight.id].status \in {"Pending", "InProgress"}
        /\ server' = [server EXCEPT ![flight.id] = [@ EXCEPT !.status = "Canceling"]]
    BY <1>4 DEF ServeCancel, Exists
  <2> DEFINE s == [org |-> server[flight.id].org, status |-> "Canceling",
                   validation |-> server[flight.id].validation, done |-> server[flight.id].done]
  <2>2. [server[flight.id] EXCEPT !.status = "Canceling"] = s
    BY <2>1 DEF Shapes, JobFields
  <2>3. /\ s.org \in Orgs /\ s.status \in Statuses /\ s.validation \in BOOLEAN \cup {None}
        /\ s.done \in BOOLEAN
        /\ s # None
    BY <2>1, ServerRecord DEF Shapes, Statuses
  <2>4. server' = [j \in Jobs |-> IF j = flight.id THEN s ELSE server[j]]
    BY <2>1, <2>2 DEF Shapes
  <2>5. \A j \in Jobs : server[j] # None => Later(server[j], server'[j])
    BY <2>1, <2>3, <2>4 DEF Later, Final
  <2>6. \A j \in Jobs : server'[j] # None =>
          /\ DOMAIN server'[j] = JobFields
          /\ server'[j].org \in Orgs /\ server'[j].status \in Statuses
          /\ server'[j].validation \in BOOLEAN \cup {None} /\ server'[j].done \in BOOLEAN /\ server'[j].done \in BOOLEAN
    BY <2>3, <2>4 DEF Shapes, JobFields
  <2>7. server' = [j \in Jobs |-> server'[j]]
    BY <2>4
  <2> QED
    BY <1>1, <1>2, <1>3, <2>5, <2>6, <2>7, ServerStep
<1>5. CASE ServeQuick
  <2>1. PICK k \in Jobs :
          /\ server[k] = None
          /\ server' = [server EXCEPT ![k] = [org |-> flight.org, status |-> "Pending",
                                              validation |-> FALSE, done |-> FALSE]]
    BY <1>5 DEF ServeQuick
  <2>2. flight.org \in Orgs
    BY <1>5 DEF ServeQuick, Exists, Shapes
  <2> DEFINE s == [org |-> flight.org, status |-> "Pending", validation |-> FALSE,
                   done |-> FALSE]
  <2>3. /\ s.org \in Orgs /\ s.status \in Statuses /\ s.validation \in BOOLEAN \cup {None}
        /\ s.done \in BOOLEAN
        /\ s # None
    BY <2>2, ServerRecord DEF Statuses
  <2>4. server' = [j \in Jobs |-> IF j = k THEN s ELSE server[j]]
    BY <2>1 DEF Shapes
  <2>5. \A j \in Jobs : server[j] # None => Later(server[j], server'[j])
    BY <2>1, <2>4 DEF Later
  <2>6. \A j \in Jobs : server'[j] # None =>
          /\ DOMAIN server'[j] = JobFields
          /\ server'[j].org \in Orgs /\ server'[j].status \in Statuses
          /\ server'[j].validation \in BOOLEAN \cup {None} /\ server'[j].done \in BOOLEAN /\ server'[j].done \in BOOLEAN
    BY <2>3, <2>4 DEF Shapes, JobFields
  <2>7. server' = [j \in Jobs |-> server'[j]]
    BY <2>4
  <2> QED
    BY <1>1, <1>2, <1>3, <2>5, <2>6, <2>7, ServerStep
<1> QED
  BY <1>4, <1>5

LEMMA ProgressKeeps ==
  ASSUME IInv, NEW j \in Jobs, Progress(j)
  PROVE  IInv'
<1> USE DEF IInv
<1>1. PICK next \in Statuses, done \in BOOLEAN :
        /\ run.at \notin {"idle", "done"} /\ server[j] # None /\ ~server[j].done
        /\ server[j].status \in Final => next = server[j].status
        /\ server' = [server EXCEPT ![j] = [@ EXCEPT !.status = next, !.done = done]]
        /\ UNCHANGED <<world, answers, run, flight, hits>>
  <2>1. /\ run.at \notin {"idle", "done"} /\ server[j] # None /\ ~server[j].done
        /\ server[j].status \in Statuses /\ server[j].done = FALSE
        /\ DOMAIN server[j] = JobFields
        /\ UNCHANGED <<world, answers, run, flight, hits>>
    BY DEF Progress, Active, Requests, Shapes
  <2>2. CASE server[j].validation = None
    <3>1. /\ server[j].status = "Pending"
          /\ server' = [server EXCEPT ![j] = [server[j] EXCEPT !.status = "Complete"]]
      BY <2>2 DEF Progress
    <3>2. [server[j] EXCEPT !.status = "Complete"]
            = [server[j] EXCEPT !.status = "Complete", !.done = FALSE]
      BY <2>1 DEF JobFields
    <3>3. server' = [server EXCEPT ![j] = [server[j] EXCEPT !.status = "Complete", !.done = FALSE]]
      BY <3>1, <3>2, Zenon
    <3>4. "Complete" \in Statuses /\ "Pending" \notin Final
      BY DEF Statuses, Final
    <3> QED
      BY <2>1, <3>1, <3>3, <3>4
  <2>3. CASE server[j].validation # None
    <3>1. PICK next \in Becomes(server[j].status) \cup {server[j].status}, done \in BOOLEAN :
            server' = [server EXCEPT ![j] = [@ EXCEPT !.status = next, !.done = done]]
      BY <2>3 DEF Progress
    <3>2. /\ next \in Statuses
          /\ server[j].status \in Final => next = server[j].status
      BY <2>1, <3>1 DEF Becomes, Statuses, Final, Finalizing
    <3> QED
      BY <2>1, <3>1, <3>2
  <2> QED
    BY <2>2, <2>3
<1> DEFINE s == [org |-> server[j].org, status |-> next, validation |-> server[j].validation,
                 done |-> done]
<1>2. [server[j] EXCEPT !.status = next, !.done = done] = s
  <2> DEFINE t == [org |-> server[j].org, status |-> next, validation |-> server[j].validation,
                   done |-> server[j].done]
  <2>1. [server[j] EXCEPT !.status = next] = t
    BY <1>1 DEF Shapes, JobFields
  <2>2. [t EXCEPT !.done = done] = s
    OBVIOUS
  <2>3. [server[j] EXCEPT !.status = next, !.done = done] = [[server[j] EXCEPT !.status = next] EXCEPT !.done = done]
    OBVIOUS
  <2> QED
    BY <2>1, <2>2, <2>3
<1>3. /\ s.org \in Orgs /\ s.status \in Statuses /\ s.validation \in BOOLEAN \cup {None}
      /\ s.done \in BOOLEAN
      /\ s # None
  BY <1>1, ServerRecord DEF Shapes
<1>4. server' = [k \in Jobs |-> IF k = j THEN s ELSE server[k]]
  BY <1>1, <1>2 DEF Shapes
<1>5. \A k \in Jobs : server[k] # None => Later(server[k], server'[k])
  BY <1>1, <1>3, <1>4 DEF Later
<1>6. \A k \in Jobs : server'[k] # None =>
        /\ DOMAIN server'[k] = JobFields
        /\ server'[k].org \in Orgs /\ server'[k].status \in Statuses
        /\ server'[k].validation \in BOOLEAN \cup {None} /\ server'[k].done \in BOOLEAN
  BY <1>3, <1>4 DEF Shapes, JobFields
<1>7. server' = [k \in Jobs |-> server'[k]]
  BY <1>4
<1>8. Flown'
  <2>1. flight # None /\ flight.kind \in {"check", "status"} => flight.id \in Jobs
    BY <1>1 DEF Flown, Pointed, Selected, Executing, Underway, Requests
  <2> QED
    BY <1>1, <1>5, <2>1 DEF Flown, Later
<1> QED
  BY <1>1, <1>5, <1>6, <1>7, <1>8, ServerStep

LEMMA WorldStep ==
  ASSUME IInv, run.at # "idle", UNCHANGED <<server, run, flight, hits>>,
         Users(world)' = Users(world), answers' \in [Users(world) -> Orgs],
         "rows" \in DOMAIN world', \A r \in world'.rows : "user" \in DOMAIN r
  PROVE  IInv'
<1> USE DEF IInv
<1>1. Shapes' /\ Beginning' /\ Asked'
  BY DEF Shapes, Beginning, Asked
<1>2. Overlaid' /\ Selected'
  BY DEF Overlaid, Selected, Given, Underway, Users
<1>3. Executing' /\ ConfiguredEnvironmentHolds' /\ Pointed'
  BY DEF Executing, ConfiguredEnvironmentHolds, Pointed
<1>4. Hit' /\ Told' /\ Flown'
  BY DEF Hit, Told, Became, Wanted, Flown
<1> QED
  BY <1>1, <1>2, <1>3, <1>4

LEMMA ChangesKeep ==
  ASSUME IInv, FilesChange \/ \E u \in Users(world) : LoginChanges(u)
  PROVE  IInv'
<1>1. CASE FilesChange
  <2>1. /\ run.at # "idle" /\ UNCHANGED <<answers, server, run, flight, hits>>
        /\ \E w \in Worlds : \/ world' = [world EXCEPT !.cache = w.cache]
                            \/ world' = [world EXCEPT !.entries = w.entries]
    BY <1>1 DEF FilesChange
  <2>2. "rows" \in DOMAIN world' /\ world'.rows = world.rows
    BY <2>1 DEF IInv, Shapes
  <2>3. Users(world)' = Users(world)
    BY <2>2 DEF Users
  <2> QED
    BY <2>1, <2>2, <2>3, WorldStep DEF IInv, Shapes
<1>2. ASSUME NEW u \in Users(world), LoginChanges(u) PROVE IInv'
  <2>1. PICK o \in Orgs :
          /\ answers' = [answers EXCEPT ![u] = o]
          /\ \/ world' = [world EXCEPT !.rows =
                            {IF r.user = u THEN [r EXCEPT !.org = o] ELSE r : r \in @}]
             \/ world' = world
    BY <1>2 DEF LoginChanges
  <2>2. run.at # "idle" /\ UNCHANGED <<server, run, flight, hits>>
    BY <1>2 DEF LoginChanges, Active, Requests
  <2>3. answers' \in [Users(world) -> Orgs]
    BY <2>1 DEF IInv, Shapes
  <2> DEFINE moved(r) == IF r.user = u THEN [r EXCEPT !.org = o] ELSE r
  <2>4. \A r \in world.rows : "user" \in DOMAIN moved(r) /\ moved(r).user = r.user
    BY DEF IInv, Shapes
  <2>5. /\ "rows" \in DOMAIN world'
        /\ \/ world'.rows = {moved(r) : r \in world.rows}
           \/ world'.rows = world.rows
    BY <2>1 DEF IInv, Shapes
  <2> HIDE DEF moved
  <2>6. Users(world)' = Users(world)
    BY <2>4, <2>5 DEF Users
  <2>7. \A r \in world'.rows : "user" \in DOMAIN r
    BY <2>4, <2>5 DEF IInv, Shapes
  <2> QED
    BY <2>2, <2>3, <2>5, <2>6, <2>7, WorldStep
<1> QED
  BY <1>1, <1>2

LEMMA JobNext ==
  IInv /\ [Next]_vars => IInv'
<1> SUFFICES ASSUME IInv, [Next]_vars PROVE IInv'
  OBVIOUS
<1>1. ASSUME NEW c \in Commands, Begin(c) PROVE IInv'
  BY <1>1, BeginKeeps
<1>2. CASE Assess
  BY <1>2, AssessKeeps
<1>3. CASE Answer
  BY <1>3, AnswerKeeps
<1>4. CASE Executor
  <2>1. CASE Start
    BY <2>1, StartKeeps
  <2>2. CASE Send
    BY <2>2, SendKeeps
  <2>3. CASE RequestTimer \/ Wake
    BY <2>3, TimersKeep
  <2>4. CASE ReceiveAuth \/ ReceiveConnection \/ ReceiveLive \/ ReceiveCheck
    BY <2>4, IdentityReceived
  <2>5. CASE ReceiveMutation \/ ReceiveStatus \/ ReceiveOrg \/ ReceiveSandbox
    BY <2>5, ResultReceived
  <2> QED
    BY <1>4, <2>1, <2>2, <2>3, <2>4, <2>5 DEF Executor
<1>5. CASE Terminate \/ Tick
  BY <1>5, TimersKeep
<1>6. CASE RequestFails \/ ServeRead \/ ServeResume
  BY <1>6, ServedReads
<1>7. CASE ServeCancel \/ ServeQuick
  BY <1>7, ServedMutations
<1>8. ASSUME NEW j \in Jobs, Progress(j) PROVE IInv'
  BY <1>8, ProgressKeeps
<1>9. CASE FilesChange \/ \E u \in Users(world) : LoginChanges(u)
  BY <1>9, ChangesKeep
<1>10. CASE UNCHANGED vars
  <2>1. world' = world /\ answers' = answers
    BY <1>10 DEF vars
  <2>2. UNCHANGED <<server, run, flight, hits>>
    BY <1>10 DEF vars
  <2>3. Shapes' /\ Beginning' /\ Asked' /\ Flown'
    BY <2>1, <2>2 DEF IInv, Shapes, Beginning, Asked, Flown, Users
  <2>4. Overlaid' /\ Selected'
    BY <2>1, <2>2 DEF IInv, Overlaid, Selected, Given, Underway, Users
  <2>5. Executing' /\ ConfiguredEnvironmentHolds' /\ Pointed' /\ Hit' /\ Told'
    BY <2>1, <2>2 DEF IInv, Executing, ConfiguredEnvironmentHolds, Pointed, Hit, Told, Became,
       Wanted
  <2> QED
    BY <2>3, <2>4, <2>5 DEF IInv
<1> QED
  BY <1>1, <1>2, <1>3, <1>4, <1>5, <1>6, <1>7, <1>8, <1>9, <1>10 DEF Next

LEMMA JobInvariant ==
  Spec => []IInv
<1>1. Init => IInv
  BY JobInit
<1>2. IInv /\ [Next]_vars => IInv'
  BY JobNext
<1> QED
  BY <1>1, <1>2, PTL DEF Spec

-----------------------------------------------------------------------------
(* What the runs check on a small instance. *)

\* An org is not executed on against its configured environment, and requests
\* that change something go to the assessed org, for the selected job, whatever
\* happens to logins, caches, configuration and jobs after the assessment.
THEOREM WorkStaysAssessed ==
  Spec => []AsAssessed
<1>1. IInv => AsAssessed
  <2> SUFFICES ASSUME IInv PROVE AsAssessed
    OBVIOUS
  <2>1. TypeOK
    BY DEF TypeOK, IInv, Shapes, Pointed, Asked, Hit
  <2>2. HitsAsAssessed
    BY DEF HitsAsAssessed, IInv, Hit
  <2> QED
    BY <2>1, <2>2 DEF AsAssessed, IInv
<1> QED
  BY <1>1, JobInvariant, PTL

\* The exit code of job-runner.mjs tells what became of a job that was waited
\* for.
THEOREM ExitsTell ==
  Spec => []ExitCodeTells
<1>1. IInv => ExitCodeTells
  BY DEF ExitCodeTells, IInv, Told, Became, Wanted
<1> QED
  BY <1>1, JobInvariant, PTL

\* prepare asks a human about an org at most once: its loop ends.
THEOREM AnswersAreFinal ==
  Spec => []AnswersSettle
<1>1. IInv => AnswersSettle
  <2> SUFFICES ASSUME IInv, run.at = "assess",
                      Evaluate(run.command, run.overlay, Bound).status = "environment-required",
                      Evaluate(run.command, run.overlay, Bound).org \in run.asked
               PROVE  FALSE
    BY Zenon DEF AnswersSettle
  <2>1. PICK e \in run.overlay.entries :
          e.pin = Evaluate(run.command, run.overlay, Bound).org
    BY DEF IInv, Asked
  <2> QED
    BY <2>1, RequiredHasNoPin
<1> QED
  BY <1>1, JobInvariant, PTL

-----------------------------------------------------------------------------
(* Three sides judge one job: terminal policy, selection and executor.  What *)
(* follows assumes that logins and caches are ordinary.                      *)

LEMMA SingletonCardinality ==
  ASSUME NEW x
  PROVE  IsFiniteSet({x}) /\ Cardinality({x}) = 1
BY FS_Singleton

\* A set with at most one element is not counted more than once.
LEMMA FewElements ==
  ASSUME NEW S, NEW x, S \subseteq {x}
  PROVE  ~(Cardinality(S) > 1)
<1>1. CASE S = {}
  BY <1>1, FS_EmptySet
<1>2. CASE S = {x}
  BY <1>2, SingletonCardinality
<1> QED
  BY <1>1, <1>2

\* The username a name stands for is that login and no other.
LEMMA UsernameIsLogin ==
  ASSUME Ordinary, NEW w \in Worlds, NEW name, Identity(name, w.rows) # None
  PROVE  LET u == User(name, w.rows) IN
         /\ ~Ambiguous(u, w.rows) /\ User(u, w.rows) = u
         /\ Identity(u, w.rows) = Identity(name, w.rows)
<1> DEFINE u == User(name, w.rows)
<1>1. PICK r \in Matches(name, w.rows) :
        Identity(name, w.rows) = r.org /\ u = r.user
  BY DEF Identity, User
<1>2. r \in w.rows
  BY DEF Matches
<1> HIDE DEF u
<1>3. Matches(u, w.rows) = {r}
  BY <1>1, <1>2 DEF Matches, Ordinary
<1>4. {s.org : s \in Matches(u, w.rows)} = {r.org}
  BY <1>3
<1>5. ~Ambiguous(u, w.rows)
  BY <1>4, FewElements DEF Ambiguous
<1>6. Identity(u, w.rows) = r.org /\ User(u, w.rows) = u
  BY <1>1, <1>3 DEF Identity, User
<1> QED
  BY <1>1, <1>5, <1>6 DEF u

\* Names of one org are classified alike.
LEMMA ClassifiedAlike ==
  ASSUME NEW m, NEW n, NEW entries, NEW rows, Identity(m, rows) = Identity(n, rows),
         ~Ambiguous(m, rows), ~Ambiguous(n, rows)
  PROVE  Classify(m, entries, rows) = Classify(n, entries, rows)
<1>1. \A e \in entries : Relevant(e, m, rows) <=> Relevant(e, n, rows)
  BY DEF Relevant
<1>2. \A e \in entries : Usable(e, m, rows) <=> Usable(e, n, rows)
  BY <1>1 DEF Usable
<1>3. {e \in entries : Relevant(e, m, rows)} = {e \in entries : Relevant(e, n, rows)}
  BY <1>1
<1>4. (\E a \in {m} \cup {e.alias : e \in entries} : Ambiguous(a, rows))
        <=> (\E a \in {n} \cup {e.alias : e \in entries} : Ambiguous(a, rows))
  OBVIOUS
<1> DEFINE envs(x) == {Normal[e.env] : e \in {y \in entries : Relevant(y, x, rows)}}
           bad(x) == \/ Identity(x, rows) = None
                     \/ \E a \in {x} \cup {e.alias : e \in entries} : Ambiguous(a, rows)
                     \/ \E e \in entries : ~Usable(e, x, rows)
                     \/ Cardinality(envs(x)) > 1
<1>5. envs(m) = envs(n)
  BY <1>3
<1>6. bad(m) <=> bad(n)
  BY <1>2, <1>4, <1>5
<1>7. \A x \in {m, n} : Classify(x, entries, rows) =
        IF bad(x) THEN Refused
        ELSE IF envs(x) = {} THEN Verdict("environment-required", None, Identity(x, rows))
        ELSE Verdict("resolved", CHOOSE e \in envs(x) : TRUE, Identity(x, rows))
  BY DEF Classify
<1> HIDE DEF envs, bad
<1> QED
  BY <1>5, <1>6, <1>7

\* What the decision on a command without hubs and controllers comes down to if
\* its names are classified alike.
LEMMA DecidedAlike ==
  ASSUME NEW c, NEW w, NEW T, NEW v, T # {}, ~IsDelete(c),
         \A n \in T : Classify(n, w.entries, w.rows) = v
  PROVE  Decide(c, w, T, {}) =
           IF v.status = "refused" \/ v.org \in w.denied \/ (v.env = "prod" /\ c.family # "verified")
             THEN Refused
           ELSE IF v.status = "environment-required" THEN v
           ELSE Verdict("allow", v.env, v.org)
<1> DEFINE d == [n \in T |-> Classify(n, w.entries, w.rows)]
           open == {n \in DOMAIN d : d[n].status = "environment-required"}
           refused ==
             \/ \E n \in DOMAIN d : d[n].status = "refused" \/ d[n].org \in w.denied
             \/ Cardinality({d[n].org : n \in T}) > 1
             \/ Cardinality({d[n].org : n \in {}}) > 1
             \/ /\ Production(d, T, {})
                /\ {} # {} \/ c.family # "verified"
           pick == CHOOSE n \in DOMAIN d : n \in T \/ T = {}
<1>1. Decide(c, w, T, {}) =
        IF refused THEN Refused
        ELSE IF open # {} THEN d[CHOOSE n \in open : TRUE]
        ELSE Verdict("allow", d[pick].env, d[pick].org)
  <2> DEFINE orgs == {Identity(n, w.rows) : n \in T}
             controllers == IF IsDelete(c) THEN Controllers(c, orgs, w.lineage) ELSE {}
  <2>1. controllers = {} /\ T \cup {} \cup controllers = T /\ T \cup controllers = T
    OBVIOUS
  <2> HIDE DEF controllers
  <2> QED
    BY <2>1 DEF Decide, controllers
<1>2. DOMAIN d = T /\ \A n \in T : d[n] = v
  OBVIOUS
<1>3. pick \in T
  BY <1>2
<1> HIDE DEF d, pick
<1>4. {d[n].org : n \in T} = {v.org} /\ {d[n].org : n \in {}} = {}
  BY <1>2
<1>5. ~(Cardinality({d[n].org : n \in T}) > 1) /\ ~(Cardinality({d[n].org : n \in {}}) > 1)
  BY <1>4, FewElements
<1>6. Production(d, T, {}) <=> v.env = "prod"
  BY <1>2 DEF Production
<1>7. refused <=> \/ v.status = "refused" \/ v.org \in w.denied
                  \/ v.env = "prod" /\ c.family # "verified"
  BY <1>2, <1>5, <1>6
<1>8. CASE v.status = "environment-required"
  <2>1. open = T
    BY <1>2, <1>8
  <2>2. d[CHOOSE n \in open : TRUE] = v
    BY <1>2, <2>1
  <2> HIDE DEF open, refused
  <2> QED
    BY <1>1, <1>7, <1>8, <2>1, <2>2
<1>9. CASE v.status # "environment-required"
  <2>1. open = {}
    BY <1>2, <1>9
  <2>2. d[pick] = v
    BY <1>2, <1>3
  <2> HIDE DEF open, refused
  <2> QED
    BY <1>1, <1>7, <1>9, <2>1, <2>2
<1> QED
  BY <1>8, <1>9

\* What select_job has found out about a job it selects.
LEMMA SelectedNames ==
  ASSUME Ordinary, NEW w \in Worlds, NEW c \in Commands, NEW job,
         job = Select(c, w.cache, w.rows), job # None
  PROVE  /\ WellFormed(c) /\ c.hubs = {}
         /\ ~Ambiguous(job.user, w.rows) /\ User(job.user, w.rows) = job.user
         /\ Identity(job.user, w.rows) = job.org /\ job.org \in Orgs
         /\ \A t \in c.targets : ~Ambiguous(t, w.rows) /\ Identity(t, w.rows) = job.org
         /\ \E x : Candidates(c, w.cache) \subseteq {x}
         /\ \A j \in Candidates(c, w.cache) :
              ~Ambiguous(j.target, w.rows) /\ Identity(j.target, w.rows) = job.org
         /\ Candidates(c, w.cache) = {} => c.targets # {} /\ c.family # "resume"
         /\ job.family = FamilyOf(c) /\ job.action = c.family
         /\ \E b \in BOOLEAN : job.options = Options(c, b) /\ (FamilyOf(c) = "sandbox" => ~b)
<1> DEFINE found == Candidates(c, w.cache)
           entry == CHOOSE j \in found : TRUE
           name == IF found # {} THEN entry.target
                   ELSE IF c.targets # {} THEN CHOOSE t \in c.targets : TRUE ELSE None
           rest == found # {} /\ entry.rest
<1>1. /\ WellFormed(c) /\ ~(Cardinality(found) > 1)
      /\ found = {} => c.id # None /\ c.family # "resume"
      /\ name # None /\ Identity(name, w.rows) # None
      /\ \A t \in c.targets \cup {name} :
           ~Ambiguous(t, w.rows) /\ Identity(t, w.rows) = Identity(name, w.rows)
      /\ job.family = FamilyOf(c) /\ job.action = c.family
      /\ job.user = User(name, w.rows) /\ job.org = Identity(name, w.rows)
      /\ job.options = Options(c, rest)
  BY Zenon DEF Select
<1>2. found \subseteq w.cache /\ \A j \in found : j.family = FamilyOf(c)
  BY DEF Candidates, Current, Named
<1>3. IsFiniteSet(found)
  BY <1>2, FS_Subset DEF Ordinary
<1>4. found # {} => found \subseteq {entry} /\ entry \in found
  BY <1>1, <1>3, AtMostOne
<1>5. rest \in BOOLEAN /\ (FamilyOf(c) = "sandbox" => ~rest)
  BY <1>2, <1>4 DEF Ordinary
<1>6. /\ ~Ambiguous(job.user, w.rows) /\ User(job.user, w.rows) = job.user
      /\ Identity(job.user, w.rows) = job.org
  BY <1>1, UsernameIsLogin
<1>7. job.org \in Orgs
  BY SelectedJob
<1>8. \A j \in found : ~Ambiguous(j.target, w.rows) /\ Identity(j.target, w.rows) = job.org
  BY <1>1, <1>4
<1>9. found = {} => c.targets # {}
  BY <1>1
<1>10. \E x : found \subseteq {x}
  <2>1. CASE found = {}
    BY <2>1
  <2>2. CASE found # {}
    BY <1>4, <2>2
  <2> QED
    BY <2>1, <2>2
<1>11. c.hubs = {}
  BY <1>1 DEF WellFormed
<1> HIDE DEF found, entry, name, rest
<1> QED
  BY <1>1, <1>5, <1>6, <1>7, <1>8, <1>9, <1>10, <1>11 DEF found

\* The terminal binds a job that is selected by its ID or name to the org that
\* selection binds it to.
LEMMA TerminalBinds ==
  ASSUME Ordinary, NEW w \in Worlds, NEW c \in Commands, IsJob(c) \/ IsResume(c), ~c.latest,
         NEW job, job = Select(c, w.cache, w.rows), job # None
  PROVE  /\ ~Unbound(c, w.cache)
         /\ TargetNames(c, w, None) = c.targets \cup {j.target : j \in Named(c, w.cache)}
         /\ TargetNames(c, w, None) # {}
<1> DEFINE found == Named(c, w.cache)
<1>1. Candidates(c, w.cache) = found
  BY DEF Candidates
<1>2. PICK x : found \subseteq {x}
  BY <1>1, SelectedNames
<1>3. found = {} => c.targets # {} /\ c.family # "resume"
  BY <1>1, SelectedNames
<1>4. WellFormed(c) /\ c.hubs = {}
  BY SelectedNames
<1>5. (c.id = None) # (c.name = None)
  <2> DEFINE given(s) == CASE s = "id" -> c.id # None [] s = "name" -> c.name # None
                           [] OTHER -> c.latest
             S == {s \in {"id", "name", "latest"} : given(s)}
  <2>1. Cardinality(S) = 1
    BY <1>4 DEF WellFormed
  <2>2. S = (IF c.id # None THEN {"id"} ELSE {}) \cup (IF c.name # None THEN {"name"} ELSE {})
    <3>1. /\ given("id") <=> c.id # None
          /\ given("name") <=> c.name # None
          /\ ~given("latest")
      OBVIOUS
    <3> HIDE DEF given
    <3> QED
      BY <3>1
  <2> HIDE DEF S
  <2>3. ASSUME c.id # None, c.name # None PROVE FALSE
    <3>1. S = {"id", "name"} /\ IsFiniteSet({"id"}) /\ Cardinality({"id"}) = 1
      BY <2>2, <2>3, FS_Singleton
    <3>2. Cardinality({"id"} \cup {"name"}) = 2
      BY <3>1, FS_AddElement
    <3>3. {"id"} \cup {"name"} = {"id", "name"}
      OBVIOUS
    <3> QED
      BY <2>1, <3>1, <3>2, <3>3
  <2>4. ASSUME c.id = None, c.name = None PROVE FALSE
    BY <2>1, <2>2, <2>4, FS_EmptySet
  <2> QED
    BY <2>3, <2>4
<1>6. ~Unbound(c, w.cache)
  <2>1. CachedTargets(c, w.cache) \subseteq {x.target}
    BY <1>2 DEF CachedTargets
  <2>2. ~(Cardinality(CachedTargets(c, w.cache)) > 1) /\ ~(Cardinality(found) > 1)
    BY <1>2, <2>1, FewElements
  <2>3. c.family # "resume scratch" /\ (c.name # None => c.family = "resume sandbox")
    BY <1>4 DEF WellFormed
  <2> HIDE DEF found
  <2> QED
    BY <1>3, <1>5, <2>2, <2>3 DEF Unbound, found
<1>7. c.family # "hub"
  BY DEF IsJob, IsResume, JobActions
<1>8. TargetNames(c, w, None) = c.targets \cup CachedTargets(c, w.cache)
  <2>1. c.targets \cup CachedTargets(c, w.cache) # {}
    BY <1>3 DEF CachedTargets
  <2> QED
    BY <2>1 DEF TargetNames
<1> QED
  BY <1>3, <1>6, <1>8 DEF CachedTargets

\* A job is judged in the terminal as it is natively.
LEMMA JudgedAlike ==
  ASSUME Ordinary, NEW w \in Worlds, NEW c \in Commands, IsJob(c) \/ IsResume(c), ~c.latest,
         NEW job, job = Select(c, w.cache, w.rows), job # None,
         NEW native, native = [c EXCEPT !.targets = {job.user}]
  PROVE  Evaluate(c, w, None) = Evaluate(native, w, {job.user})
<1> DEFINE T == TargetNames(c, w, None)
<1> PICK v : v = Classify(job.user, w.entries, w.rows)
  OBVIOUS
<1>1. /\ native.family = c.family /\ native.hubs = c.hubs /\ native.targets = {job.user}
  BY JobAssumption
<1>2. /\ c.family \notin {"local", "unknown", "loose", "hub"}
      /\ ~IsDelete(c) /\ ~IsDelete(native)
  BY <1>1 DEF IsJob, IsResume, IsDelete, JobActions
<1>3. c.hubs = {} /\ HubNames(c, w) = {} /\ HubNames(native, w) = {}
  BY <1>1, <1>2, SelectedNames DEF HubNames
<1>4. ~Unbound(c, w.cache) /\ T # {}
  BY TerminalBinds
<1>5. {job.user} # None /\ TargetNames(native, w, {job.user}) = {job.user}
  <2>1. {job.user} # None
    <3>1. job.user \in Names
      BY SelectedJob, UserNames
    <3> QED
      BY <3>1 DEF Ordinary
  <2>2. TargetNames(native, w, {job.user}) = {job.user}
    BY <1>1, <2>1 DEF TargetNames
  <2> QED
    BY <2>1, <2>2
<1>6. \A n \in T : ~Ambiguous(n, w.rows) /\ Identity(n, w.rows) = job.org
  <2>1. Candidates(c, w.cache) = Named(c, w.cache)
    BY DEF Candidates
  <2>2. T = c.targets \cup {j.target : j \in Named(c, w.cache)}
    BY TerminalBinds
  <2> QED
    BY <2>1, <2>2, SelectedNames
<1>7. \A n \in T : Classify(n, w.entries, w.rows) = v
  BY <1>6, ClassifiedAlike, SelectedNames
<1> HIDE DEF T
<1>8. Decide(c, w, T, {}) = Decide(native, w, {job.user}, {})
  <2>1. Decide(c, w, T, {}) =
          IF v.status = "refused" \/ v.org \in w.denied \/ (v.env = "prod" /\ c.family # "verified")
            THEN Refused
          ELSE IF v.status = "environment-required" THEN v
          ELSE Verdict("allow", v.env, v.org)
    BY <1>2, <1>4, <1>7, DecidedAlike
  <2>2. Decide(native, w, {job.user}, {}) =
          IF v.status = "refused" \/ v.org \in w.denied \/ (v.env = "prod" /\ c.family # "verified")
            THEN Refused
          ELSE IF v.status = "environment-required" THEN v
          ELSE Verdict("allow", v.env, v.org)
    <3> PICK S : S = {job.user}
      OBVIOUS
    <3>1. S # {} /\ \A n \in S : Classify(n, w.entries, w.rows) = v
      OBVIOUS
    <3>2. ~IsDelete(native) /\ native.family = c.family
      BY <1>1, <1>2
    <3>3. Decide(native, w, S, {}) =
            IF \/ v.status = "refused" \/ v.org \in w.denied
               \/ v.env = "prod" /\ native.family # "verified"
              THEN Refused
            ELSE IF v.status = "environment-required" THEN v
            ELSE Verdict("allow", v.env, v.org)
      BY ONLY <3>1, <3>2, DecidedAlike
    <3> QED
      BY <3>2, <3>3
  <2> QED
    BY <2>1, <2>2
<1> QED
  BY <1>1, <1>2, <1>3, <1>4, <1>5, <1>8 DEF Evaluate, T

-----------------------------------------------------------------------------
(* The job that was selected is the one the executor takes. *)

\* A job is selected once, from what was read in the beginning.
Frozen ==
  run.at \in {"assess", "dialog", "validate"} /\ run.job # None =>
    \E c \in Commands :
      /\ IsJob(c) \/ IsResume(c)
      /\ run.job = Select(c, run.base.cache, run.base.rows)
      /\ run.command = [c EXCEPT !.targets = {run.job.user}]

LEMMA FrozenNext ==
  ASSUME IInv, Frozen, [Next]_vars
  PROVE  Frozen'
<1> USE DEF IInv
<1>1. CASE run' = run
  BY <1>1 DEF Frozen
<1>2. ASSUME NEW c \in Commands, Begin(c) PROVE Frozen'
  <2>1. run = NoRun /\ DOMAIN run = RunFields
    BY <1>2 DEF Begin, Beginning, Shapes
  <2>2. CASE Refuse
    BY <2>1, <2>2 DEF Refuse, End, Frozen, RunFields
  <2>3. CASE IsJob(c) \/ IsResume(c)
    <3> PICK job : job = Select(c, world.cache, world.rows)
      OBVIOUS
    <3> PICK d : d = [c EXCEPT !.targets = {job.user}]
      OBVIOUS
    <3>1. SUFFICES ASSUME ~Refuse PROVE Frozen'
      BY <2>2
    <3>2. run' = [run EXCEPT !.at = "assess", !.base = world, !.overlay = world,
                             !.job = job, !.command = d]
      BY <1>2, <2>3, <3>1 DEF Begin
    <3>3. run'.base = world /\ run'.job = job /\ run'.command = d
      BY <2>1, <3>2 DEF RunFields
    <3> QED
      BY <2>3, <3>3 DEF Frozen
  <2>4. CASE ~(IsJob(c) \/ IsResume(c)) /\ ~Refuse
    <3>1. \E d : run' = [run EXCEPT !.at = "assess", !.base = world, !.overlay = world,
                                    !.command = d]
      BY <1>2, <2>4, Zenon DEF Begin
    <3>2. run'.job = None
      BY <2>1, <3>1 DEF NoRun
    <3> QED
      BY <3>2 DEF Frozen
  <2> QED
    BY <2>2, <2>3, <2>4
<1>3. CASE Assess
  <2>1. /\ run.at = "assess"
        /\ \/ run'.at = "done"
           \/ run'.job = run.job /\ run'.base = run.base /\ run'.command = run.command
    BY <1>3 DEF Assess, Refuse, End, Shapes, RunFields
  <2> QED
    BY <2>1 DEF Frozen
<1>4. CASE Answer
  <2>1. /\ run.at = "dialog"
        /\ \/ run'.at = "done"
           \/ run'.job = run.job /\ run'.base = run.base /\ run'.command = run.command
    BY <1>4 DEF Answer, Refuse, End, Shapes, RunFields
  <2> QED
    BY <2>1 DEF Frozen
<1>5. CASE Executor \/ Terminate \/ Tick
  <2>1. run' = run \/ run'.at \notin {"assess", "dialog", "validate"}
    BY <1>5 DEF Executor, Terminate, Tick, Start, Send, RequestTimer, ReceiveAuth,
                ReceiveConnection, ReceiveLive, ReceiveCheck, ReceiveMutation, ReceiveStatus,
                ReceiveOrg, ReceiveSandbox, Wake, Receive, First, Polling, Goto, AfterStatus,
                Report, End, Requests, Shapes, RunFields
  <2> QED
    BY <1>1, <2>1 DEF Frozen
<1>6. CASE \/ RequestFails \/ ServeRead \/ ServeCancel \/ ServeQuick \/ ServeResume
           \/ \E j \in Jobs : Progress(j)
           \/ \E u \in Users(world) : LoginChanges(u)
           \/ FilesChange \/ UNCHANGED vars
  <2>1. run' = run
    BY <1>6 DEF RequestFails, ServeRead, ServeCancel, ServeQuick, ServeResume, Serves,
                Progress, LoginChanges, FilesChange, vars
  <2> QED
    BY <1>1, <2>1
<1> QED
  BY <1>2, <1>3, <1>4, <1>5, <1>6 DEF Next

LEMMA ResolvedEnvironment ==
  ASSUME NEW name, NEW entries, NEW rows, Classify(name, entries, rows).status = "resolved"
  PROVE  Classify(name, entries, rows).env \in Environments
<1> DEFINE envs == {Normal[e.env] : e \in {x \in entries : Relevant(x, name, rows)}}
<1>1. /\ Classify(name, entries, rows).env = (CHOOSE e \in envs : TRUE)
      /\ \A x \in entries : Usable(x, name, rows)
      /\ envs # {}
  BY Zenon DEF Classify, Refused, Verdict
<1>2. \A x \in entries : Relevant(x, name, rows) => Normal[x.env] \in Environments
  <2>1. \A e \in DOMAIN Normal : Normal[e] \in Environments
    BY DEF Normal, Environments
  <2> QED
    BY <1>1, <2>1 DEF Usable
<1>3. envs \subseteq Environments
  BY <1>2
<1> HIDE DEF envs
<1> QED
  BY <1>1, <1>3

\* What select_job writes for the options of a job, validateJobExecution reads.
LEMMA OptionsAccepted ==
  ASSUME Ordinary, NEW c \in Commands, WellFormed(c), IsJob(c) \/ IsResume(c),
         NEW b \in BOOLEAN, FamilyOf(c) = "sandbox" => ~b, NEW o, o = Options(c, b),
         NEW sandbox \in BOOLEAN, sandbox <=> FamilyOf(c) = "sandbox"
  PROVE  /\ c.family \in (IF sandbox THEN {"resume sandbox"} ELSE JobActions)
         /\ o.wait \in 0 .. MaxWait
         /\ o.api # None => c.family = "quick"
         /\ o.async => c.family \in {"quick", "cancel"} /\ o.wait = 0
         /\ ~(sandbox /\ o.rest)
         /\ c.async = o.async /\ c.api = o.api
         /\ IF c.wait = None
              THEN o.wait = IF o.async \/ sandbox \/ c.family = "report" THEN 0 ELSE DefaultWait
              ELSE o.wait = c.wait /\ ~o.async /\ (sandbox \/ o.wait >= 1)
<1>1. /\ IsJob(c) <=> c.family \in JobActions
      /\ IsResume(c) <=> c.family = "resume sandbox"
      /\ sandbox <=> IsResume(c)
      /\ IsJob(c) <=> ~IsResume(c)
  BY DEF FamilyOf, IsJob, IsResume, JobActions, WellFormed
<1>2. DefaultWait \in 1 .. MaxWait /\ MaxWait \in Nat
  BY JobAssumption DEF Ordinary
<1>3. /\ c.async => c.wait = None /\ c.family \in {"quick", "cancel"}
      /\ c.wait # None => c.wait \in (IF IsJob(c) THEN 1 ELSE 0) .. MaxWait
      /\ c.api # None => c.family = "quick"
  BY DEF WellFormed
<1>4. c.async \in BOOLEAN
  BY DEF Ordinary
<1>5. /\ o.async = c.async /\ o.api = c.api /\ o.rest = b
      /\ c.wait # None => o.wait = c.wait
      /\ c.wait = None /\ (c.async \/ IsResume(c) \/ c.family = "report") => o.wait = 0
      /\ c.wait = None /\ ~(c.async \/ IsResume(c) \/ c.family = "report") =>
           o.wait = DefaultWait
  BY DEF Options
<1>6. o.wait \in 0 .. MaxWait
  BY <1>2, <1>3, <1>5
<1>7. c.family \in (IF sandbox THEN {"resume sandbox"} ELSE JobActions)
  BY <1>1
<1>8. o.async => c.family \in {"quick", "cancel"} /\ o.wait = 0
  BY <1>3, <1>4, <1>5
<1>9. ~(sandbox /\ o.rest)
  BY <1>5
<1>10. CASE c.wait = None
  <2>1. o.wait = IF o.async \/ sandbox \/ c.family = "report" THEN 0 ELSE DefaultWait
    BY <1>1, <1>4, <1>5, <1>10
  <2> QED
    BY <1>3, <1>5, <1>6, <1>7, <1>8, <1>9, <1>10, <2>1
<1>11. CASE c.wait # None
  <2>1. o.wait = c.wait /\ ~o.async
    BY <1>3, <1>5, <1>11
  <2>2. CASE sandbox
    BY <1>3, <1>5, <1>6, <1>7, <1>8, <1>9, <1>11, <2>1, <2>2
  <2>3. CASE ~sandbox
    <3>1. c.wait \in 1 .. MaxWait
      BY <1>1, <1>3, <1>11, <2>3
    <3>2. o.wait >= 1
      BY <1>2, <2>1, <3>1
    <3> QED
      BY <1>3, <1>5, <1>6, <1>7, <1>8, <1>9, <1>11, <2>1, <3>2
  <2> QED
    BY <2>2, <2>3
<1> QED
  BY <1>10, <1>11

\* An assessment that freezes a job freezes one that the executor accepts.
LEMMA FrozenAccepted ==
  ASSUME Ordinary, IInv, Frozen, run.at = "assess", run.job # None, None \notin Touched,
         Evaluate(run.command, run.overlay, Bound).status = "allow",
         \A o \in Touched : Classified(o).status = "resolved"
  PROVE  Accepted(Freeze)
<1> USE DEF IInv
<1> DEFINE job == run.job
<1>1. PICK c \in Commands : /\ IsJob(c) \/ IsResume(c)
                            /\ job = Select(c, run.base.cache, run.base.rows)
                            /\ run.command = [c EXCEPT !.targets = {job.user}]
  BY DEF Frozen
<1>2. run.base \in Worlds
  BY DEF Overlaid, Underway
<1>3. /\ WellFormed(c) /\ c.hubs = {} /\ User(job.user, run.base.rows) = job.user
      /\ Identity(job.user, run.base.rows) = job.org
      /\ job.family = FamilyOf(c) /\ job.action = c.family
      /\ \E b \in BOOLEAN : job.options = Options(c, b) /\ (FamilyOf(c) = "sandbox" => ~b)
  BY <1>1, <1>2, SelectedNames
<1>4. /\ run.command.targets = {job.user} /\ run.command.hubs = {}
      /\ run.command.family = c.family /\ run.command.wait = c.wait
      /\ run.command.async = c.async /\ run.command.api = c.api
  BY <1>1, <1>3, JobAssumption
<1>5. Given = {job.user}
  BY <1>4 DEF Given
<1>6. Touched = {job.org} /\ Login(job.org) = job.user
  BY <1>3, <1>5 DEF Touched, Login
<1> DEFINE t == [user |-> job.user, org |-> job.org, env |-> Classified(job.org).env]
<1>7. Freeze.targets = {t} /\ Freeze.job = job
      /\ Freeze.bound = [wait |-> c.wait, async |-> c.async, api |-> c.api]
  BY <1>4, <1>6 DEF Freeze
<1>8. t.env \in NonProduction
  <2>1. t.env = Classify(job.user, run.overlay.entries, run.overlay.rows).env
    BY <1>6 DEF Classified
  <2>2. t.env \in Environments
    BY <1>6, ResolvedEnvironment DEF Classified
  <2>3. c.family \notin {"local", "verified"}
    BY <1>1 DEF IsJob, IsResume, JobActions
  <2>4. Classify(job.user, run.overlay.entries, run.overlay.rows).env # "prod"
    BY <1>4, <2>3, AllowedNames
  <2> QED
    BY <2>1, <2>2, <2>4 DEF Environments, NonProduction
<1>9. Cardinality(Freeze.targets) = 1 /\ (CHOOSE x \in Freeze.targets : TRUE) = t
  BY <1>7, SingletonCardinality
<1>10. PICK b \in BOOLEAN : job.options = Options(c, b) /\ (FamilyOf(c) = "sandbox" => ~b)
  BY <1>3
<1> PICK o : o = job.options
  OBVIOUS
<1> PICK sandbox \in BOOLEAN : sandbox <=> job.family = "sandbox"
  OBVIOUS
<1>11. /\ job.action \in (IF sandbox THEN {"resume sandbox"} ELSE JobActions)
       /\ o.wait \in 0 .. MaxWait
       /\ o.api # None => job.action = "quick"
       /\ o.async => job.action \in {"quick", "cancel"} /\ o.wait = 0
       /\ ~(sandbox /\ o.rest)
       /\ c.async = o.async /\ c.api = o.api
       /\ IF c.wait = None
            THEN o.wait = IF o.async \/ sandbox \/ job.action = "report" THEN 0 ELSE DefaultWait
            ELSE o.wait = c.wait /\ ~o.async /\ (sandbox \/ o.wait >= 1)
  <2>1. sandbox <=> FamilyOf(c) = "sandbox"
    BY <1>3
  <2>2. o = Options(c, b) /\ job.action = c.family
    BY <1>3, <1>10
  <2> HIDE DEF job
  <2>3. /\ c.family \in (IF sandbox THEN {"resume sandbox"} ELSE JobActions)
        /\ o.wait \in 0 .. MaxWait
        /\ o.api # None => c.family = "quick"
        /\ o.async => c.family \in {"quick", "cancel"} /\ o.wait = 0
        /\ ~(sandbox /\ o.rest)
        /\ c.async = o.async /\ c.api = o.api
        /\ IF c.wait = None
             THEN o.wait = IF o.async \/ sandbox \/ c.family = "report" THEN 0 ELSE DefaultWait
             ELSE o.wait = c.wait /\ ~o.async /\ (sandbox \/ o.wait >= 1)
    <3>1. /\ WellFormed(c) /\ (IsJob(c) \/ IsResume(c))
          /\ FamilyOf(c) = "sandbox" => ~b
      BY <1>1, <1>3, <1>10
    <3>2. o = Options(c, b)
      BY <2>2
    <3> QED
      BY ONLY Ordinary, c \in Commands, b \in BOOLEAN, sandbox \in BOOLEAN, <2>1, <3>1, <3>2,
              OptionsAccepted
  <2> QED
    BY <2>2, <2>3
<1>12. t.user = job.user /\ t.org = job.org
  OBVIOUS
<1> PICK x : x = Freeze
  OBVIOUS
<1>13. /\ x.job = job /\ x.bound.wait = c.wait /\ x.bound.async = c.async /\ x.bound.api = c.api
       /\ Cardinality(x.targets) = 1 /\ (CHOOSE y \in x.targets : TRUE) = t
  BY <1>7, <1>9
<1> HIDE DEF t, job
<1>14. Accepted(x)
  BY <1>8, <1>11, <1>12, <1>13 DEF Accepted
<1> QED
  BY <1>14

LEMMA AcceptedNext ==
  ASSUME Ordinary, IInv, Frozen, SelectionAccepted, [Next]_vars
  PROVE  SelectionAccepted'
<1> USE DEF IInv
<1>1. CASE run' = run
  BY <1>1 DEF SelectionAccepted, Accepted
<1>2. CASE Assess
  <2>1. SUFFICES ASSUME run'.at = "validate" PROVE Accepted(run'.execution)
    BY DEF SelectionAccepted
  <2>2. /\ run.at = "assess" /\ None \notin Touched /\ run.job # None
        /\ Evaluate(run.command, run.overlay, Bound).status = "allow"
        /\ \A o \in Touched : Classified(o).status = "resolved"
        /\ run'.execution = Freeze
    BY <1>2, <2>1 DEF Assess, Refuse, End, Shapes, RunFields
  <2> QED
    BY <2>2, FrozenAccepted
<1>3. CASE (\E c \in Commands : Begin(c)) \/ Answer \/ Executor \/ Terminate \/ Tick
  <2>1. run' = run \/ run'.at # "validate"
    BY <1>3 DEF Executor, Terminate, Tick, Start, Send, RequestTimer, ReceiveAuth, Begin, Answer,
                ReceiveConnection, ReceiveLive, ReceiveCheck, ReceiveMutation, ReceiveStatus,
                ReceiveOrg, ReceiveSandbox, Wake, Receive, First, Polling, Goto, AfterStatus,
                Report, End, Refuse, Requests, Shapes, RunFields
  <2> QED
    BY <1>1, <2>1 DEF SelectionAccepted
<1>4. CASE \/ RequestFails \/ ServeRead \/ ServeCancel \/ ServeQuick \/ ServeResume
           \/ \E j \in Jobs : Progress(j)
           \/ \E u \in Users(world) : LoginChanges(u)
           \/ FilesChange \/ UNCHANGED vars
  <2>1. run' = run
    BY <1>4 DEF RequestFails, ServeRead, ServeCancel, ServeQuick, ServeResume, Serves,
                Progress, LoginChanges, FilesChange, vars
  <2> QED
    BY <1>1, <2>1
<1> QED
  BY <1>2, <1>3, <1>4 DEF Next

\* Terminal policy, native selection and executor state the rules of a job
\* alike, where logins and caches are ordinary.
THEOREM SidesStayAgreed ==
  Ordinary => (Spec => []SidesAgree)
<1> SUFFICES ASSUME Ordinary PROVE Spec => []SidesAgree
  OBVIOUS
<1>1. Init => Frozen /\ SelectionAccepted
  BY DEF Init, NoRun, Frozen, SelectionAccepted
<1>2. IInv /\ Frozen /\ SelectionAccepted /\ [Next]_vars => Frozen' /\ SelectionAccepted'
  BY FrozenNext, AcceptedNext
<1>3. IInv => TerminalJudgesAlike
  <2> SUFFICES ASSUME IInv, run.at = "idle", NEW c \in Commands,
                      IsJob(c) \/ IsResume(c), ~c.latest,
                      NEW job, job = Select(c, world.cache, world.rows), job # None,
                      NEW native, native = [c EXCEPT !.targets = {job.user}]
               PROVE  Evaluate(c, world, None) = Evaluate(native, world, {job.user})
    BY Zenon DEF TerminalJudgesAlike
  <2>1. world \in Worlds
    BY DEF IInv, Beginning
  <2> QED
    BY <2>1, JudgedAlike
<1>4. IInv /\ SelectionAccepted => SidesAgree
  BY <1>3 DEF SidesAgree
<1> QED
  BY <1>1, <1>2, <1>4, JobInvariant, PTL DEF Spec
=============================================================================
