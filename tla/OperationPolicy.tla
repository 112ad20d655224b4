--------------------------- MODULE OperationPolicy ---------------------------
(***************************************************************************)
(* Which org a Salesforce command is about and whether it may run there:   *)
(* the decision of scripts/salesforce_operation_policy.py, which guards    *)
(* the terminal and the native operation tool alike, and the selection of  *)
(* a job by scripts/salesforce_job_selection.py.  No state.                *)
(*                                                                         *)
(* An org stands for its ID together with its host.  Every status that     *)
(* only says why nothing is authorized is "refused".                       *)
(***************************************************************************)
EXTENDS Naturals, FiniteSets

CONSTANTS
  Orgs,         \* Org IDs
  Names,        \* usernames and aliases
  Jobs,         \* job IDs
  None,         \* nothing
  DefaultWait,  \* 33 minutes: the wait of a job that names none
  MaxWait       \* 120 minutes

Environments == {"dev", "uat", "stage", "prod"}
NonProduction == {"dev", "uat", "stage"}

\* normalize_environment; "qa" and anything else has no meaning.
Normal == [e \in {"dev", "uat", "stage", "prod", "development", "production"} |->
             IF e = "development" THEN "dev" ELSE IF e = "production" THEN "prod" ELSE e]

\* Families of the closed set of understood commands.  A verified retrieve is
\* one whose flags are reviewed for production; a wide one has the option that
\* is reviewed for other orgs only; a loose one has a flag nobody reviewed.
Retrieves == {"verified", "wide", "loose"}
JobActions == {"quick", "report", "resume", "cancel"}
Lifecycle == {"resume sandbox", "resume scratch", "delete sandbox", "delete scratch"}
Families == Retrieves \cup JobActions \cup Lifecycle
            \cup {"deploy", "operation", "hub", "local", "unknown"}

\* canonical_command and command_words: an alias spelling is the command.
IsJob(c) == c.family \in JobActions
IsResume(c) == c.family \in {"resume sandbox", "resume scratch"}
IsDelete(c) == c.family \in {"delete sandbox", "delete scratch"}

-----------------------------------------------------------------------------
(* Identities.  rows: the local authorizations [user, aliases, org].         *)

Matches(name, rows) == {r \in rows : name = r.user \/ name \in r.aliases \/ name = r.org}

Ambiguous(name, rows) == Cardinality({r.org : r \in Matches(name, rows)}) > 1

Identity(name, rows) ==
  IF Matches(name, rows) = {} THEN None
  ELSE (CHOOSE r \in Matches(name, rows) : TRUE).org

User(name, rows) == (CHOOSE r \in Matches(name, rows) : TRUE).user

-----------------------------------------------------------------------------
(* classify_target.  entries: salesforce.orgs [alias, pin, env].             *)

Relevant(e, name, rows) ==
  e.alias = name \/ Identity(name, rows) \in {e.pin, Identity(e.alias, rows)}

\* An unpinned, unavailable alias could hide this very org.
Usable(e, name, rows) ==
  LET bound == Identity(e.alias, rows) IN
  IF Relevant(e, name, rows)
    THEN bound # None /\ e.pin \in {None, bound} /\ e.env \in DOMAIN Normal
    ELSE bound # None \/ e.pin # None

Verdict(status, env, org) == [status |-> status, env |-> env, org |-> org]
Refused == Verdict("refused", None, None)

Classify(name, entries, rows) ==
  LET org == Identity(name, rows)
      envs == {Normal[e.env] : e \in {x \in entries : Relevant(x, name, rows)}}
  IN IF \/ org = None
        \/ \E n \in {name} \cup {e.alias : e \in entries} : Ambiguous(n, rows)
        \/ \E e \in entries : ~Usable(e, name, rows)
        \/ Cardinality(envs) > 1
       THEN Refused
     ELSE IF envs = {} THEN Verdict("environment-required", None, org)
     ELSE Verdict("resolved", CHOOSE e \in envs : TRUE, org)

-----------------------------------------------------------------------------
(* Targets.  cache: the CLI's job caches [family, id, name, stamp, target,   *)
(* rest]; stamp 0 is expired.  Other stamps differ from each other.          *)

Current(cache, family) == {j \in cache : j.family = family /\ j.stamp > 0}

FamilyOf(c) ==
  CASE c.family = "resume sandbox" -> "sandbox"
    [] c.family = "resume scratch" -> "scratch"
    [] OTHER -> "deploy"

Named(c, cache) ==
  {j \in Current(cache, FamilyOf(c)) : j.id = c.id \/ (c.name # None /\ j.name = c.name)}

\* _job_target and _resume_target, for the terminal: the controlling org of an
\* explicit ID or sandbox name, if it is cached.  Only sandboxes have names.
CachedTargets(c, cache) == {j.target : j \in Named(c, cache)}

Unbound(c, cache) ==
  \/ c.latest
  \/ (c.id = None) = (c.name = None \/ c.family # "resume sandbox")
  \/ Cardinality(IF IsJob(c) THEN CachedTargets(c, cache) ELSE Named(c, cache)) > 1
  \/ Named(c, cache) = {} /\ c.family \in {"resume", "resume scratch"}

\* _delete_controllers: the parent of a sandbox, and the Dev Hub and any
\* parent of a scratch org.  lineage[o] = [parent, hub], a name or None each.
Controllers(c, orgs, lineage) ==
  UNION {{lineage[o].parent, IF c.family = "delete scratch" THEN lineage[o].hub ELSE None}
           : o \in orgs} \ {None}

Unproven(c, orgs, lineage) ==
  \E o \in orgs : IF c.family = "delete sandbox" THEN lineage[o].parent = None
                  ELSE lineage[o].hub = None

-----------------------------------------------------------------------------
(* evaluate.                                                                *)

\* world: [entries, denied, rows, cache, lineage, target, hub], the last two
\* the defaults of the winning tier.  bound: the names a private job binding
\* adds, or None for a terminal command.
TargetNames(c, world, bound) ==
  LET cached == IF bound # None THEN bound
                ELSE IF IsJob(c) \/ IsResume(c) THEN CachedTargets(c, world.cache) ELSE {}
      named == c.targets \cup cached
  IN IF named = {} /\ c.hubs = {} /\ c.family # "hub" THEN world.target ELSE named

HubNames(c, world) ==
  IF c.family = "hub" /\ c.hubs = {} THEN world.hub ELSE c.hubs

Production(d, targets, hubs) == \E n \in targets \cup hubs : d[n].env = "prod"

Decide(c, world, targets, hubs) ==
  LET orgs == {Identity(n, world.rows) : n \in targets}
      controllers == IF IsDelete(c) THEN Controllers(c, orgs, world.lineage) ELSE {}
      d == [n \in targets \cup hubs \cup controllers |-> Classify(n, world.entries, world.rows)]
      open == {n \in DOMAIN d : d[n].status = "environment-required"}
  IN IF \/ IsDelete(c) /\ (None \in orgs \/ Unproven(c, orgs, world.lineage))
        \/ \E n \in DOMAIN d : d[n].status = "refused" \/ d[n].org \in world.denied
        \/ Cardinality({d[n].org : n \in targets}) > 1
        \/ Cardinality({d[n].org : n \in hubs}) > 1
        \/ /\ Production(d, targets \cup controllers, hubs)
           /\ hubs # {} \/ c.family # "verified"
       THEN Refused
     ELSE IF open # {} THEN d[CHOOSE n \in open : TRUE]
     ELSE LET n == CHOOSE n \in DOMAIN d : n \in targets \/ targets = {}
          IN Verdict("allow", d[n].env, d[n].org)

Evaluate(c, world, bound) ==
  IF c.family = "local" THEN Verdict("allow", None, None)
  ELSE IF \/ c.family \in {"unknown", "loose"}
          \/ Cardinality({e.alias : e \in world.entries}) # Cardinality(world.entries)
    THEN Refused
  ELSE IF bound = None /\ (IsJob(c) \/ IsResume(c)) /\ Unbound(c, world.cache) THEN Refused
  ELSE IF TargetNames(c, world, bound) \cup HubNames(c, world) = {} THEN Refused
  ELSE IF c.family = "hub" /\ HubNames(c, world) = {} THEN Refused
  ELSE Decide(c, world, TargetNames(c, world, bound), HubNames(c, world))

-----------------------------------------------------------------------------
(* select_job.                                                              *)

\* _flags: one selector; async and wait exclude each other; what each family
\* and action takes.
WellFormed(c) ==
  /\ Cardinality({x \in {"id", "name", "latest"} :
       CASE x = "id" -> c.id # None [] x = "name" -> c.name # None [] OTHER -> c.latest}) = 1
  /\ c.name # None => c.family = "resume sandbox"
  /\ c.family # "resume scratch" /\ Cardinality(c.targets) <= 1 /\ c.hubs = {}
  /\ c.async => c.wait = None /\ c.family \in {"quick", "cancel"}
  /\ c.wait # None => c.wait \in (IF IsJob(c) THEN 1 ELSE 0) .. MaxWait
  /\ c.api # None => c.family = "quick"

Candidates(c, cache) ==
  LET entries == Current(cache, FamilyOf(c)) IN
  IF c.latest THEN {j \in entries : \A i \in entries : i.stamp <= j.stamp}
  ELSE Named(c, cache)

\* Faulty variant: a job that was started asynchronously is waited for.
OptionsWaiting(c, rest) ==
  [wait |-> IF c.wait # None THEN c.wait
            ELSE IF IsResume(c) \/ c.family = "report" THEN 0 ELSE DefaultWait,
   async |-> c.async, api |-> c.api, rest |-> rest]

Options(c, rest) ==
  [wait |-> IF c.wait # None THEN c.wait
            ELSE IF c.async \/ IsResume(c) \/ c.family = "report" THEN 0 ELSE DefaultWait,
   async |-> c.async, api |-> c.api, rest |-> rest]

\* The frozen job, or None: the controlling org of a cached job wins, and an
\* explicit target must name the same org.
Select(c, cache, rows) ==
  LET found == Candidates(c, cache)
      entry == CHOOSE j \in found : TRUE
      name == IF found # {} THEN entry.target
              ELSE IF c.targets # {} THEN CHOOSE t \in c.targets : TRUE ELSE None
      id == IF found # {} THEN entry.id ELSE c.id
  IN IF \/ ~WellFormed(c) \/ Cardinality(found) > 1
        \/ found = {} /\ (c.id = None \/ c.family = "resume")
        \/ name = None \/ Identity(name, rows) = None
        \/ \E t \in c.targets \cup {name} :
             Ambiguous(t, rows) \/ Identity(t, rows) # Identity(name, rows)
       THEN None
     ELSE [family |-> FamilyOf(c), action |-> c.family, id |-> id,
           user |-> User(name, rows), org |-> Identity(name, rows),
           options |-> Options(c, found # {} /\ entry.rest)]

=============================================================================
