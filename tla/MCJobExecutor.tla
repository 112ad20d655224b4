---------------------------- MODULE MCJobExecutor ----------------------------
(* Small instances of JobExecutor.                                           *)
EXTENDS JobExecutor

CONSTANTS o1, o2, u1, u2, a1, d1, d2, s1

Command(family) ==
  [family |-> family, targets |-> {}, hubs |-> {}, id |-> None, name |-> None,
   latest |-> FALSE, wait |-> None, async |-> FALSE, api |-> None]

\* Jobs by ID and as the latest one, with and without a target, a wait, async.
MCCommands ==
  {[Command("quick") EXCEPT !.id = d1, !.targets = {a1}],
   [Command("quick") EXCEPT !.latest = TRUE, !.async = TRUE],
   [Command("cancel") EXCEPT !.id = d1, !.wait = 1, !.targets = {u1}],
   [Command("report") EXCEPT !.id = d1, !.targets = {u2}],
   [Command("resume") EXCEPT !.latest = TRUE],
   [Command("resume sandbox") EXCEPT !.name = "dev", !.wait = 1],
   [Command("resume sandbox") EXCEPT !.id = s1, !.targets = {u1}],
   [Command("resume scratch") EXCEPT !.id = d1],
   [Command("verified") EXCEPT !.targets = {a1}],
   [Command("wide") EXCEPT !.targets = {u1}],
   [Command("hub") EXCEPT !.targets = {a1}],
   Command("hub"), Command("deploy"), Command("local"), Command("delete scratch")}

Deployment(stamp, target) ==
  [family |-> "deploy", id |-> d1, name |-> None, stamp |-> stamp, target |-> target,
   rest |-> FALSE]
Sandbox == [family |-> "sandbox", id |-> s1, name |-> "dev", stamp |-> 1, target |-> u1,
            rest |-> FALSE]

\* a1 is an alias of o1, of o2, or of nothing; configured unpinned, pinned, as
\* production, with an environment that no longer exists, or not at all.
MCWorlds ==
  {[entries |-> entries, denied |-> {}, cache |-> cache, lineage |-> <<>>,
    rows |-> {[user |-> u1, aliases |-> IF aliased = o1 THEN {a1} ELSE {}, org |-> o1],
              [user |-> u2, aliases |-> IF aliased = o2 THEN {a1} ELSE {}, org |-> o2]},
    target |-> {}, hub |-> {u1}] :
     entries \in {{}, {[alias |-> a1, pin |-> None, env |-> "dev"]},
                  {[alias |-> a1, pin |-> o1, env |-> "production"]},
                  {[alias |-> a1, pin |-> None, env |-> "qa"]},
                  {[alias |-> a1, pin |-> o1, env |-> "dev"],
                   [alias |-> u1, pin |-> None, env |-> "stage"]}},
     cache \in {{}, {Deployment(1, a1), Sandbox}, {Deployment(0, u1)}},
     aliased \in {o1, o2, None}}

Job(org, status, validation) ==
  [org |-> org, status |-> status, validation |-> validation, done |-> FALSE]

MCServers ==
  {[j \in {d1, d2, s1} |->
      CASE j = d1 -> first [] j = d2 -> None [] OTHER -> Job(o1, "Pending", None)] :
   first \in {Job(o1, "Succeeded", TRUE), Job(o1, "InProgress", FALSE)}}

\* The hypothesis of a theorem of JobProofs.
ASSUME OrdinaryInstance == Ordinary
=============================================================================
