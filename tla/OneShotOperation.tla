-------------------------- MODULE OneShotOperation --------------------------
(***************************************************************************)
(* What the native Salesforce operation tool promises, without host,       *)
(* worker, dialogs or timers: one invocation is active at a time, it runs  *)
(* at most one command and only while active, a deployment only after a    *)
(* human confirmed it for that very org in that very invocation, and an    *)
(* invocation reported as blocked ran nothing.                             *)
(***************************************************************************)
CONSTANTS Calls, Targets

VARIABLES
  stage,    \* of each invocation
  consent,  \* the orgs a human confirmed a deployment to, by invocation
  org       \* the org, if any, each invocation ran a command against

oneshotvars == <<stage, consent, org>>

Ended == {"blocked", "ended"}

\* The tool runs one invocation at a time.
Alone(c) == \A d \in Calls \ {c} : stage[d] \in {"idle"} \cup Ended

Move(c, from, to) == stage[c] = from /\ stage' = [stage EXCEPT ![c] = to]

Init ==
  /\ stage = [c \in Calls |-> "idle"]
  /\ consent = [c \in Calls |-> {}]
  /\ org = [c \in Calls |-> {}]

Quiet == UNCHANGED <<consent, org>>

Begin(c) == Alone(c) /\ Move(c, "idle", "assessing") /\ Quiet

Refuse(c) == Move(c, "idle", "blocked") /\ Quiet

Consent(c, t) ==
  /\ stage[c] = "assessing"
  /\ consent' = [consent EXCEPT ![c] = @ \cup {t}]
  /\ UNCHANGED <<stage, org>>

Block(c) == Move(c, "assessing", "blocked") /\ Quiet

\* An invocation that failed at the last moment need not have run anything.
Abandon(c) == Move(c, "assessing", "ended") /\ Quiet

RunAgainst(c, t) == org' = [org EXCEPT ![c] = {t}] /\ UNCHANGED consent

Run(c, t) == Move(c, "assessing", "running") /\ RunAgainst(c, t)

Deploy(c, t) == t \in consent[c] /\ Move(c, "assessing", "deploying") /\ RunAgainst(c, t)

End(c) == (Move(c, "running", "ended") \/ Move(c, "deploying", "ended")) /\ Quiet

Next ==
  \E c \in Calls :
    \/ Begin(c) \/ Refuse(c) \/ Block(c) \/ Abandon(c) \/ End(c)
    \/ \E t \in Targets : Consent(c, t) \/ Run(c, t) \/ Deploy(c, t)

Spec == Init /\ [][Next]_oneshotvars
=============================================================================
