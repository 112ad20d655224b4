-------------------------- MODULE ApprovalRegister --------------------------
(***************************************************************************)
(* What the entry store promises about approvals, without files, ledgers   *)
(* or crashes: a content becomes granted for an identity only by carrying  *)
(* out a human confirmation of exactly that content, and withdrawing a     *)
(* grant also voids every confirmation of it that is still being carried   *)
(* out.  Confirmations and grants may be lost at any time, never invented. *)
(***************************************************************************)
CONSTANTS Ids, Procs, Digests, None

VARIABLES
  reviewed,  \* contents a human was shown, by identity
  pending,   \* confirmed and not yet carried out, by process and identity
  granted    \* the content in force for each identity, or None

regvars == <<reviewed, pending, granted>>

Pins == [Ids -> Digests \cup {None}]

Init ==
  /\ reviewed = {}
  /\ pending = [p \in Procs |-> [id \in Ids |-> None]]
  /\ granted = [id \in Ids |-> None]

\* A confirmation may be lost; no confirmation appears.
SomeLapse ==
  /\ pending' \in [Procs -> Pins]
  /\ \A p \in Procs, id \in Ids : pending'[p][id] \in {pending[p][id], None}

Show(id, d) ==
  /\ reviewed' = reviewed \cup {<<id, d>>}
  /\ UNCHANGED <<pending, granted>>

Confirm(p) ==
  /\ \E pins \in Pins :
       /\ \A id \in Ids : pins[id] # None => <<id, pins[id]>> \in reviewed
       /\ pending' = [pending EXCEPT ![p] = pins]
  /\ UNCHANGED <<reviewed, granted>>

Grant(p, id) ==
  /\ pending[p][id] # None
  /\ granted' = [granted EXCEPT ![id] = pending[p][id]]
  /\ SomeLapse
  /\ pending'[p][id] = None
  /\ UNCHANGED reviewed

Withdraw(S) ==
  /\ granted' = [id \in Ids |-> IF id \in S THEN None ELSE granted[id]]
  /\ SomeLapse
  /\ \A p \in Procs, id \in S : pending'[p][id] = None
  /\ UNCHANGED reviewed

Next ==
  \/ \E id \in Ids, d \in Digests : Show(id, d)
  \/ \E p \in Procs : Confirm(p)
  \/ \E p \in Procs, id \in Ids : Grant(p, id)
  \/ \E S \in SUBSET Ids : Withdraw(S)

Spec == Init /\ [][Next]_regvars
=============================================================================
