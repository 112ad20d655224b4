------------------------- MODULE MCOperationSession -------------------------
(* Small instances of OperationSession.                                      *)
EXTENDS OperationSession, TLC

CONSTANTS t1, t2

\* t1 is a configured sandbox that a later version calls production; t2 is
\* not configured at first.
MCConfiguredEnv ==
  [v \in 0 .. MaxConfig |->
     [t \in Targets |-> IF t = t1 THEN IF v = 0 THEN "nonprod" ELSE "prod"
                        ELSE IF v = 0 THEN None ELSE "nonprod"]]

Symmetry == Permutations(Calls)
=============================================================================
