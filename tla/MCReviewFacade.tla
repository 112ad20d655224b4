--------------------------- MODULE MCReviewFacade ---------------------------
(* Small instances of ReviewFacade. *)
EXTENDS ReviewFacade, TLC

CONSTANTS o1, o2

Config == [entries |-> 1, known |-> TRUE, enabled |-> TRUE, pins |-> "both", org |-> o1,
           denied |-> {}]

\* A pinned alias; a pinned one that was denied; an unknown alias, where every
\* org is denied (which one is denied makes the server serve as a pin does); an
\* incomplete pin; a duplicate.
MCConfigs ==
  {Config, [Config EXCEPT !.denied = {o1}], [Config EXCEPT !.entries = 0, !.denied = {o1, o2}],
   [Config EXCEPT !.pins = "one"], [Config EXCEPT !.entries = 2]}

Symmetry == Permutations(Requests)
=============================================================================
