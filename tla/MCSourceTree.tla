---------------------------- MODULE MCSourceTree ----------------------------
(* A small instance of SourceTree: an object, a field of it and a class that *)
(* refers to them.                                                           *)
EXTENDS SourceTree, TLC

CONSTANTS obj, fld, cls, v1, v2

MCOwner == [n \in Names |-> IF n = fld THEN obj ELSE None]
MCToken == [n \in Names |-> n]

Edge(form, target) == [form |-> form, target |-> target]

Plain == [labels |-> <<>>, rows |-> <<>>, edges |-> {}]

\* The second version of the class has a row more and its label twice; the
\* second collector reads no bare tokens.
ClassFacts(code, v) ==
  [labels |-> IF v = v1 THEN <<1>> ELSE <<1, 1>>,
   rows |-> IF v = v1 \/ code = 1 THEN <<[key |-> 1, value |-> 1]>>
            ELSE <<[key |-> 1, value |-> 1], [key |-> 1, value |-> 2]>>,
   edges |-> {Edge("declared", obj), Edge("dotted", fld)}
               \cup IF code = 0 THEN {Edge("bare", fld)} ELSE {}]

\* The class changes in every way, the other files may be removed.
MCContents ==
  [n \in Names |-> IF n = cls THEN {v1, v2, Broken} ELSE {v1}]

MCFactsOf ==
  [code \in 0 .. 1 |->
     [n \in Names |->
        [v \in Contents[n] \ {Broken} |->
           IF n = cls THEN ClassFacts(code, v) ELSE Plain]]]
=============================================================================
