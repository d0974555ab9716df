------------------------------ MODULE MCRunner ------------------------------
(* Runners of up to MaxCalls registrations, the types among them chosen in *)
(* every way and numbered in their order.                                  *)
EXTENDS Runner, FiniteSets

CONSTANT MaxCalls

MCCallLists ==
  UNION {{[i \in 1..n |->
             [stmt |-> i - 1,
              placeholder |-> IF i \in types THEN Cardinality({j \in types : j < i}) ELSE -1]] :
            types \in SUBSET (1..n)} : n \in 0..MaxCalls}
=============================================================================
