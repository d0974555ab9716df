--------------------------- MODULE MCTestHarness ---------------------------
(* Two tests: the first pass has up to four jobs, so that a pool of two      *)
(* fills up in it and a pool of four never does.                             *)
EXTENDS TestHarness

MCTestCount == 2
MCSettings == {[limit |-> 2, asserted |-> {1, 2}],
               [limit |-> 4, asserted |-> {2}]}
MCKinds == {"compile", "compile assertion", "run", "assert"}
MCJobs == MCKinds \X (1..MCTestCount)
=============================================================================
