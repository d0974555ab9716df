--------------------------- MODULE MCBuildScript ---------------------------
(* Two edits are enough for a source that changes before and during a        *)
(* build, two invocations for files an earlier one left, and two times for  *)
(* an edit that is seen and one that is not.                                 *)
EXTENDS BuildScript

MCCommandLines == {<<>>, <<"test">>, <<"debug">>, <<"clean">>,
                   <<"test", "debug">>}
=============================================================================
