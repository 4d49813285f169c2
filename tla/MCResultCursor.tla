--------------------------- MODULE MCResultCursor ---------------------------
(* Instances of ResultCursor for TLC.                                      *)
EXTENDS ResultCursor, TLC

(* An update, an empty result, a result of three rows, two results.        *)
MCPrograms == {<<>>, <<0>>, <<3>>, <<2, 1>>}

Symmetry == Permutations(Statements)
=============================================================================
