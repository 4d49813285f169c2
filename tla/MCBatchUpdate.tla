--------------------------- MODULE MCBatchUpdate ---------------------------
(* Instances of BatchUpdate for TLC.                                       *)
EXTENDS BatchUpdate
=============================================================================
