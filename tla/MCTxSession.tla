---------------------------- MODULE MCTxSession ----------------------------
(* Instances of TxSession for TLC.                                         *)
EXTENDS TxSession
=============================================================================
