-------------------------- MODULE MCServerRestart --------------------------
(* Instances of ServerRestart for TLC.                                     *)
EXTENDS ServerRestart
=============================================================================
