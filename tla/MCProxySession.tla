--------------------------- MODULE MCProxySession ---------------------------
(* Instances of ProxySession for TLC.                                      *)
EXTENDS ProxySession
=============================================================================
