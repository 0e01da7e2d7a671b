--------------------------- MODULE MCProcessLaunch ---------------------------
(***************************************************************************)
(* Model-checking instance of ProcessLaunch: two connections, so that a    *)
(* health request can hang while the Host, once up, uses the other one.    *)
(***************************************************************************)
EXTENDS ProcessLaunch
=============================================================================
