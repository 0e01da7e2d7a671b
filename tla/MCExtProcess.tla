---------------------------- MODULE MCExtProcess ----------------------------
(***************************************************************************)
(* Model-checking instance of ExtProcess: two connections, so that one     *)
(* request can be stuck in its handler while another comes and goes.       *)
(***************************************************************************)
EXTENDS ExtProcess
=============================================================================
