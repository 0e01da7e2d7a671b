----------------------------- MODULE MCHostCall -----------------------------
(***************************************************************************)
(* Model-checking instance of HostCall.  The refusals are one that is      *)
(* final, one the status alone makes temporary, and one whose code is      *)
(* temporary although its status is not.                                   *)
(***************************************************************************)
EXTENDS HostCall, TLC

AllGrants == SUBSET {"config.read", "config.write"}
BothHalves == {{"config.read", "config.write"}}

MCAnswers == {<<404, "none">>, <<503, "none">>, <<500, "TEMPORARY_FAILURE">>}

\* Where only the order of effects matters, the calls may be exchanged for one
\* another (and a refusal is no different from a request that was lost).
Symmetry == Permutations(Call)
=============================================================================
