--------------------------- MODULE MCRequestLease ---------------------------
(***************************************************************************)
(* Model-checking instance of RequestLease: two users, a request of each   *)
(* and one without an identity, and one Host API call.  Calls share no     *)
(* state but the leases, which they only read, so a second call would add  *)
(* interleavings and no new behaviour; the one call may carry the token of *)
(* any request, or a forged one, and the name of either user.              *)
(***************************************************************************)
EXTENDS RequestLease

CONSTANTS alice, bob, i1, i2, i3

MCUserOf == [i \in {i1, i2, i3} |->
              IF i = i1 THEN alice ELSE IF i = i2 THEN bob ELSE NoUser]
=============================================================================
