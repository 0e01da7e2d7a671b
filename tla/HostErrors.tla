----------------------------- MODULE HostErrors -----------------------------
(***************************************************************************)
(* The error contract between the Host and an extension: the codes, their  *)
(* HTTP statuses in both directions, what hostclient.go makes of a failed  *)
(* attempt, and whether it tries again.  A status is 0 where there is no   *)
(* HTTP answer, a code is "none" where the Host sent none (an older Core). *)
(***************************************************************************)
EXTENDS Naturals

Code ==
  {"CAPABILITY_UNAVAILABLE", "PERMISSION_DENIED", "HOST_UNAVAILABLE",
   "INVALID_ARGUMENT", "NOT_FOUND", "CONFLICT", "INCOMPATIBLE", "RATE_LIMITED",
   "TEMPORARY_FAILURE", "INTERNAL"}

HTTPStatusForCode(c) ==
  CASE c \in {"CAPABILITY_UNAVAILABLE", "PERMISSION_DENIED"} -> 403
    [] c = "HOST_UNAVAILABLE"  -> 503
    [] c = "INVALID_ARGUMENT"  -> 400
    [] c = "NOT_FOUND"         -> 404
    [] c = "CONFLICT"          -> 409
    [] c = "INCOMPATIBLE"      -> 412
    [] c = "RATE_LIMITED"      -> 429
    [] c = "TEMPORARY_FAILURE" -> 502
    [] OTHER                   -> 500

\* Fault: a bad gateway is taken for an error inside the Host.
CodeForHTTPStatus_NoGateway(status) ==
  CASE status \in {401, 403} -> "PERMISSION_DENIED"
    [] status = 404          -> "NOT_FOUND"
    [] status = 503          -> "HOST_UNAVAILABLE"
    [] status \in 400 .. 499 /\ status \notin {401, 403, 404} -> "INVALID_ARGUMENT"
    [] OTHER                 -> "INTERNAL"

CodeForHTTPStatus(status) ==
  CASE status \in {401, 403} -> "PERMISSION_DENIED"
    [] status = 404          -> "NOT_FOUND"
    [] status = 409          -> "CONFLICT"
    [] status = 412          -> "INCOMPATIBLE"
    [] status = 429          -> "RATE_LIMITED"
    [] status = 503          -> "HOST_UNAVAILABLE"
    [] status \in {502, 504} -> "TEMPORARY_FAILURE"
    [] status \in 400 .. 499 /\ status \notin {401, 403, 404, 409, 412, 429} -> "INVALID_ARGUMENT"
    [] status >= 500 /\ status \notin {502, 503, 504} -> "INTERNAL"
    [] OTHER                 -> "none"

RetryableCode(c) == c = "TEMPORARY_FAILURE"

-----------------------------------------------------------------------------
(***************************************************************************)
(* What one attempt comes to: a good answer, a refusal by the Host (an     *)
(* error status), the loss of the connection before or after the answer    *)
(* has begun, a 2xx answer that cannot be decoded, or the end of the       *)
(* attempt's context (a cancellation or a time limit).                     *)
(***************************************************************************)
Outcomes ==
  [what : {"none", "good", "lost", "garbled", "ended", "refused"},
   status : Nat, code : Code \cup {"none"}]

Outcome(what) == [what |-> what, status |-> 0, code |-> "none"]

None    == Outcome("none")
Good    == Outcome("good")
Lost    == Outcome("lost")
Garbled == Outcome("garbled")
Ended   == Outcome("ended")

\* hostErrorFrom: a code the Host did not send is derived from the status.
Refusal(status, code) ==
  [what |-> "refused", status |-> status,
   code |-> IF code = "none" THEN CodeForHTTPStatus(status) ELSE code]

\* Fault: every error status is worth another attempt.
retryableHostError_AnyStatus(o) == o.what \in {"refused", "lost", "garbled"}

\* An outcome that is neither a HostError nor the end of a context is retried,
\* whatever it is.
retryableHostError(o) ==
  \/ o.what = "refused" /\ (RetryableCode(o.code) \/ o.code = "HOST_UNAVAILABLE")
  \/ o.what \in {"lost", "garbled"}
=============================================================================
