---------------------------- MODULE UpstreamCall ----------------------------
(***************************************************************************)
(* What the caller of secret.use and the service behind it may rely on     *)
(* (the comments on SecretUseService).  Contexts, deadlines, leases, the   *)
(* connection and the copying in the Host do not show: a request that      *)
(* something speaks against is refused for that reason; any other is put   *)
(* to the service, once at most and without the caller's credentials.  The *)
(* caller is given what the service answers, or the one reason why there   *)
(* is no answer, or is left unsure.  What it reads was sent, in order; at  *)
(* the end of it the service is done with the call, if not with its        *)
(* answer.                                                                 *)
(***************************************************************************)
EXTENDS Naturals

CONSTANTS
  Length,       \* the pieces of the service's whole answer
  Unsure,       \* failures that do not tell what became of the request
  Foreign,      \* the failure of a Host that says nothing of this kind
  Unreachable   \* the failure of a service that does not answer

VARIABLES
  reason,    \* what speaks against the request: an error, or "none"
  clean,     \* its headers, without the caller's credentials
  caller,    \* "idle", "sending", "open" (the answer can be read), "closed", "failed"
  told,      \* the error the caller is told
  word,      \* the Host's: "none" yet, "response", or an error
  service,   \* "untouched", "called", "answering", "over"
  heard,     \* the headers the service was sent
  sent, got, \* pieces of the answer the service has sent, and the caller read
  end        \* how that ended: "no", "eof", "error"

request == <<reason, clean>>
asker   == <<caller, told>>
answer  == <<sent, got, end>>
vars == <<request, asker, word, service, heard, answer>>

Init ==
  /\ caller = "idle" /\ told = "none" /\ word = "none"
  /\ service = "untouched" /\ heard = {}
  /\ sent = 0 /\ got = 0 /\ end = "no"

CallerGoes(from, to) == caller = from /\ caller' = to

Ask ==
  /\ CallerGoes("idle", "sending")
  /\ UNCHANGED <<request, told, word, service, heard, answer>>

Fail(from, error) ==
  /\ CallerGoes(from, "failed")
  /\ told' = error
  /\ UNCHANGED <<request, word, service, heard, answer>>

RefuseAtOnce == reason # "none" /\ Fail("idle", reason)
Lose == \E e \in Unsure : Fail("sending", e)
Learn == word \notin {"none", "response"} /\ Fail("sending", word)

\* The Host refuses, for the one reason there is or because it does not understand.
Refuse ==
  /\ caller # "idle" /\ word = "none" /\ service = "untouched"
  /\ word' \in {reason, Foreign} \ {"none"}
  /\ UNCHANGED <<request, asker, service, heard, answer>>

CallService ==
  /\ caller # "idle" /\ word = "none" /\ service = "untouched" /\ reason = "none"
  /\ service' = "called"
  /\ heard' = clean
  /\ UNCHANGED <<request, asker, word, answer>>

ServiceGoes(from, to) ==
  /\ service \in from
  /\ service' = to
  /\ UNCHANGED <<request, asker, heard>>

ServiceFails   == ServiceGoes({"called"}, "over") /\ word' = Unreachable /\ UNCHANGED answer
ServiceAnswers == ServiceGoes({"called"}, "answering") /\ word' = "response" /\ UNCHANGED answer
ServiceEnds    == ServiceGoes({"answering"}, "over") /\ UNCHANGED <<word, answer>>
ServiceSends ==
  /\ ServiceGoes({"answering"}, "answering")
  /\ sent < Length /\ sent' = sent + 1
  /\ UNCHANGED <<word, got, end>>

Receive ==
  /\ word = "response"
  /\ CallerGoes("sending", "open")
  /\ UNCHANGED <<request, told, word, service, heard, answer>>

Read ==
  /\ caller = "open" /\ end = "no" /\ got < sent
  /\ got' = got + 1
  /\ UNCHANGED <<request, asker, word, service, heard, sent, end>>

End ==
  /\ caller = "open" /\ end = "no"
  /\ end' = "error" \/ (service = "over" /\ end' = "eof")
  /\ UNCHANGED <<request, asker, word, service, heard, sent, got>>

Close ==
  /\ CallerGoes("open", "closed")
  /\ UNCHANGED <<request, told, word, service, heard, answer>>

Next ==
  \/ Ask \/ RefuseAtOnce \/ Lose \/ Learn \/ Receive \/ Read \/ End \/ Close
  \/ Refuse \/ CallService
  \/ ServiceFails \/ ServiceAnswers \/ ServiceSends \/ ServiceEnds

Spec == Init /\ [][Next]_vars
=============================================================================
