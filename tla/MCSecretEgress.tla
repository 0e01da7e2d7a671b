--------------------------- MODULE MCSecretEgress ---------------------------
(***************************************************************************)
(* SecretEgress on a response of two chunks.  A request is good in all but *)
(* at most one respect and comes with every deadline and scope; so with    *)
(* the Host.  The reasons to refuse exclude one another in the code, which *)
(* reports the first, so one at a time reaches every branch; the order of  *)
(* two is exercised by an ungranted Host and an invalid method.            *)
(***************************************************************************)
EXTENDS SecretEgress

GoodRequest(deadline, scoped) ==
  [service |-> TRUE, body |-> "fine", ref |-> TRUE, url |-> "good", method |-> "valid",
   header |-> HeaderName, deadline |-> deadline, scoped |-> scoped]

RequestsNearGood ==
  UNION { LET q == GoodRequest(d, s)
          IN {q, [q EXCEPT !.service = FALSE], [q EXCEPT !.body = "broken"],
              [q EXCEPT !.body = "huge"], [q EXCEPT !.ref = FALSE],
              [q EXCEPT !.url = "none"], [q EXCEPT !.url = "bad"],
              [q EXCEPT !.method = "invalid"], [q EXCEPT !.header = {"plain"}]}
          : d \in BOOLEAN, s \in BOOLEAN }

GoodHost(inject) ==
  [granted |-> TRUE, down |-> FALSE, bound |-> TRUE, originAllowed |-> TRUE, inject |-> inject]

HostsNearGood ==
  UNION { LET h == GoodHost(i)
          IN {h, [h EXCEPT !.granted = FALSE], [h EXCEPT !.down = TRUE],
              [h EXCEPT !.bound = FALSE], [h EXCEPT !.originAllowed = FALSE]}
          : i \in {"authorization", "apiKey"} }
=============================================================================
