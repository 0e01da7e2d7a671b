---------------------------- MODULE SecretEgress ----------------------------
(***************************************************************************)
(* One delegated call of an upstream service: secretTransport.RoundTrip    *)
(* and secretUseService.Do in the extension, serveEgress and               *)
(* CopyEgressResponse in the Host, and the upstream response that streams  *)
(* through both while either end may give up.                              *)
(*                                                                         *)
(* The request that carries the call may run inside a user's request (its  *)
(* lease), whose end the Host propagates; it always runs inside a context  *)
(* with a deadline, which covers the response body too.  A response is     *)
(* Length chunks; their bytes, and all headers but the ones that decide    *)
(* something, are left out.                                                *)
(***************************************************************************)
EXTENDS HostErrors

CONSTANTS
  Length,    \* the number of chunks in the upstream's whole response
  Requests,  \* the requests an extension may delegate
  Hosts      \* what the Host may hold: capability, binding, injected header

ASSUME LengthAssumption == Length \in Nat \ {0}

HeaderName == {"authorization", "apiKey", "plain"}
Request == [service : BOOLEAN, body : {"fine", "broken", "huge"}, ref : BOOLEAN,
            url : {"none", "bad", "good"}, method : {"valid", "invalid"},
            header : SUBSET HeaderName, deadline : BOOLEAN, scoped : BOOLEAN]
HostState == [granted : BOOLEAN, down : BOOLEAN, bound : BOOLEAN,
              originAllowed : BOOLEAN, inject : {"authorization", "apiKey"}]

ASSUME RequestsAssumption == Requests \subseteq Request
ASSUME HostsAssumption == Hosts \subseteq HostState

VARIABLES
  req,       \* the request the extension delegates
  host,      \* the Host's side of the secret
  call,      \* "idle", "sending", "open" (body to be read), "closed", "failed"
  error,     \* what a failed call tells: a code, "context", "connection", "plain"
  ctx,       \* the call's context: "live" or "done"
  limit,     \* whose deadline it has: "none", "caller", "default"
  cancelled, \* whether the cancel function of the default deadline was called
  conn,      \* the connection to the Host: "none", "up", "dropped"
  answer,    \* the head of the Host's answer
  handler,   \* serveEgress: "none", "running", "waiting", "copying", "done"
  lease,     \* the user's request: "none", "live", "ended"
  principal, \* whether the Host tied the call to the lease
  hctx,      \* the context serveEgress works in
  upstream,  \* "none", "called", "open", "broken", "released"
  header,    \* history: the caller's headers the upstream was sent
  produced, copied, read,  \* chunks sent, passed on, read
  ending     \* how reading the body ended: "no", "eof", "error"

extension == <<req, call, error, ctx, limit, cancelled, read, ending>>
wire      == <<conn, answer>>
hostSide  == <<host, handler, lease, principal, hctx, header, copied>>
remote    == <<upstream, produced>>
vars == <<extension, wire, hostSide, remote>>

Answers == [kind : {"none", "upstream", "unmarked"}, code : {"none"}]
           \cup [kind : {"refused"}, code : Code]

TypeOK ==
  /\ req \in Requests
  /\ host \in Hosts
  /\ call \in {"idle", "sending", "open", "closed", "failed"}
  /\ error \in Code \cup {"none", "context", "connection", "plain"}
  /\ ctx \in {"live", "done"}
  /\ limit \in {"none", "caller", "default"}
  /\ cancelled \in BOOLEAN
  /\ conn \in {"none", "up", "dropped"}
  /\ answer \in Answers
  /\ handler \in {"none", "running", "waiting", "copying", "done"}
  /\ lease \in {"none", "live", "ended"}
  /\ principal \in BOOLEAN
  /\ hctx \in {"live", "done"}
  /\ upstream \in {"none", "called", "open", "broken", "released"}
  /\ header \in SUBSET HeaderName
  /\ produced \in 0 .. Length
  /\ copied \in 0 .. Length
  /\ read \in 0 .. Length
  /\ ending \in {"no", "eof", "error"}

Head(kind, code) == [kind |-> kind, code |-> code]

Init ==
  /\ req \in Requests
  /\ host \in Hosts
  /\ call = "idle" /\ error = "none"
  /\ ctx = "live" /\ limit = "none" /\ cancelled = FALSE
  /\ conn = "none" /\ answer = Head("none", "none")
  /\ handler = "none" /\ principal = FALSE /\ hctx = "live"
  /\ lease = IF req.scoped THEN "live" ELSE "none"
  /\ upstream = "none" /\ header = {}
  /\ produced = 0 /\ copied = 0 /\ read = 0
  /\ ending = "no"

-----------------------------------------------------------------------------
(***************************************************************************)
(* The extension.                                                          *)
(***************************************************************************)
\* Fault: the caller's context is used as it is.
callContext_AsIs(deadline) == IF deadline THEN "caller" ELSE "none"

\* A caller without a deadline is given the default one.
callContext(deadline) == IF deadline THEN "caller" ELSE "default"

\* Fault: the header the Host will put its own credential in stays.
SanitizeSecretEgressHeader_KeepsInjected(in, inject) == in \ {"authorization"}

\* The headers that stay: no credential of the caller's, nor the header the
\* Host will put its own in.
SanitizeSecretEgressHeader(in, inject) == in \ {"authorization", inject}

\* What Do refuses before anything is sent; the body is read first.
LocalError(q) ==
  CASE ~q.service        -> "CAPABILITY_UNAVAILABLE"
    [] q.service /\ q.body = "broken" -> "plain"
    [] q.service /\ q.body # "broken"
       /\ (q.body = "huge" \/ ~q.ref \/ q.url # "good") -> "INVALID_ARGUMENT"
    [] OTHER             -> "none"

DoRefuses ==
  /\ call = "idle"
  /\ LocalError(req) # "none"
  /\ call' = "failed"
  /\ error' = LocalError(req)
  /\ UNCHANGED <<req, ctx, limit, cancelled, read, ending, wire, hostSide, remote>>

DoSends ==
  /\ call = "idle"
  /\ LocalError(req) = "none"
  /\ call' = "sending"
  /\ limit' = callContext(req.deadline)
  /\ conn' = "up"
  /\ UNCHANGED <<req, error, ctx, cancelled, read, ending, answer, hostSide, remote>>

CallerCancels ==
  /\ call \in {"sending", "open"}
  /\ ctx = "live"
  /\ ctx' = "done"
  /\ UNCHANGED <<req, call, error, limit, cancelled, read, ending, wire, hostSide, remote>>

DeadlinePasses ==
  /\ limit # "none"
  /\ CallerCancels

\* Every failure of a call that was sent calls cancel.
FailWith(e) ==
  /\ call' = "failed"
  /\ error' = e
  /\ cancelled' = (limit = "default")
  /\ ctx' = IF limit = "default" THEN "done" ELSE ctx

\* stream.Do fails: the context has ended, or the connection is gone.
SendFails ==
  /\ call = "sending"
  /\ \/ ctx = "done" /\ FailWith("context")
     \/ conn = "dropped" /\ FailWith("connection")
  /\ conn' = "dropped"
  /\ UNCHANGED <<req, limit, read, ending, answer, hostSide, remote>>

\* An answer without the mark is the Host's own.  The body that would carry
\* its code may not be readable any more; the status then stands in for it.
ReceiveRefusal ==
  /\ call = "sending"
  /\ conn = "up"
  /\ \/ answer.kind = "unmarked" /\ FailWith("INCOMPATIBLE")
     \/ /\ answer.kind = "refused"
        /\ \E sent \in {answer.code, "none"} :
             FailWith(Refusal(HTTPStatusForCode(answer.code), sent).code)
  /\ UNCHANGED <<req, limit, read, ending, wire, hostSide, remote>>

\* Fault: the call's context ends with the call, not with the body.
ReceiveResponse_CancelsOnReturn ==
  /\ call = "sending"
  /\ conn = "up"
  /\ answer.kind = "upstream"
  /\ call' = "open"
  /\ cancelled' = (limit = "default")
  /\ UNCHANGED <<req, error, ctx, limit, read, ending, wire, hostSide, remote>>

\* Fault: any good status is taken for the upstream's.
ReceiveResponse_Unmarked ==
  /\ call = "sending"
  /\ conn = "up"
  /\ answer.kind \in {"upstream", "unmarked"}
  /\ call' = "open"
  /\ UNCHANGED <<req, error, ctx, limit, cancelled, read, ending, wire, hostSide, remote>>

ReceiveResponse ==
  /\ call = "sending"
  /\ conn = "up"
  /\ answer.kind = "upstream"
  /\ call' = "open"
  /\ UNCHANGED <<req, error, ctx, limit, cancelled, read, ending, wire, hostSide, remote>>

Read ==
  /\ call = "open"
  /\ ending = "no"
  /\ read < copied
  /\ read' = read + 1
  /\ UNCHANGED <<req, call, error, ctx, limit, cancelled, ending, wire, hostSide, remote>>

\* The chunked answer ends when the handler has returned.
ReadEnds ==
  /\ call = "open"
  /\ ending = "no"
  /\ \/ handler = "done" /\ conn = "up" /\ read = copied /\ ending' = "eof"
     \/ (ctx = "done" \/ conn = "dropped") /\ ending' = "error"
  /\ UNCHANGED <<req, call, error, ctx, limit, cancelled, read, wire, hostSide, remote>>

\* cancelOnClose: a body that was not read to its end takes the connection along.
Close ==
  /\ call = "open"
  /\ call' = "closed"
  /\ cancelled' = (limit = "default")
  /\ ctx' = IF limit = "default" THEN "done" ELSE ctx
  /\ conn' = IF ending = "eof" THEN conn ELSE "dropped"
  /\ UNCHANGED <<req, error, limit, read, ending, answer, hostSide, remote>>

\* The transport drops the connection of a call whose context has ended.
TransportAborts ==
  /\ call = "open"
  /\ ctx = "done"
  /\ conn = "up"
  /\ handler # "done"
  /\ conn' = "dropped"
  /\ UNCHANGED <<extension, answer, hostSide, remote>>

\* The network: the connection breaks by itself.
ConnectionBreaks ==
  /\ call \in {"sending", "open"}
  /\ conn = "up"
  /\ conn' = "dropped"
  /\ UNCHANGED <<extension, answer, hostSide, remote>>

-----------------------------------------------------------------------------
(***************************************************************************)
(* The Host.                                                               *)
(***************************************************************************)
\* serveEgress and the service behind it, in their order: capability, method,
\* the Secret Store, the binding, its origins.
Verdict(q, h) ==
  CASE ~h.granted -> "PERMISSION_DENIED"
    [] h.granted /\ q.method = "invalid" -> "INVALID_ARGUMENT"
    [] h.granted /\ q.method = "valid" /\ h.down -> "HOST_UNAVAILABLE"
    [] h.granted /\ q.method = "valid" /\ ~h.down /\ ~h.bound -> "NOT_FOUND"
    [] h.granted /\ q.method = "valid" /\ ~h.down /\ h.bound /\ ~h.originAllowed
         -> "PERMISSION_DENIED"
    [] OTHER -> "none"

\* A request that left may arrive although its sender has gone.
Arrives ==
  /\ conn # "none"
  /\ handler = "none"
  /\ handler' = "running"
  /\ principal' = (lease = "live")
  /\ UNCHANGED <<extension, wire, host, lease, hctx, header, copied, remote>>

Answer(a) == answer' = a /\ UNCHANGED conn

HostRefuses ==
  /\ handler = "running"
  /\ Verdict(req, host) # "none"
  /\ Answer(Head("refused", Verdict(req, host)))
  /\ handler' = "done"
  /\ UNCHANGED <<extension, host, lease, principal, hctx, header, copied, remote>>

\* A Host that does not mark what came from the upstream.
HostAnswersUnmarked ==
  /\ handler = "running"
  /\ Answer(Head("unmarked", "none"))
  /\ handler' = "done"
  /\ UNCHANGED <<extension, host, lease, principal, hctx, header, copied, remote>>

CallUpstream ==
  /\ handler = "running"
  /\ Verdict(req, host) = "none"
  /\ handler' = "waiting"
  /\ upstream' = "called"
  /\ header' = SanitizeSecretEgressHeader(
                 SanitizeSecretEgressHeader(req.header, "authorization"), host.inject)
  /\ UNCHANGED <<extension, wire, host, lease, principal, hctx, copied, produced>>

\* The upstream request carries the context of the call.
Interrupted == hctx = "done"

\* The upstream cannot be reached, or the Host's context has ended: the same code.
UpstreamFails ==
  /\ handler = "waiting"
  /\ upstream = "called"
  /\ upstream' = "released"
  /\ handler' = "done"
  /\ Answer(Head("refused", "TEMPORARY_FAILURE"))
  /\ UNCHANGED <<extension, host, lease, principal, hctx, header, copied, produced>>

UpstreamCancelled == Interrupted /\ UpstreamFails

\* Whatever its status, an answer of the upstream's is passed on, marked.
UpstreamAnswers ==
  /\ handler = "waiting"
  /\ upstream = "called"
  /\ upstream' = "open"
  /\ handler' = "copying"
  /\ Answer(Head("upstream", "none"))
  /\ UNCHANGED <<extension, host, lease, principal, hctx, header, copied, produced>>

Available == copied < produced

CopyChunk ==
  /\ handler = "copying"
  /\ Available
  /\ copied' = copied + 1
  /\ UNCHANGED <<extension, wire, host, handler, lease, principal, hctx, header, remote>>

\* A read that fails ends the copy as the end of the response does; so does a
\* write to a connection that is gone.
CopyOver ==
  \/ copied = Length
  \/ copied = produced /\ upstream = "broken"
  \/ Interrupted
  \/ copied < produced /\ conn = "dropped"

CopyEnds ==
  /\ handler = "copying"
  /\ CopyOver
  /\ handler' = "done"
  /\ upstream' = "released"
  /\ UNCHANGED <<extension, wire, host, lease, principal, hctx, header, copied, produced>>

Serving == handler \in {"running", "waiting", "copying"}

EndHostContext ==
  /\ Serving
  /\ hctx = "live"
  /\ hctx' = "done"
  /\ UNCHANGED <<extension, wire, host, handler, lease, principal, header, copied, remote>>

\* The server notices that its client has gone.
HostNotices == conn = "dropped" /\ EndHostContext

\* Fault: the call goes on without regard to the user's request.
TiedToLease_Never == FALSE

TiedToLease == principal

\* context.AfterFunc of the lease.
LeaseFires == TiedToLease /\ lease = "ended" /\ EndHostContext

LeaseEnds ==
  /\ lease = "live"
  /\ lease' = "ended"
  /\ UNCHANGED <<extension, wire, host, handler, principal, hctx, header, copied, remote>>

-----------------------------------------------------------------------------
(***************************************************************************)
(* The upstream.                                                           *)
(***************************************************************************)
UpstreamWrites ==
  /\ upstream = "open"
  /\ produced < Length
  /\ produced' = produced + 1
  /\ UNCHANGED <<extension, wire, hostSide, upstream>>

UpstreamBreaks ==
  /\ upstream = "open"
  /\ produced < Length
  /\ upstream' = "broken"
  /\ UNCHANGED <<extension, wire, hostSide, produced>>

\* The call is over and nothing is left to happen.
Settled ==
  /\ call \in {"closed", "failed"}
  /\ handler \in {"none", "done"}
  /\ UNCHANGED vars

Client  == DoRefuses \/ DoSends \/ SendFails \/ ReceiveRefusal \/ ReceiveResponse
           \/ TransportAborts
Reader  == Read \/ ReadEnds \/ Close \/ CallerCancels
Handler == HostRefuses \/ CallUpstream \/ UpstreamCancelled \/ CopyChunk \/ CopyEnds
Network == Arrives \/ ConnectionBreaks \/ HostAnswersUnmarked
Remote  == UpstreamFails \/ UpstreamAnswers \/ UpstreamWrites \/ UpstreamBreaks

Next ==
  \/ Client \/ Reader \/ DeadlinePasses
  \/ Network \/ Handler \/ HostNotices \/ LeaseFires \/ LeaseEnds
  \/ Remote
  \/ Settled

\* The two processes run; nothing is assumed of the network, of the upstream,
\* of whoever reads the body, or of the clock.
Fairness == WF_vars(Client) /\ WF_vars(Handler) /\ WF_vars(HostNotices) /\ WF_vars(LeaseFires)

Spec == Init /\ [][Next]_vars /\ Fairness

-----------------------------------------------------------------------------
(***************************************************************************)
(* Properties.                                                             *)
(***************************************************************************)
\* The context of a call with the default deadline is released on every way
\* out, and never before the caller has closed the body it is needed to read
\* (host_extensions.go: cancel is tied to the Close of the body).
ContextFollowsBody ==
  /\ cancelled => call \in {"closed", "failed"}
  /\ call \in {"closed", "failed"} /\ limit = "default" => cancelled

\* A response handed to the caller is the upstream's, and a code the Host gave
\* is never given for a call the upstream has answered (the comment on
\* SecretUseService: a response if the upstream answered, an error otherwise).
ResponseIsUpstreams ==
  /\ call \in {"open", "closed"} => answer.kind = "upstream"
  /\ call = "failed" /\ error \in Code => answer.kind # "upstream"

\* The code of a refusal survives the trip over an HTTP status, whether or not
\* the body that spells it out could still be read.
RefusalKeepsItsCode ==
  call = "failed" /\ answer.kind = "refused" /\ error \in Code => error = answer.code

\* The upstream is only contacted for a request that passed every check on both
\* sides, and hears no credential but the one the Host puts in.
UpstreamSeesOnlyTheBinding ==
  upstream # "none" =>
    /\ LocalError(req) = "none"
    /\ host.granted /\ ~host.down /\ host.bound /\ host.originAllowed
    /\ header = req.header \ {"authorization", host.inject}

Held == upstream \in {"called", "open", "broken"}

\* An upstream call is ended, without the help of a clock, once its caller is no
\* longer there - it gave up, closed the body early or lost the connection - and
\* once the user's request it was made for has ended, although the extension may
\* still be waiting or reading (secret_use.go: cancellation and deadline reach
\* the upstream call).
GivingUpReachesUpstream ==
  Held /\ (conn = "dropped" \/ (principal /\ lease = "ended")) ~> ~Held

\* Provided that deadlines pass, no call waits for ever for the head of an
\* answer, and the upstream's connection is given back in the end: even if the
\* Host never answers, the caller set no deadline and never closes the body, and
\* the upstream never ends it.
DeadlinesEndCalls ==
  WF_vars(DeadlinePasses) => (call = "sending" ~> call # "sending") /\ (Held ~> ~Held)

\* What "the upstream response is streamed as it is" promises of one that was
\* read to its end (secret_use.go).
EofMeansWhole == ending = "eof" => read = Length

-----------------------------------------------------------------------------
\* For its caller and for the service all of this is an UpstreamCall: what speaks
\* against a request is what the extension finds first and, if it finds nothing,
\* the Host; a service whose answer broke off is done with the call
\* (secret_use.go, SecretUseService).
Reason ==
  IF LocalError(req) # "none" THEN LocalError(req) ELSE Verdict(req, host)

Word ==
  CASE answer.kind = "none"     -> "none"
    [] answer.kind = "upstream" -> "response"
    [] answer.kind = "unmarked" -> "INCOMPATIBLE"
    [] answer.kind = "refused"  -> answer.code

Service ==
  CASE upstream = "none"                   -> "untouched"
    [] upstream = "called"                 -> "called"
    [] upstream = "open"                   -> "answering"
    [] upstream \in {"broken", "released"} -> "over"

Promise == INSTANCE UpstreamCall WITH
  Unsure <- {"context", "connection"}, Foreign <- "INCOMPATIBLE",
  Unreachable <- "TEMPORARY_FAILURE",
  reason <- Reason, clean <- req.header \ {"authorization", host.inject},
  caller <- call, told <- error, word <- Word, service <- Service, heard <- header,
  sent <- produced, got <- read, end <- ending

ImplementsUpstreamCall == Promise!Spec
=============================================================================
