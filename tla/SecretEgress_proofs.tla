------------------------- MODULE SecretEgress_proofs -------------------------
(***************************************************************************)
(* Theorems about SecretEgress, for responses of any length and for any    *)
(* requests and Hosts: whose answer the caller gets, under which code, how *)
(* long the context of a call lives, what the upstream is sent, and that   *)
(* every step is one of an UpstreamCall.  They follow from one inductive   *)
(* invariant, IInv.                                                        *)
(***************************************************************************)
EXTENDS SecretEgress, TLAPS

\* Nothing leaves the extension that the local checks refuse, and nothing
\* reaches the Host that has not left.
ConnInv ==
  /\ conn = "none" => handler = "none"
  /\ conn # "none" => LocalError(req) = "none"
  /\ call = "idle" => conn = "none" /\ limit = "none"
  /\ call \in {"sending", "open", "closed"} => conn # "none"

\* The handler answers once, and a refusal has one of five codes.
AnswerInv ==
  /\ answer.kind = "none" <=> handler \in {"none", "running", "waiting"}
  /\ answer.kind = "refused" =>
       answer.code \in {"PERMISSION_DENIED", "INVALID_ARGUMENT", "HOST_UNAVAILABLE",
                        "NOT_FOUND", "TEMPORARY_FAILURE"}

\* The handler waits for, and copies from, the upstream it called, and holds it
\* as long as it does; nothing is copied before it was sent, nor read before it
\* was copied.
PipeInv ==
  /\ handler \in {"none", "running"} => upstream = "none"
  /\ handler = "waiting" <=> upstream = "called"
  /\ handler = "copying" <=> upstream \in {"open", "broken"}
  /\ answer.kind = "upstream" => upstream # "none"
  /\ read <= copied /\ copied <= produced

\* How a call that failed with a code came to it: without the Host, or by an
\* answer that is not the upstream's.
FailureInv ==
  /\ call \in {"open", "closed"} => answer.kind = "upstream"
  /\ call = "failed" /\ error \in Code =>
       \/ conn = "none"
       \/ answer.kind = "unmarked"
       \/ answer.kind = "refused" /\ error = answer.code

\* TypeOK by what it is about.
TypeCall ==
  /\ req \in Requests /\ host \in Hosts
  /\ call \in {"idle", "sending", "open", "closed", "failed"}
  /\ error \in Code \cup {"none", "context", "connection", "plain"}
  /\ ctx \in {"live", "done"}
  /\ limit \in {"none", "caller", "default"}
  /\ cancelled \in BOOLEAN
  /\ conn \in {"none", "up", "dropped"}
  /\ ending \in {"no", "eof", "error"}

TypeHost ==
  /\ answer \in Answers
  /\ handler \in {"none", "running", "waiting", "copying", "done"}
  /\ lease \in {"none", "live", "ended"}
  /\ principal \in BOOLEAN
  /\ hctx \in {"live", "done"}
  /\ upstream \in {"none", "called", "open", "broken", "released"}
  /\ header \in SUBSET HeaderName

TypeCounts ==
  /\ produced \in 0 .. Length
  /\ copied \in 0 .. Length
  /\ read \in 0 .. Length

IInv == TypeOK /\ ConnInv /\ AnswerInv /\ PipeInv /\ FailureInv /\ ContextFollowsBody
        /\ UpstreamSeesOnlyTheBinding

-----------------------------------------------------------------------------
(* What the client makes of the statuses the Host refuses with.             *)
LEMMA CodesOfStatuses ==
  /\ CodeForHTTPStatus(403) = "PERMISSION_DENIED"
  /\ CodeForHTTPStatus(400) = "INVALID_ARGUMENT"
  /\ CodeForHTTPStatus(503) = "HOST_UNAVAILABLE"
  /\ CodeForHTTPStatus(404) = "NOT_FOUND"
  /\ CodeForHTTPStatus(502) = "TEMPORARY_FAILURE"
<1>1. CodeForHTTPStatus(403) = "PERMISSION_DENIED"
  BY SMTT(60) DEF CodeForHTTPStatus
<1>2. CodeForHTTPStatus(400) = "INVALID_ARGUMENT"
  BY SMTT(60) DEF CodeForHTTPStatus
<1>3. CodeForHTTPStatus(503) = "HOST_UNAVAILABLE"
  BY SMTT(60) DEF CodeForHTTPStatus
<1>4. CodeForHTTPStatus(404) = "NOT_FOUND"
  BY SMTT(60) DEF CodeForHTTPStatus
<1>5. CodeForHTTPStatus(502) = "TEMPORARY_FAILURE"
  BY SMTT(60) DEF CodeForHTTPStatus
<1> QED
  BY <1>1, <1>2, <1>3, <1>4, <1>5

(* The codes the Host refuses with are told apart by their statuses, so the *)
(* client finds the code again when only the status is left.                *)
LEMMA CodeSurvives ==
  ASSUME NEW c \in {"PERMISSION_DENIED", "INVALID_ARGUMENT", "HOST_UNAVAILABLE",
                    "NOT_FOUND", "TEMPORARY_FAILURE"},
         NEW sent \in {c, "none"}
  PROVE  Refusal(HTTPStatusForCode(c), sent).code = c
<1>1. /\ c = "PERMISSION_DENIED" => HTTPStatusForCode(c) = 403
      /\ c = "INVALID_ARGUMENT" => HTTPStatusForCode(c) = 400
      /\ c = "HOST_UNAVAILABLE" => HTTPStatusForCode(c) = 503
      /\ c = "NOT_FOUND" => HTTPStatusForCode(c) = 404
      /\ c = "TEMPORARY_FAILURE" => HTTPStatusForCode(c) = 502
  BY SMTT(60) DEF HTTPStatusForCode
<1>2. CodeForHTTPStatus(HTTPStatusForCode(c)) = c
  BY <1>1, CodesOfStatuses
<1> QED
  BY <1>2 DEF Refusal

(* A verdict is a code the client can find again, or a Host and a request   *)
(* that passed every check.                                                 *)
LEMMA VerdictRange ==
  ASSUME NEW q \in Request, NEW h \in HostState
  PROVE  /\ Verdict(q, h) \in {"none", "PERMISSION_DENIED", "INVALID_ARGUMENT",
                               "HOST_UNAVAILABLE", "NOT_FOUND"}
         /\ Verdict(q, h) = "none" => h.granted /\ ~h.down /\ h.bound /\ h.originAllowed
BY DEF Verdict, Request, HostState

LEMMA LocalErrorRange ==
  ASSUME NEW q \in Request
  PROVE  LocalError(q) \in {"none", "CAPABILITY_UNAVAILABLE", "plain", "INVALID_ARGUMENT"}
BY DEF LocalError, Request

\* What ReceiveRefusal makes of a refusal.
LEMMA RefusalCode ==
  ASSUME AnswerInv, answer.kind = "refused", NEW sent \in {answer.code, "none"}
  PROVE  Refusal(HTTPStatusForCode(answer.code), sent).code = answer.code
BY CodeSurvives DEF AnswerInv

-----------------------------------------------------------------------------
LEMMA TypeParts == TypeOK <=> TypeCall /\ TypeHost /\ TypeCounts
BY Zenon DEF TypeOK, TypeCall, TypeHost, TypeCounts

(* Every answer the Host gives is one of Answers.                           *)
LEMMA HeadTypes ==
  /\ Head("none", "none") \in Answers
  /\ Head("upstream", "none") \in Answers
  /\ Head("unmarked", "none") \in Answers
  /\ \A c \in Code : Head("refused", c) \in Answers
BY DEF Head, Answers

LEMMA InitInv == Init => IInv
<1> SUFFICES ASSUME Init PROVE IInv
  OBVIOUS
<1>1. answer.kind = "none"
  BY DEF Init, Head
<1>2. TypeCall
  BY DEF Init, TypeCall
<1>3. TypeHost
  BY HeadTypes DEF Init, TypeHost
<1>4. TypeCounts
  BY LengthAssumption DEF Init, TypeCounts
<1>5. ConnInv /\ AnswerInv /\ PipeInv /\ FailureInv
  BY <1>1 DEF Init, ConnInv, AnswerInv, PipeInv, FailureInv
<1>6. ContextFollowsBody /\ UpstreamSeesOnlyTheBinding
  BY DEF Init, ContextFollowsBody, UpstreamSeesOnlyTheBinding
<1> QED
  BY <1>2, <1>3, <1>4, <1>5, <1>6, TypeParts DEF IInv

(* The types.                                                               *)
LEMMA TypeCallStep ==
  ASSUME IInv, [Next]_vars
  PROVE  TypeCall'
<1> USE DEF vars, extension, wire, hostSide, remote
<1>0. TypeCall /\ AnswerInv
  BY TypeParts DEF IInv
<1>1. CASE DoRefuses
  BY <1>0, <1>1, LocalErrorRange, RequestsAssumption DEF TypeCall, DoRefuses, Code
<1>2. CASE DoSends
  BY <1>0, <1>2 DEF TypeCall, DoSends, callContext
<1>3. CASE SendFails
  <2>1. PICK e \in {"context", "connection"} : FailWith(e)
    BY <1>3 DEF SendFails
  <2> QED
    BY <1>0, <1>3, <2>1 DEF TypeCall, SendFails, FailWith
<1>4. CASE ReceiveRefusal
  <2>1. PICK e \in Code : FailWith(e)
    BY <1>0, <1>4, RefusalCode DEF ReceiveRefusal, AnswerInv, Code
  <2> QED
    BY <1>0, <1>4, <2>1 DEF TypeCall, ReceiveRefusal, FailWith
<1>5. CASE ReceiveResponse \/ TransportAborts \/ Network
  BY <1>0, <1>5 DEF TypeCall, ReceiveResponse, TransportAborts, Network, Arrives,
     ConnectionBreaks, HostAnswersUnmarked, Answer
<1>6. CASE Reader \/ DeadlinePasses
  BY <1>0, <1>6 DEF TypeCall, Reader, Read, ReadEnds, Close, CallerCancels, DeadlinePasses
<1>7. CASE Handler
  BY <1>0, <1>7 DEF TypeCall, Handler, HostRefuses, CallUpstream, UpstreamCancelled,
     UpstreamFails, CopyChunk, CopyEnds, Answer
<1>8. CASE HostNotices \/ LeaseFires \/ LeaseEnds \/ Settled \/ UNCHANGED vars
  BY <1>0, <1>8 DEF TypeCall, HostNotices, LeaseFires, LeaseEnds, EndHostContext, Settled
<1>9. CASE Remote
  BY <1>0, <1>9 DEF TypeCall, Remote, UpstreamFails, UpstreamAnswers, UpstreamWrites,
     UpstreamBreaks, Answer
<1> QED
  BY <1>1, <1>2, <1>3, <1>4, <1>5, <1>6, <1>7, <1>8, <1>9 DEF Next, Client

LEMMA TypeHostStep ==
  ASSUME IInv, [Next]_vars
  PROVE  TypeHost'
<1> USE DEF vars, extension, wire, hostSide, remote
<1>0. TypeHost /\ TypeCall
  BY TypeParts DEF IInv
<1>1. CASE Client
  BY <1>0, <1>1 DEF TypeHost, Client, DoRefuses, DoSends, SendFails, ReceiveRefusal,
     ReceiveResponse, TransportAborts
<1>2. CASE Reader \/ DeadlinePasses
  BY <1>0, <1>2 DEF TypeHost, Reader, Read, ReadEnds, Close, CallerCancels, DeadlinePasses
<1>3. CASE Network
  BY <1>0, <1>3, HeadTypes
     DEF TypeHost, Network, Arrives, ConnectionBreaks, HostAnswersUnmarked, Answer
<1>4. CASE HostRefuses
  <2>1. Verdict(req, host) \in Code
    BY <1>0, <1>4, VerdictRange, RequestsAssumption, HostsAssumption
       DEF TypeCall, HostRefuses, Code
  <2> QED
    BY <1>0, <1>4, <2>1, HeadTypes DEF TypeHost, HostRefuses, Answer
<1>5. CASE CallUpstream
  <2>1. req.header \in SUBSET HeaderName
    BY <1>0, RequestsAssumption DEF TypeCall, Request
  <2> QED
    BY <1>0, <1>5, <2>1 DEF TypeHost, CallUpstream, SanitizeSecretEgressHeader
<1>6. CASE CopyChunk \/ CopyEnds
  BY <1>0, <1>6 DEF TypeHost, CopyChunk, CopyEnds
<1>7. CASE HostNotices \/ LeaseFires \/ LeaseEnds \/ Settled \/ UNCHANGED vars
  BY <1>0, <1>7 DEF TypeHost, HostNotices, LeaseFires, LeaseEnds, EndHostContext, Settled
<1>8. CASE UpstreamCancelled \/ Remote
  <2>1. "TEMPORARY_FAILURE" \in Code
    BY DEF Code
  <2> QED
    BY <1>0, <1>8, <2>1, HeadTypes
       DEF TypeHost, UpstreamCancelled, Remote, UpstreamFails, UpstreamAnswers,
           UpstreamWrites, UpstreamBreaks, Answer
<1> QED
  BY <1>1, <1>2, <1>3, <1>4, <1>5, <1>6, <1>7, <1>8 DEF Next, Handler

LEMMA TypeCountsStep ==
  ASSUME IInv, [Next]_vars
  PROVE  TypeCounts'
<1> USE DEF vars, extension, wire, hostSide, remote
<1>0. TypeCounts /\ Length \in Nat
  BY TypeParts, LengthAssumption DEF IInv
<1>1. CASE Read
  BY <1>0, <1>1 DEF TypeCounts, Read
<1>2. CASE CopyChunk
  BY <1>0, <1>2 DEF TypeCounts, CopyChunk, Available
<1>3. CASE UpstreamWrites
  BY <1>0, <1>3 DEF TypeCounts, UpstreamWrites
<1>4. ASSUME UNCHANGED <<read, copied, produced>> PROVE TypeCounts'
  BY <1>0, <1>4 DEF TypeCounts
<1>5. CASE Client
  BY <1>4, <1>5 DEF Client, DoRefuses, DoSends, SendFails, ReceiveRefusal,
     ReceiveResponse, TransportAborts
<1>6. CASE ReadEnds \/ Close \/ CallerCancels \/ DeadlinePasses
  BY <1>4, <1>6 DEF ReadEnds, Close, CallerCancels, DeadlinePasses
<1>7. CASE Network
  BY <1>4, <1>7 DEF Network, Arrives, ConnectionBreaks, HostAnswersUnmarked
<1>8. CASE HostRefuses \/ CallUpstream \/ UpstreamCancelled \/ CopyEnds
  BY <1>4, <1>8 DEF HostRefuses, CallUpstream, UpstreamCancelled, UpstreamFails, CopyEnds
<1>9. CASE HostNotices \/ LeaseFires \/ LeaseEnds \/ Settled \/ UNCHANGED vars
  BY <1>4, <1>9 DEF HostNotices, LeaseFires, LeaseEnds, EndHostContext, Settled
<1>10. CASE UpstreamFails \/ UpstreamAnswers \/ UpstreamBreaks
  BY <1>4, <1>10 DEF UpstreamFails, UpstreamAnswers, UpstreamBreaks
<1> QED
  BY <1>1, <1>2, <1>3, <1>5, <1>6, <1>7, <1>8, <1>9, <1>10
     DEF Next, Reader, Handler, Remote

(* The request leaves before it arrives.                                    *)
LEMMA ConnStep ==
  ASSUME IInv, [Next]_vars
  PROVE  ConnInv'
<1> USE DEF vars, extension, wire, hostSide, remote
<1>0. ConnInv
  BY DEF IInv
<1>1. CASE Client
  BY <1>0, <1>1 DEF ConnInv, Client, DoRefuses, DoSends, SendFails, FailWith,
     ReceiveRefusal, ReceiveResponse, TransportAborts
<1>2. CASE Reader \/ DeadlinePasses
  BY <1>0, <1>2 DEF ConnInv, Reader, Read, ReadEnds, Close, CallerCancels, DeadlinePasses
<1>3. CASE Network
  BY <1>0, <1>3 DEF ConnInv, Network, Arrives, ConnectionBreaks, HostAnswersUnmarked, Answer
<1>4. CASE Handler
  BY <1>0, <1>4 DEF ConnInv, Handler, HostRefuses, CallUpstream, UpstreamCancelled,
     UpstreamFails, CopyChunk, CopyEnds, Answer
<1>5. CASE HostNotices \/ LeaseFires \/ LeaseEnds \/ Settled \/ UNCHANGED vars
  BY <1>0, <1>5 DEF ConnInv, HostNotices, LeaseFires, LeaseEnds, EndHostContext, Settled
<1>6. CASE Remote
  BY <1>0, <1>6 DEF ConnInv, Remote, UpstreamFails, UpstreamAnswers, UpstreamWrites,
     UpstreamBreaks, Answer
<1> QED
  BY <1>1, <1>2, <1>3, <1>4, <1>5, <1>6 DEF Next

(* The handler answers once.                                                *)
LEMMA AnswerStep ==
  ASSUME IInv, [Next]_vars
  PROVE  AnswerInv'
<1> USE DEF vars, extension, wire, hostSide, remote
<1>0. AnswerInv /\ TypeCall
  BY TypeParts DEF IInv
<1>1. CASE Client
  BY <1>0, <1>1 DEF AnswerInv, Client, DoRefuses, DoSends, SendFails, ReceiveRefusal,
     ReceiveResponse, TransportAborts
<1>2. CASE Reader \/ DeadlinePasses
  BY <1>0, <1>2 DEF AnswerInv, Reader, Read, ReadEnds, Close, CallerCancels, DeadlinePasses
<1>3. CASE Network
  BY <1>0, <1>3 DEF AnswerInv, Network, Arrives, ConnectionBreaks, HostAnswersUnmarked,
     Answer, Head
<1>4. CASE HostRefuses
  <2>1. Verdict(req, host) \in {"PERMISSION_DENIED", "INVALID_ARGUMENT",
                                "HOST_UNAVAILABLE", "NOT_FOUND"}
    BY <1>0, <1>4, VerdictRange, RequestsAssumption, HostsAssumption
       DEF TypeCall, HostRefuses
  <2> QED
    BY <1>0, <1>4, <2>1 DEF AnswerInv, HostRefuses, Answer, Head
<1>5. CASE CallUpstream \/ UpstreamCancelled \/ CopyChunk \/ CopyEnds
  BY <1>0, <1>5 DEF AnswerInv, CallUpstream, UpstreamCancelled, UpstreamFails,
     CopyChunk, CopyEnds, Answer, Head
<1>6. CASE HostNotices \/ LeaseFires \/ LeaseEnds \/ Settled \/ UNCHANGED vars
  BY <1>0, <1>6 DEF AnswerInv, HostNotices, LeaseFires, LeaseEnds, EndHostContext, Settled
<1>7. CASE Remote
  BY <1>0, <1>7 DEF AnswerInv, Remote, UpstreamFails, UpstreamAnswers, UpstreamWrites,
     UpstreamBreaks, Answer, Head
<1> QED
  BY <1>1, <1>2, <1>3, <1>4, <1>5, <1>6, <1>7 DEF Next, Handler

(* The upstream is held exactly while the handler needs it, and the pieces  *)
(* of its answer pass through the Host in turn.                             *)
LEMMA PipeStep ==
  ASSUME IInv, [Next]_vars
  PROVE  PipeInv'
<1> USE DEF vars, extension, wire, hostSide, remote
<1>0. PipeInv /\ AnswerInv /\ TypeCounts /\ Length \in Nat
  BY TypeParts, LengthAssumption DEF IInv
<1>1. ASSUME UNCHANGED <<answer, handler, upstream, read, copied, produced>> PROVE PipeInv'
  BY <1>0, <1>1 DEF PipeInv
<1>2. CASE Client
  BY <1>1, <1>2 DEF Client, DoRefuses, DoSends, SendFails, ReceiveRefusal,
     ReceiveResponse, TransportAborts
<1>3. CASE Read \/ CopyChunk
  BY <1>0, <1>3 DEF PipeInv, TypeCounts, Read, CopyChunk, Available
<1>4. CASE ReadEnds \/ Close \/ CallerCancels \/ DeadlinePasses
  BY <1>1, <1>4 DEF ReadEnds, Close, CallerCancels, DeadlinePasses
<1>5. CASE Network
  BY <1>0, <1>5 DEF PipeInv, AnswerInv, Network, Arrives, ConnectionBreaks,
     HostAnswersUnmarked, Answer, Head
<1>6. CASE HostRefuses \/ CallUpstream \/ CopyEnds
  BY <1>0, <1>6 DEF PipeInv, AnswerInv, HostRefuses, CallUpstream, CopyEnds, Answer, Head
<1>7. CASE HostNotices \/ LeaseFires \/ LeaseEnds \/ Settled \/ UNCHANGED vars
  BY <1>1, <1>7 DEF HostNotices, LeaseFires, LeaseEnds, EndHostContext, Settled
<1>8. CASE UpstreamCancelled \/ Remote
  BY <1>0, <1>8 DEF PipeInv, AnswerInv, TypeCounts, UpstreamCancelled, Remote, UpstreamFails,
     UpstreamAnswers, UpstreamWrites, UpstreamBreaks, Answer, Head
<1> QED
  BY <1>2, <1>3, <1>4, <1>5, <1>6, <1>7, <1>8 DEF Next, Reader, Handler

(* An answer that has been received does not change any more, and one that  *)
(* comes after the caller has failed cannot turn out to be the upstream's:  *)
(* a call that failed with a code had an answer, or never left.             *)
LEMMA FailureStep ==
  ASSUME IInv, [Next]_vars
  PROVE  FailureInv'
<1> USE DEF vars, extension, wire, hostSide, remote
<1>0. FailureInv /\ AnswerInv /\ ConnInv
  BY DEF IInv
<1>1. CASE DoRefuses \/ DoSends \/ ReceiveResponse \/ TransportAborts
  BY <1>0, <1>1 DEF FailureInv, ConnInv, DoRefuses, DoSends, ReceiveResponse, TransportAborts
<1>2. CASE SendFails
  <2>1. PICK e \in {"context", "connection"} : FailWith(e)
    BY <1>2 DEF SendFails
  <2> QED
    BY <1>2, <2>1 DEF FailureInv, FailWith, Code
<1>3. CASE ReceiveRefusal
  <2>1. CASE answer.kind = "unmarked"
    BY <1>3, <2>1 DEF FailureInv, ReceiveRefusal, FailWith
  <2>2. CASE answer.kind = "refused"
    <3>1. FailWith(answer.code)
      BY <1>0, <1>3, <2>2, RefusalCode DEF ReceiveRefusal
    <3> QED
      BY <1>3, <2>2, <3>1 DEF FailureInv, ReceiveRefusal, FailWith
  <2> QED
    BY <1>3, <2>1, <2>2 DEF ReceiveRefusal
<1>4. CASE Reader \/ DeadlinePasses
  BY <1>0, <1>4
     DEF FailureInv, ConnInv, Reader, Read, ReadEnds, Close, CallerCancels, DeadlinePasses
<1>5. CASE Network
  BY <1>0, <1>5 DEF FailureInv, AnswerInv, ConnInv, Network, Arrives, ConnectionBreaks,
     HostAnswersUnmarked, Answer, Head
<1>6. CASE HostRefuses \/ UpstreamCancelled
  BY <1>0, <1>6 DEF FailureInv, AnswerInv, ConnInv, HostRefuses, UpstreamCancelled,
     UpstreamFails, Answer
<1>7. CASE HostNotices \/ LeaseFires \/ LeaseEnds \/ Settled \/ UNCHANGED vars
  BY <1>0, <1>7 DEF FailureInv, HostNotices, LeaseFires, LeaseEnds, EndHostContext, Settled
<1>8. CASE CallUpstream \/ CopyChunk \/ CopyEnds
  BY <1>0, <1>8 DEF FailureInv, CallUpstream, CopyChunk, CopyEnds
<1>9. CASE Remote
  BY <1>0, <1>9 DEF FailureInv, AnswerInv, ConnInv, Remote, UpstreamFails,
     UpstreamAnswers, UpstreamWrites, UpstreamBreaks, Answer, Head
<1> QED
  BY <1>1, <1>2, <1>3, <1>4, <1>5, <1>6, <1>7, <1>8, <1>9
     DEF Next, Client, Handler

(* Only the steps that end a call touch its cancel function.                *)
LEMMA ContextStep ==
  ASSUME IInv, [Next]_vars
  PROVE  ContextFollowsBody'
<1> USE DEF vars, extension, wire, hostSide, remote
<1>0. ContextFollowsBody /\ ConnInv
  BY DEF IInv
<1>1. CASE DoRefuses \/ DoSends \/ ReceiveResponse \/ TransportAborts
  BY <1>0, <1>1
     DEF ContextFollowsBody, ConnInv, DoRefuses, DoSends, ReceiveResponse, TransportAborts
<1>2. CASE SendFails \/ ReceiveRefusal
  BY <1>2 DEF ContextFollowsBody, SendFails, ReceiveRefusal, FailWith
<1>3. CASE Reader \/ DeadlinePasses
  <2>1. CASE Close
    BY <2>1 DEF ContextFollowsBody, Close
  <2>2. CASE Read \/ ReadEnds \/ CallerCancels \/ DeadlinePasses
    BY <1>0, <2>2 DEF ContextFollowsBody, Read, ReadEnds, CallerCancels, DeadlinePasses
  <2> QED
    BY <1>3, <2>1, <2>2 DEF Reader
<1>4. CASE Network
  BY <1>0, <1>4 DEF ContextFollowsBody, Network, Arrives, ConnectionBreaks, HostAnswersUnmarked
<1>5. CASE Handler
  BY <1>0, <1>5 DEF ContextFollowsBody, Handler, HostRefuses, CallUpstream,
     UpstreamCancelled, UpstreamFails, CopyChunk, CopyEnds
<1>6. CASE HostNotices \/ LeaseFires \/ LeaseEnds \/ Settled \/ UNCHANGED vars
  BY <1>0, <1>6
     DEF ContextFollowsBody, HostNotices, LeaseFires, LeaseEnds, EndHostContext, Settled
<1>7. CASE Remote
  BY <1>0, <1>7 DEF ContextFollowsBody, Remote, UpstreamFails, UpstreamAnswers,
     UpstreamWrites, UpstreamBreaks
<1> QED
  BY <1>1, <1>2, <1>3, <1>4, <1>5, <1>6, <1>7 DEF Next, Client

(* The upstream is called in one place, behind every check.                 *)
LEMMA BindingStep ==
  ASSUME IInv, [Next]_vars
  PROVE  UpstreamSeesOnlyTheBinding'
<1> USE DEF vars, extension, wire, hostSide, remote
<1>0. UpstreamSeesOnlyTheBinding /\ ConnInv /\ PipeInv /\ TypeCall
  BY TypeParts DEF IInv
<1>1. CASE CallUpstream
  <2>1. LocalError(req) = "none"
    BY <1>0, <1>1 DEF ConnInv, CallUpstream
  <2>2. host.granted /\ ~host.down /\ host.bound /\ host.originAllowed
    BY <1>0, <1>1, VerdictRange, RequestsAssumption, HostsAssumption
       DEF TypeCall, CallUpstream
  <2>3. header' = req.header \ {"authorization", host.inject}
    BY <1>1 DEF CallUpstream, SanitizeSecretEgressHeader
  <2> QED
    BY <1>1, <2>1, <2>2, <2>3 DEF UpstreamSeesOnlyTheBinding, CallUpstream
<1>2. ASSUME UNCHANGED <<req, host, header>>, upstream' # "none" => upstream # "none"
      PROVE  UpstreamSeesOnlyTheBinding'
  BY <1>0, <1>2 DEF UpstreamSeesOnlyTheBinding
<1>3. CASE Client
  BY <1>2, <1>3 DEF Client, DoRefuses, DoSends, SendFails, ReceiveRefusal,
     ReceiveResponse, TransportAborts
<1>4. CASE Reader \/ DeadlinePasses
  BY <1>2, <1>4 DEF Reader, Read, ReadEnds, Close, CallerCancels, DeadlinePasses
<1>5. CASE Network
  BY <1>2, <1>5 DEF Network, Arrives, ConnectionBreaks, HostAnswersUnmarked
<1>6. CASE HostRefuses \/ UpstreamCancelled \/ CopyChunk \/ CopyEnds
  BY <1>0, <1>2, <1>6
     DEF PipeInv, HostRefuses, UpstreamCancelled, UpstreamFails, CopyChunk, CopyEnds
<1>7. CASE HostNotices \/ LeaseFires \/ LeaseEnds \/ Settled \/ UNCHANGED vars
  BY <1>2, <1>7 DEF HostNotices, LeaseFires, LeaseEnds, EndHostContext, Settled
<1>8. CASE Remote
  BY <1>2, <1>8 DEF Remote, UpstreamFails, UpstreamAnswers, UpstreamWrites, UpstreamBreaks
<1> QED
  BY <1>1, <1>3, <1>4, <1>5, <1>6, <1>7, <1>8 DEF Next, Handler

(* The induction.                                                           *)
THEOREM Invariance == Spec => []IInv
<1>1. Init => IInv
  BY InitInv
<1>2. IInv /\ [Next]_vars => IInv'
  <2> SUFFICES ASSUME IInv, [Next]_vars PROVE IInv'
    OBVIOUS
  <2>1. TypeOK'
    BY TypeCallStep, TypeHostStep, TypeCountsStep, Zenon
       DEF TypeOK, TypeCall, TypeHost, TypeCounts
  <2> QED
    BY <2>1, ConnStep, AnswerStep, PipeStep, FailureStep, ContextStep, BindingStep DEF IInv
<1> QED
  BY <1>1, <1>2, PTL DEF Spec

-----------------------------------------------------------------------------
(* Every variable keeps to its range; in particular no more is copied or    *)
(* read than the response has.                                              *)
THEOREM TypeCorrect == Spec => []TypeOK
<1>1. IInv => TypeOK
  BY DEF IInv
<1> QED
  BY <1>1, Invariance, PTL

(* The context of a call is released on every way out, and not before the   *)
(* caller has closed the body (cancelOnClose).                              *)
THEOREM ContextHeldForBody == Spec => []ContextFollowsBody
<1>1. IInv => ContextFollowsBody
  BY DEF IInv
<1> QED
  BY <1>1, Invariance, PTL

(* A response is the upstream's, and a code is given only where the         *)
(* upstream did not answer, however late the answer to a failed call comes. *)
THEOREM ResponseIsTheUpstreams == Spec => []ResponseIsUpstreams
<1>1. IInv => ResponseIsUpstreams
  BY DEF IInv, ConnInv, AnswerInv, FailureInv, ResponseIsUpstreams
<1> QED
  BY <1>1, Invariance, PTL

(* The caller learns the code the Host refused with, whether or not the     *)
(* body that spells it out could be read.                                   *)
THEOREM RefusalCodeSurvives == Spec => []RefusalKeepsItsCode
<1>1. IInv => RefusalKeepsItsCode
  BY DEF IInv, ConnInv, AnswerInv, FailureInv, RefusalKeepsItsCode
<1> QED
  BY <1>1, Invariance, PTL

(* Whatever the requests and the bindings, the upstream is contacted only   *)
(* for a request that passed every check, without the caller's credentials. *)
THEOREM UpstreamSeesBindingOnly == Spec => []UpstreamSeesOnlyTheBinding
<1>1. IInv => UpstreamSeesOnlyTheBinding
  BY DEF IInv
<1> QED
  BY <1>1, Invariance, PTL
-----------------------------------------------------------------------------
(***************************************************************************)
(* The refinement.                                                         *)
(***************************************************************************)
(* What speaks against the request, and its headers, never change.          *)
LEMMA RequestStays ==
  ASSUME [Next]_vars
  PROVE  req' = req /\ host' = host /\ UNCHANGED Promise!request
<1>1. req' = req /\ host' = host
  <2> USE DEF vars, extension, wire, hostSide, remote
  <2>1. CASE Client \/ Reader \/ DeadlinePasses
    BY <2>1 DEF Client, DoRefuses, DoSends, SendFails, ReceiveRefusal, ReceiveResponse,
       TransportAborts, Reader, Read, ReadEnds, Close, CallerCancels, DeadlinePasses
  <2>2. CASE Network \/ Remote
    BY <2>2 DEF Network, Arrives, ConnectionBreaks, HostAnswersUnmarked, Remote,
       UpstreamFails, UpstreamAnswers, UpstreamWrites, UpstreamBreaks
  <2>3. CASE Handler
    BY <2>3 DEF Handler, HostRefuses, CallUpstream, UpstreamCancelled, UpstreamFails,
       CopyChunk, CopyEnds
  <2>4. CASE HostNotices \/ LeaseFires \/ LeaseEnds \/ Settled \/ UNCHANGED vars
    BY <2>4 DEF HostNotices, LeaseFires, LeaseEnds, EndHostContext, Settled
  <2> QED
    BY <2>1, <2>2, <2>3, <2>4 DEF Next
<1> QED
  BY <1>1 DEF Promise!request, Reason, Verdict, LocalError

(* The Host's word, as it stands for its answer.                            *)
LEMMA WordOfAnswer ==
  /\ answer = Head("none", "none") => Word = "none"
  /\ answer.kind = "upstream" => Word = "response"
  /\ answer.kind = "unmarked" => Word = "INCOMPATIBLE"
  /\ answer.kind = "refused" => Word = answer.code
BY DEF Word, Head

LEMMA InitRefines == Init => Promise!Init
BY WordOfAnswer DEF Init, Promise!Init, Service

(* What the caller sees of a step of the client.                            *)
LEMMA ClientRefines ==
  ASSUME IInv, [Next]_vars, Client
  PROVE  [Promise!Next]_(Promise!vars)
<1> USE DEF vars, extension, wire, hostSide, remote, Promise!asker, Promise!answer
<1>0. TypeCall /\ AnswerInv /\ UNCHANGED Promise!request
  BY TypeParts, RequestStays DEF IInv
<1>1. UNCHANGED <<answer, upstream, header, produced, read, ending>>
  BY DEF Client, DoRefuses, DoSends, SendFails, ReceiveRefusal, ReceiveResponse, TransportAborts
<1>2. UNCHANGED <<Word, Service>>
  BY <1>1 DEF Word, Service
<1>3. CASE DoRefuses
  <2>1. Reason # "none" /\ error' = Reason
    BY <1>3 DEF DoRefuses, Reason
  <2>2. Promise!RefuseAtOnce
    BY <1>0, <1>1, <1>2, <1>3, <2>1
       DEF DoRefuses, Promise!RefuseAtOnce, Promise!Fail, Promise!CallerGoes
  <2> QED
    BY <2>2 DEF Promise!Next
<1>4. CASE DoSends
  <2>1. Promise!Ask
    BY <1>0, <1>1, <1>2, <1>4 DEF DoSends, Promise!Ask, Promise!CallerGoes
  <2> QED
    BY <2>1 DEF Promise!Next
<1>5. CASE SendFails
  <2>1. PICK e \in {"context", "connection"} : FailWith(e)
    BY <1>5 DEF SendFails
  <2>2. Promise!Fail("sending", e)
    BY <1>0, <1>1, <1>2, <1>5, <2>1 DEF SendFails, FailWith, Promise!Fail, Promise!CallerGoes
  <2> QED
    BY <2>2 DEF Promise!Lose, Promise!Next
<1>6. CASE ReceiveRefusal
  <2>1. FailWith(Word) /\ Word \notin {"none", "response"}
    <3>1. CASE answer.kind = "unmarked"
      BY <1>6, <3>1, WordOfAnswer DEF ReceiveRefusal
    <3>2. CASE answer.kind = "refused"
      <4>1. FailWith(answer.code)
        BY <1>0, <1>6, <3>2, RefusalCode DEF ReceiveRefusal
      <4> QED
        BY <1>0, <3>2, <4>1, WordOfAnswer DEF AnswerInv
    <3> QED
      BY <1>6, <3>1, <3>2 DEF ReceiveRefusal
  <2>2. Promise!Learn
    BY <1>0, <1>1, <1>2, <1>6, <2>1
       DEF ReceiveRefusal, FailWith, Promise!Learn, Promise!Fail, Promise!CallerGoes
  <2> QED
    BY <2>2 DEF Promise!Next
<1>7. CASE ReceiveResponse
  <2>1. Promise!Receive
    BY <1>0, <1>1, <1>2, <1>7, WordOfAnswer
       DEF ReceiveResponse, Promise!Receive, Promise!CallerGoes
  <2> QED
    BY <2>1 DEF Promise!Next
<1>8. CASE TransportAborts
  BY <1>0, <1>1, <1>2, <1>8 DEF TransportAborts, Promise!vars
<1> QED
  BY <1>3, <1>4, <1>5, <1>6, <1>7, <1>8 DEF Client

(* Reading: what is read was copied and so was sent, and the copying ends   *)
(* with the upstream.                                                       *)
LEMMA ReaderRefines ==
  ASSUME IInv, [Next]_vars, Reader \/ DeadlinePasses
  PROVE  [Promise!Next]_(Promise!vars)
<1> USE DEF vars, extension, wire, hostSide, remote, Promise!asker, Promise!answer
<1>0. TypeCounts /\ TypeHost /\ PipeInv /\ FailureInv /\ UNCHANGED Promise!request
  BY TypeParts, RequestStays DEF IInv
<1>1. UNCHANGED <<error, answer, upstream, header, produced>>
  BY DEF Reader, Read, ReadEnds, Close, CallerCancels, DeadlinePasses
<1>2. UNCHANGED <<Word, Service>>
  BY <1>1 DEF Word, Service
<1>3. CASE Read
  <2>1. read < produced
    BY <1>0, <1>3, LengthAssumption DEF Read, TypeCounts, PipeInv
  <2>2. Promise!Read
    BY <1>0, <1>1, <1>2, <1>3, <2>1 DEF Read, Promise!Read
  <2> QED
    BY <2>2 DEF Promise!Next
<1>4. CASE ReadEnds
  <2>1. handler = "done" => Service = "over"
    BY <1>0, <1>4 DEF ReadEnds, PipeInv, FailureInv, TypeHost, Service
  <2>2. Promise!End
    BY <1>0, <1>1, <1>2, <1>4, <2>1 DEF ReadEnds, Promise!End
  <2> QED
    BY <2>2 DEF Promise!Next
<1>5. CASE Close
  <2>1. Promise!Close
    BY <1>0, <1>1, <1>2, <1>5 DEF Close, Promise!Close, Promise!CallerGoes
  <2> QED
    BY <2>1 DEF Promise!Next
<1>6. CASE CallerCancels \/ DeadlinePasses
  BY <1>0, <1>1, <1>2, <1>6 DEF CallerCancels, DeadlinePasses, Promise!vars
<1> QED
  BY <1>3, <1>4, <1>5, <1>6 DEF Reader

(* What the service sees, and what the Host says, in a step of the Host or  *)
(* of the upstream.                                                         *)
LEMMA HostRefines ==
  ASSUME IInv, [Next]_vars, Network \/ Handler \/ Remote
  PROVE  [Promise!Next]_(Promise!vars)
<1> USE DEF vars, extension, wire, hostSide, remote, Promise!asker, Promise!answer
<1>0. /\ TypeCall /\ TypeCounts /\ ConnInv /\ AnswerInv /\ PipeInv
      /\ UNCHANGED Promise!request
  BY TypeParts, RequestStays DEF IInv
<1>1. UNCHANGED <<call, error, read, ending>>
  BY DEF Network, Arrives, ConnectionBreaks, HostAnswersUnmarked, Handler, HostRefuses,
     CallUpstream, UpstreamCancelled, CopyChunk, CopyEnds, Remote, UpstreamFails,
     UpstreamAnswers, UpstreamWrites, UpstreamBreaks
<1>2. ASSUME UNCHANGED answer PROVE UNCHANGED Word
  BY <1>2 DEF Word
<1>3. ASSUME UNCHANGED upstream PROVE UNCHANGED Service
  BY <1>3 DEF Service
<1>4. ASSUME handler = "running" PROVE call # "idle" /\ Word = "none" /\ Service = "untouched"
  BY <1>0, <1>4 DEF ConnInv, AnswerInv, PipeInv, Word, Service
<1>5. ASSUME handler = "running" PROVE Reason = Verdict(req, host)
  BY <1>0, <1>5 DEF ConnInv, Reason
<1>6. CASE HostAnswersUnmarked
  <2>1. Word' = "INCOMPATIBLE"
    BY <1>6 DEF HostAnswersUnmarked, Answer, Head, Word
  <2>2. Promise!Refuse
    BY <1>0, <1>1, <1>3, <1>4, <1>6, <2>1 DEF HostAnswersUnmarked, Promise!Refuse
  <2> QED
    BY <2>2 DEF Promise!Next
<1>7. CASE HostRefuses
  <2>1. Word' = Reason /\ Reason # "none"
    BY <1>5, <1>7 DEF HostRefuses, Answer, Head, Word
  <2>2. Promise!Refuse
    BY <1>0, <1>1, <1>3, <1>4, <1>7, <2>1 DEF HostRefuses, Promise!Refuse
  <2> QED
    BY <2>2 DEF Promise!Next
<1>8. CASE CallUpstream
  <2>1. Service' = "called" /\ header' = req.header \ {"authorization", host.inject}
    BY <1>8 DEF CallUpstream, SanitizeSecretEgressHeader, Service
  <2>2. Promise!CallService
    BY <1>0, <1>1, <1>2, <1>4, <1>5, <1>8, <2>1 DEF CallUpstream, Promise!CallService
  <2> QED
    BY <2>2 DEF Promise!Next
<1>9. CASE UpstreamFails \/ UpstreamCancelled
  <2>1. UpstreamFails
    BY <1>9 DEF UpstreamCancelled
  <2>2. Word' = "TEMPORARY_FAILURE" /\ Service = "called" /\ Service' = "over"
    BY <2>1 DEF UpstreamFails, Answer, Head, Word, Service
  <2>3. Promise!ServiceFails
    BY <1>0, <1>1, <2>1, <2>2 DEF UpstreamFails, Promise!ServiceFails, Promise!ServiceGoes
  <2> QED
    BY <2>3 DEF Promise!Next
<1>10. CASE UpstreamAnswers
  <2>1. Word' = "response" /\ Service = "called" /\ Service' = "answering"
    BY <1>10 DEF UpstreamAnswers, Answer, Head, Word, Service
  <2>2. Promise!ServiceAnswers
    BY <1>0, <1>1, <1>10, <2>1
       DEF UpstreamAnswers, Promise!ServiceAnswers, Promise!ServiceGoes
  <2> QED
    BY <2>2 DEF Promise!Next
<1>11. CASE UpstreamWrites
  <2>1. Service = "answering" /\ Service' = "answering"
    BY <1>11 DEF UpstreamWrites, Service
  <2>2. Promise!ServiceSends
    BY <1>0, <1>1, <1>2, <1>11, <2>1
       DEF UpstreamWrites, Promise!ServiceSends, Promise!ServiceGoes
  <2> QED
    BY <2>2 DEF Promise!Next
<1>12. CASE UpstreamBreaks \/ CopyEnds
  <2>1. UNCHANGED <<answer, header, produced>>
    BY <1>12 DEF UpstreamBreaks, CopyEnds
  <2>2. Service \in {"answering", "over"} /\ Service' = "over"
    BY <1>0, <1>12 DEF UpstreamBreaks, CopyEnds, PipeInv, Service
  <2>3. CASE Service = "answering"
    BY <1>0, <1>1, <1>2, <2>1, <2>2, <2>3
       DEF Promise!ServiceEnds, Promise!ServiceGoes, Promise!Next
  <2>4. CASE Service = "over"
    BY <1>0, <1>1, <1>2, <2>1, <2>2, <2>4 DEF Promise!vars
  <2> QED
    BY <2>2, <2>3, <2>4
<1>13. CASE Arrives \/ ConnectionBreaks \/ CopyChunk
  <2>1. UNCHANGED <<answer, upstream, header, produced>>
    BY <1>13 DEF Arrives, ConnectionBreaks, CopyChunk
  <2> QED
    BY <1>0, <1>1, <1>2, <1>3, <2>1 DEF Promise!vars
<1> QED
  BY <1>6, <1>7, <1>8, <1>9, <1>10, <1>11, <1>12, <1>13 DEF Network, Handler, Remote

LEMMA StepRefines ==
  ASSUME IInv, [Next]_vars
  PROVE  [Promise!Next]_(Promise!vars)
<1>1. CASE HostNotices \/ LeaseFires \/ LeaseEnds \/ Settled \/ UNCHANGED vars
  <2>1. UNCHANGED <<call, error, answer, upstream, header, produced, read, ending>>
    BY <1>1 DEF HostNotices, LeaseFires, LeaseEnds, EndHostContext, Settled,
       vars, extension, wire, hostSide, remote
  <2> QED
    BY <2>1, RequestStays DEF Word, Service, Promise!vars, Promise!asker, Promise!answer
<1> QED
  BY <1>1, ClientRefines, ReaderRefines, HostRefines DEF Next

(* A call is an UpstreamCall, whatever the requests, the Hosts and the      *)
(* length of the answer: refused for the reason there is, or put to the     *)
(* service once and without credentials; and the caller is given what the   *)
(* service sent, the reason, or a failure that claims neither.              *)
THEOREM CallsUpstream == Spec => ImplementsUpstreamCall
<1>1. IInv /\ [Next]_vars => [Promise!Next]_(Promise!vars)
  BY StepRefines
<1> QED
  BY <1>1, InitRefines, Invariance, PTL DEF Spec, ImplementsUpstreamCall, Promise!Spec
=============================================================================
