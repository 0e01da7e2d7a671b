---------------------------- MODULE RequestLease ----------------------------
(***************************************************************************)
(* On whose behalf an extension calls the Host.                            *)
(*                                                                         *)
(* The Host proxies a user's request (Invoke): it mints a short-lived      *)
(* request token, keeps a lease for it, and withdraws both when the        *)
(* response is in.  The extension puts the identity and the token into the *)
(* context of its handler; from any goroutine that holds such a context it *)
(* may call the Host API, during the request or long after it.  The Host   *)
(* admits a call by its token and its On-Behalf-Of header, and serves it   *)
(* in a context that ends with the call or with the lease.                 *)
(*                                                                         *)
(* Tokens are random, one per invocation, so a token is the invocation it  *)
(* was minted for; Forged stands for any token that was never minted.      *)
(***************************************************************************)
EXTENDS Naturals

CONSTANTS
  Invocation,   \* requests the Host proxies to the extension
  Call,         \* Host API calls the extension makes
  User,         \* user ids
  UserOf,       \* the identity of each invocation, NoUser when it has none
  NoUser,       \* an absent identity or On-Behalf-Of header
  NoToken,      \* an absent request token
  Forged        \* a token the Host never minted

ASSUME UserOfAssumption == UserOf \in [Invocation -> User \cup {NoUser}]
ASSUME DistinctAssumption ==
  /\ NoUser \notin User
  /\ Forged # NoToken
  /\ {Forged, NoToken} \cap Invocation = {}

Token    == Invocation \cup {Forged, NoToken}
Identity == User \cup {NoUser}

VARIABLES
  inv,       \* where each Invoke is
  leases,    \* the keys of ProcessHost.leases
  leaseCtx,  \* the context each lease was made with: "none", "live", "done"
  known,     \* invocations whose context the extension has received
  call,      \* each call: its state, kind, identity and token as sent
  callCtx,   \* the context the service is given: "none", "live", "done"
  asUser,    \* the identity in that context
  late       \* history: the call was made after its invocation had returned

vars == <<inv, leases, leaseCtx, known, call, callCtx, asUser, late>>
hostVars == <<inv, leases, leaseCtx>>

\* "scoped": MCP, embedding and result calls, which need a principal;
\* "egress": secret.use, which takes one if it is there.
Kind  == {"scoped", "egress"}
State == {"none", "sent", "found", "admitted", "running", "over", "denied"}

TypeOK ==
  /\ inv \in [Invocation -> {"idle", "sent", "handled", "dropping", "cancelling",
                             "returned", "refused"}]
  /\ leases \subseteq Invocation
  /\ leaseCtx \in [Invocation -> {"none", "live", "done"}]
  /\ known \subseteq Invocation
  /\ call \in [Call -> [state : State, kind : Kind, onBehalfOf : Identity,
                        token : Token]]
  /\ callCtx \in [Call -> {"none", "live", "done"}]
  /\ asUser \in [Call -> Identity]
  /\ late \subseteq Call

Init ==
  /\ inv = [i \in Invocation |-> "idle"]
  /\ leases = {}
  /\ leaseCtx = [i \in Invocation |-> "none"]
  /\ known = {}
  /\ call = [k \in Call |-> [state |-> "none", kind |-> "scoped",
                             onBehalfOf |-> NoUser, token |-> NoToken]]
  /\ callCtx = [k \in Call |-> "none"]
  /\ asUser = [k \in Call |-> NoUser]
  /\ late = {}

-----------------------------------------------------------------------------
(***************************************************************************)
(* Invoke, on the Host.                                                    *)
(***************************************************************************)
InvGoes(i, from, to) == inv[i] = from /\ inv' = [inv EXCEPT ![i] = to]

extUnchanged == UNCHANGED <<known, call, callCtx, asUser, late>>

\* Mint the token, record the lease under the lock, send the request.
Invoke(i) ==
  /\ UserOf[i] # NoUser
  /\ InvGoes(i, "idle", "sent")
  /\ leases' = leases \cup {i}
  /\ leaseCtx' = [leaseCtx EXCEPT ![i] = "live"]
  /\ extUnchanged

InvokeAnonymous(i) ==
  /\ UserOf[i] = NoUser
  /\ InvGoes(i, "idle", "refused")
  /\ UNCHANGED <<leases, leaseCtx>>
  /\ extUnchanged

\* The caller's context ends: so does leaseCtx, with the lease still in the map.
CallerGivesUp(i) ==
  /\ inv[i] \in {"sent", "handled"}
  /\ leaseCtx[i] = "live"
  /\ leaseCtx' = [leaseCtx EXCEPT ![i] = "done"]
  /\ UNCHANGED <<inv, leases>>
  /\ extUnchanged

\* identityMiddleware: the handler's context carries identity and token.
HandlerBegins(i) ==
  /\ inv[i] = "sent"
  /\ known' = known \cup {i}
  /\ UNCHANGED <<hostVars, call, callCtx, asUser, late>>

HandlerEnds(i) ==
  /\ i \in known
  /\ InvGoes(i, "sent", "handled")
  /\ UNCHANGED <<leases, leaseCtx>>
  /\ extUnchanged

\* send returns: the response has been read, or its context has ended.
SendReturns(i) ==
  /\ inv[i] = "handled" \/ (inv[i] = "sent" /\ leaseCtx[i] = "done")
  /\ inv' = [inv EXCEPT ![i] = "dropping"]
  /\ UNCHANGED <<leases, leaseCtx>>
  /\ extUnchanged

\* The deferred calls run last to first: the lease goes, then its context.
DropLease(i) ==
  /\ InvGoes(i, "dropping", "cancelling")
  /\ leases' = leases \ {i}
  /\ UNCHANGED leaseCtx
  /\ extUnchanged

\* Fault: the lease's context is the caller's own, and nothing ends it here.
CancelLease_Omitted(i) ==
  /\ InvGoes(i, "cancelling", "returned")
  /\ UNCHANGED <<leases, leaseCtx>>
  /\ extUnchanged

CancelLease(i) ==
  /\ InvGoes(i, "cancelling", "returned")
  /\ leaseCtx' = [leaseCtx EXCEPT ![i] = "done"]
  /\ UNCHANGED leases
  /\ extUnchanged

\* Fault: nothing is deferred.
InvokeReturns_NoDefers(i) ==
  /\ InvGoes(i, "handled", "returned")
  /\ UNCHANGED <<leases, leaseCtx>>
  /\ extUnchanged

InvokeReturns(i) == SendReturns(i) \/ DropLease(i) \/ CancelLease(i)

-----------------------------------------------------------------------------
(***************************************************************************)
(* Calls, in the extension.                                                *)
(***************************************************************************)

\* requestScoped, before anything is sent.
Scoped(id, tok) == id # NoUser /\ tok # NoToken

\* setHeaders: On-Behalf-Of and the token travel together or not at all.
Headers(id, tok) ==
  IF Scoped(id, tok) THEN [onBehalfOf |-> id, token |-> tok]
                     ELSE [onBehalfOf |-> NoUser, token |-> NoToken]

\* A call from a context that holds identity id and token tok.  A token can only
\* come from a request's context; the identity beside it may have been replaced
\* with WithIdentity, and a background context has no token at all.
MakeCall(k, kind, id, tok) ==
  /\ call[k].state = "none"
  /\ tok \in known \cup {Forged, NoToken}
  /\ LET h == Headers(id, tok) IN
     call' = [call EXCEPT ![k] =
       [state |-> IF kind = "scoped" /\ ~Scoped(id, tok) THEN "denied" ELSE "sent",
        kind |-> kind, onBehalfOf |-> h.onBehalfOf, token |-> h.token]]
  /\ late' = IF tok \in Invocation /\ inv[tok] = "returned" THEN late \cup {k} ELSE late
  /\ UNCHANGED <<hostVars, known, callCtx, asUser>>

\* The call's own context ends: its deadline, or its request's connection.
Abandon(k) ==
  /\ call[k].state \in {"admitted", "running"}
  /\ callCtx[k] = "live"
  /\ callCtx' = [callCtx EXCEPT ![k] = "done"]
  /\ UNCHANGED <<hostVars, known, call, asUser, late>>

-----------------------------------------------------------------------------
(***************************************************************************)
(* Calls, on the Host.                                                     *)
(***************************************************************************)
SetState(k, s) == call' = [call EXCEPT ![k].state = s]

\* What follows a principal that was refused: a scoped call is denied, an egress
\* call goes on in the plain context of its HTTP request.
WithoutPrincipal(k) ==
  IF call[k].kind = "scoped"
  THEN SetState(k, "denied") /\ UNCHANGED callCtx
  ELSE SetState(k, "admitted") /\ callCtx' = [callCtx EXCEPT ![k] = "live"]

\* principal, first half: the map is read under the lock.
LookUp(k) ==
  /\ call[k].state = "sent"
  /\ IF call[k].token \in leases
     THEN SetState(k, "found") /\ UNCHANGED callCtx
     ELSE WithoutPrincipal(k)
  /\ UNCHANGED <<hostVars, known, asUser, late>>

\* Fault: the token alone is enough.
Admissible_TokenOnly(k) == leaseCtx[call[k].token] = "live"

\* Fault: a lease that was found is taken to be live still.
Admissible_FoundIsLive(k) == UserOf[call[k].token] = call[k].onBehalfOf

Admissible(k) ==
  /\ leaseCtx[call[k].token] = "live"
  /\ UserOf[call[k].token] = call[k].onBehalfOf

\* principal, second half, with the lock released: the lease's context and user
\* are compared, and the service's context is made, with AfterFunc on the lease.
Admit(k) ==
  /\ call[k].state = "found"
  /\ IF Admissible(k)
     THEN /\ SetState(k, "admitted")
          /\ callCtx' = [callCtx EXCEPT ![k] = "live"]
          /\ asUser' = [asUser EXCEPT ![k] = UserOf[call[k].token]]
     ELSE WithoutPrincipal(k) /\ UNCHANGED asUser
  /\ UNCHANGED <<hostVars, known, late>>

\* AfterFunc runs cancel in a goroutine of its own, some time after the lease's
\* context has ended.
AfterFunc(k) ==
  /\ call[k].state \in {"admitted", "running"}
  /\ asUser[k] # NoUser
  /\ leaseCtx[call[k].token] = "done"
  /\ callCtx[k] = "live"
  /\ callCtx' = [callCtx EXCEPT ![k] = "done"]
  /\ UNCHANGED <<hostVars, known, call, asUser, late>>

\* The service refuses a context that has ended; MCP, embedding and results also
\* ask for a principal, which an admitted scoped call always has.
ServiceBegins(k) ==
  /\ call[k].state = "admitted"
  /\ IF callCtx[k] = "live" THEN SetState(k, "running") ELSE SetState(k, "denied")
  /\ UNCHANGED <<hostVars, known, callCtx, asUser, late>>

\* The service returns; the deferred done() stops AfterFunc and ends the context.
ServiceEnds(k) ==
  /\ call[k].state = "running"
  /\ SetState(k, "over")
  /\ callCtx' = [callCtx EXCEPT ![k] = "done"]
  /\ UNCHANGED <<hostVars, known, asUser, late>>

-----------------------------------------------------------------------------
Next ==
  \/ \E i \in Invocation :
       \/ Invoke(i) \/ InvokeAnonymous(i) \/ CallerGivesUp(i)
       \/ HandlerBegins(i) \/ HandlerEnds(i) \/ InvokeReturns(i)
  \/ \E k \in Call :
       \/ \E kind \in Kind, id \in Identity, tok \in Token : MakeCall(k, kind, id, tok)
       \/ Abandon(k) \/ LookUp(k) \/ Admit(k) \/ AfterFunc(k)
       \/ ServiceBegins(k) \/ ServiceEnds(k)

\* Goroutines of the Host that can run do: the rest of Invoke once send can
\* return, and the cancellation that AfterFunc has scheduled.
Fairness ==
  /\ \A i \in Invocation : WF_vars(InvokeReturns(i))
  /\ \A k \in Call : WF_vars(AfterFunc(k))

Spec == Init /\ [][Next]_vars /\ Fairness

-----------------------------------------------------------------------------
(***************************************************************************)
(* Properties.                                                             *)
(***************************************************************************)
Served(k) == call[k].state \in {"admitted", "running", "over"}

(* A service acts for a user only if that user's own request minted the     *)
(* token, and the extension named the same user: neither a forged token,    *)
(* nor WithIdentity over another request's context, nor a token without an  *)
(* identity makes a call run for somebody.                                  *)
RightPrincipal ==
  \A k \in Call : Served(k) /\ asUser[k] # NoUser =>
    /\ call[k].token \in Invocation
    /\ asUser[k] = UserOf[call[k].token]
    /\ asUser[k] = call[k].onBehalfOf

(* A call that needs a principal is never served without one.               *)
ScopedHasPrincipal ==
  \A k \in Call : Served(k) /\ call[k].kind = "scoped" => asUser[k] # NoUser

(* The promise of Invoke: once it has returned, its token is worth nothing. *)
(* A call made after that, with a context kept by a goroutine, is not       *)
(* served for the user (an egress call may be served for nobody).           *)
TokenDiesWithRequest ==
  \A k \in late : Served(k) => asUser[k] = NoUser

(* Only requests in progress have a lease: no path through Invoke, nor a    *)
(* caller that gives up, leaves one behind.                                 *)
NoLeaseLeft ==
  \A i \in Invocation : inv[i] \in {"idle", "cancelling", "returned", "refused"} =>
    i \notin leases

(* A principal is granted while the lease's context is live: what can slip  *)
(* through is a cancellation in flight, never a request already over when   *)
(* the check is made.                                                       *)
AdmittedWhileLive ==
  [][\A k \in Call : asUser'[k] # asUser[k] => leaseCtx[call[k].token] = "live"]_vars

(* A call served for a user does not outlive the user's request for good:   *)
(* after Invoke has returned its context ends.                              *)
RevocationReachesCalls ==
  \A k \in Call : \A i \in Invocation :
    (inv[i] = "returned" /\ call[k].token = i /\ Served(k) /\ asUser[k] # NoUser)
      ~> callCtx[k] = "done"

-----------------------------------------------------------------------------
(* All of this is a Delegation: a request is open as long as the context of *)
(* its lease is live, however Invoke ends; a call belongs to the request    *)
(* whose token it sends, and acts from the moment principal has let it      *)
(* through, with the lease's check and the lock's release in between        *)
(* (testkit/processhost.go:330-351).                                        *)
RequestNow(i) ==
  CASE inv[i] \in {"idle", "refused"}                       -> inv[i]
    [] inv[i] = "returned"                                  -> "over"
    [] inv[i] \notin {"idle", "refused", "returned"}        ->
         IF leaseCtx[i] = "live" THEN "open" ELSE "lapsed"

StageNow(k) ==
  CASE call[k].state \in {"none", "denied"}      -> call[k].state
    [] call[k].state \in {"sent", "found"}       -> "made"
    [] call[k].state \in {"admitted", "running"} -> "acting"
    [] call[k].state = "over"                    -> "done"

Requests  == [i \in Invocation |-> RequestNow(i)]
Stages    == [k \in Call |-> StageNow(k)]
Origins   == [k \in Call |-> IF call[k].token \in Invocation THEN call[k].token ELSE NoToken]
Named     == [k \in Call |-> call[k].onBehalfOf]
NeedsUser == [k \in Call |-> call[k].kind = "scoped"]

Promise == INSTANCE Delegation WITH
  Request <- Invocation, NoRequest <- NoToken, request <- Requests, stage <- Stages,
  origin <- Origins, named <- Named, scoped <- NeedsUser, actsFor <- asUser

ImplementsDelegation == Promise!Spec
=============================================================================
