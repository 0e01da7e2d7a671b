-------------------------- MODULE RequestLease_proofs --------------------------
(***************************************************************************)
(* Proofs about RequestLease, for any invocations, calls and users.        *)
(*                                                                         *)
(* The inductive invariant: a lease is there exactly from Invoke to its    *)
(* deferred delete, its context has ended by the time Invoke returns, and  *)
(* the extension knows of no request that was not let in (LeaseInv); a     *)
(* call carries a user only if the Host compared its headers with the      *)
(* lease it found (CallInv); a call made too late carries a token of a     *)
(* finished request or none, and was never found (LateInv).                *)
(***************************************************************************)
EXTENDS RequestLease, TLAPS

LeaseInv ==
  \A i \in Invocation :
    /\ i \in leases <=> inv[i] \in {"sent", "handled", "dropping"}
    /\ inv[i] = "returned" => leaseCtx[i] = "done"
    /\ inv[i] \in {"idle", "refused"} => leaseCtx[i] = "none" /\ i \notin known

CallInv ==
  \A k \in Call :
    /\ call[k].state \in {"none", "sent", "found"} => asUser[k] = NoUser
    /\ call[k].state = "found" => call[k].token \in Invocation
    /\ call[k].kind = "scoped" /\ call[k].state \notin {"none", "denied"} =>
         call[k].onBehalfOf # NoUser
    /\ asUser[k] # NoUser =>
         /\ call[k].token \in Invocation
         /\ asUser[k] = UserOf[call[k].token]
         /\ asUser[k] = call[k].onBehalfOf
    /\ call[k].kind = "scoped" /\ Served(k) => asUser[k] # NoUser

LateInv ==
  \A k \in late :
    /\ call[k].state \notin {"none", "found"}
    /\ asUser[k] = NoUser
    /\ \/ call[k].token = NoToken
       \/ call[k].token \in Invocation /\ inv[call[k].token] = "returned"

IInv == TypeOK /\ LeaseInv /\ CallInv /\ LateInv

-----------------------------------------------------------------------------
(* A request's progress is never undone: the only states that are left are  *)
(* idle, sent, handled, dropping and cancelling.                            *)
HostStep(i) ==
  \/ Invoke(i) \/ InvokeAnonymous(i) \/ CallerGivesUp(i) \/ HandlerBegins(i)
  \/ HandlerEnds(i) \/ SendReturns(i) \/ DropLease(i) \/ CancelLease(i)

LEMMA InitInv == Init => IInv
BY DistinctAssumption DEF Init, IInv, TypeOK, LeaseInv, CallInv, LateInv, Served, Identity,
   Token, State, Kind

LEMMA HostPreserves ==
  ASSUME IInv, NEW i \in Invocation, HostStep(i)
  PROVE  IInv'
<1> USE DEF IInv, HostStep, Invoke, InvokeAnonymous, CallerGivesUp, HandlerBegins, HandlerEnds,
        SendReturns, DropLease, CancelLease, InvGoes, extUnchanged, hostVars
<1>1. TypeOK'
  BY DEF TypeOK
<1>2. LeaseInv'
  BY DEF TypeOK, LeaseInv
<1>3. UNCHANGED <<call, callCtx, asUser, late>>
  OBVIOUS
<1>4. CallInv'
  BY <1>3 DEF CallInv, Served
<1>5. ASSUME NEW j \in Invocation, inv[j] = "returned"
      PROVE  inv'[j] = "returned"
  BY <1>5 DEF TypeOK
<1>6. LateInv'
  BY <1>3, <1>5 DEF LateInv
<1> QED
  BY <1>1, <1>2, <1>4, <1>6

LEMMA CallPreserves ==
  ASSUME IInv, NEW k \in Call, NEW kind \in Kind, NEW id \in Identity, NEW tok \in Token,
         MakeCall(k, kind, id, tok)
  PROVE  IInv'
<1> DEFINE h == Headers(id, tok)
           s == IF kind = "scoped" /\ ~Scoped(id, tok) THEN "denied" ELSE "sent"
<1>1. /\ h.onBehalfOf \in Identity /\ h.token \in Token
      /\ h.token = tok \/ h.token = NoToken
      /\ kind = "scoped" /\ s # "denied" => h.onBehalfOf # NoUser
  BY DEF Headers, Scoped, Identity, Token
<1>2. /\ call' = [call EXCEPT ![k] = [state |-> s, kind |-> kind, onBehalfOf |-> h.onBehalfOf,
                                      token |-> h.token]]
      /\ call[k].state = "none"
      /\ UNCHANGED <<inv, leases, leaseCtx, known, callCtx, asUser>>
      /\ late' = IF tok \in Invocation /\ inv[tok] = "returned" THEN late \cup {k} ELSE late
  BY DEF MakeCall, hostVars
<1> HIDE DEF h, s
<1>3. s \in {"denied", "sent"}
  BY DEF s
<1>4. TypeOK'
  BY <1>1, <1>2, <1>3 DEF IInv, TypeOK, State
<1>5. LeaseInv'
  BY <1>2 DEF IInv, LeaseInv
<1>6. CallInv'
  BY <1>1, <1>2, <1>3 DEF IInv, TypeOK, CallInv, Served
<1>7. LateInv'
  BY <1>1, <1>2, <1>3 DEF IInv, TypeOK, CallInv, LateInv
<1> QED
  BY <1>4, <1>5, <1>6, <1>7 DEF IInv

\* A step of the Host, or of the clock, on one call.
ServiceStep(k) ==
  Abandon(k) \/ LookUp(k) \/ Admit(k) \/ AfterFunc(k) \/ ServiceBegins(k) \/ ServiceEnds(k)

LEMMA ServicePreserves ==
  ASSUME IInv, NEW k \in Call, ServiceStep(k)
  PROVE  IInv'
<1>1. /\ UNCHANGED <<inv, leases, leaseCtx, known, late>>
      /\ \A c \in Call \ {k} : call'[c] = call[c] /\ asUser'[c] = asUser[c]
      /\ call'[k].kind = call[k].kind /\ call'[k].token = call[k].token
      /\ call'[k].onBehalfOf = call[k].onBehalfOf
  BY DEF ServiceStep, Abandon, LookUp, Admit, AfterFunc, ServiceBegins, ServiceEnds, SetState,
         WithoutPrincipal, hostVars, IInv, TypeOK
<1>2. TypeOK'
  BY UserOfAssumption
     DEF ServiceStep, Abandon, LookUp, Admit, AfterFunc, ServiceBegins, ServiceEnds, SetState,
         WithoutPrincipal, hostVars, IInv, TypeOK, CallInv, State, Identity
<1>3. LeaseInv'
  BY <1>1 DEF IInv, LeaseInv
<1>4. /\ call'[k].state # "none"
      /\ call'[k].state = "found" => call[k].token \in leases
      /\ call'[k].state \in {"none", "sent", "found"} => asUser'[k] = asUser[k]
                                        /\ call[k].state \in {"none", "sent", "found"}
      /\ asUser'[k] # asUser[k] =>
           /\ call[k].state = "found"
           /\ asUser'[k] = UserOf[call[k].token] /\ asUser'[k] = call[k].onBehalfOf
      /\ Served(k)' => \/ Served(k) /\ asUser'[k] = asUser[k]
                       \/ call[k].kind = "egress"
                       \/ call[k].state = "found" /\ asUser'[k] = call[k].onBehalfOf
  BY DEF ServiceStep, Abandon, LookUp, Admit, AfterFunc, ServiceBegins, ServiceEnds, SetState,
         WithoutPrincipal, Admissible, hostVars, IInv, TypeOK, Served, Kind
<1>5. CallInv'
  <2>1. \A c \in Call \ {k} : (Served(c) <=> Served(c)')
    BY <1>1 DEF Served
  <2>2. leases \subseteq Invocation /\ call[k].kind \in Kind
    BY DEF IInv, TypeOK
  <2>3. Served(k) => call[k].state \notin {"none", "denied"}
    BY DEF Served
  <2>4. call'[k].state \notin {"none", "denied"} => call[k].state \notin {"none", "denied"}
    BY DEF ServiceStep, Abandon, LookUp, Admit, AfterFunc, ServiceBegins, ServiceEnds, SetState,
           WithoutPrincipal, IInv, TypeOK
  <2>5. ASSUME NEW c \in Call, c # k
        PROVE  /\ call'[c] = call[c] /\ asUser'[c] = asUser[c]
               /\ Served(c)' <=> Served(c)
    BY <2>1, <2>5, <1>1
  <2>6. asUser'[k] # NoUser => \/ asUser'[k] = asUser[k]
                               \/ call[k].state = "found" /\ asUser'[k] = call[k].onBehalfOf
                                  /\ asUser'[k] = UserOf[call[k].token]
    BY <1>4
  <2>7. call[k].kind = "scoped" /\ Served(k)' => asUser'[k] # NoUser
    BY <1>4 DEF IInv, CallInv
  <2> QED
    BY <1>1, <1>4, <2>2, <2>4, <2>5, <2>6, <2>7 DEF IInv, CallInv
<1>6. LateInv'
  <2>1. NoToken \notin leases /\ \A i \in leases : inv[i] # "returned"
    BY DistinctAssumption DEF IInv, TypeOK, LeaseInv
  <2>2. ASSUME NEW c \in late, c = k
        PROVE  call'[c].state \notin {"none", "found"} /\ asUser'[c] = NoUser
    BY <2>1, <2>2, <1>4 DEF IInv, LateInv
  <2> QED
    BY <1>1, <2>2 DEF IInv, TypeOK, LateInv
<1> QED
  BY <1>2, <1>3, <1>5, <1>6 DEF IInv

LEMMA StepInv == IInv /\ [Next]_vars => IInv'
<1> SUFFICES ASSUME IInv, [Next]_vars
             PROVE  IInv'
  OBVIOUS
<1>1. CASE UNCHANGED vars
  BY <1>1 DEF vars, IInv, TypeOK, LeaseInv, CallInv, LateInv, Served
<1>2. CASE Next
  BY <1>2, HostPreserves, CallPreserves, ServicePreserves
     DEF Next, HostStep, ServiceStep, InvokeReturns
<1> QED
  BY <1>1, <1>2

-----------------------------------------------------------------------------
(* The inductive invariant holds of every behaviour.                        *)
THEOREM Invariance == Spec => []IInv
BY InitInv, StepInv, PTL DEF Spec

(* Every variable keeps its type.                                           *)
THEOREM TypeCorrect == Spec => []TypeOK
BY Invariance, PTL DEF IInv

(* A service acts for a user only with that user's own token and name.      *)
THEOREM NobodyImpersonated == Spec => []RightPrincipal
<1>1. IInv => RightPrincipal
  BY DEF IInv, CallInv, RightPrincipal
<1> QED
  BY <1>1, Invariance, PTL

(* MCP, embedding and result calls are never served without a principal.    *)
THEOREM NobodyAnonymous == Spec => []ScopedHasPrincipal
<1>1. IInv => ScopedHasPrincipal
  BY DEF IInv, CallInv, ScopedHasPrincipal
<1> QED
  BY <1>1, Invariance, PTL

(* A call made after its request has returned is not served for the user.   *)
THEOREM TokensExpire == Spec => []TokenDiesWithRequest
<1>1. IInv => TokenDiesWithRequest
  BY DEF IInv, LateInv, TokenDiesWithRequest
<1> QED
  BY <1>1, Invariance, PTL

(* Leases do not leak.                                                      *)
THEOREM LeasesAreReturned == Spec => []NoLeaseLeft
<1>1. IInv => NoLeaseLeft
  BY DEF IInv, LeaseInv, NoLeaseLeft
<1> QED
  BY <1>1, Invariance, PTL

(* The lease's context is live at the moment a principal is granted.        *)
THEOREM GrantedInTime == Spec => AdmittedWhileLive
<1>1. IInv /\ [Next]_vars =>
        [\A k \in Call : asUser'[k] # asUser[k] => leaseCtx[call[k].token] = "live"]_vars
  <2> SUFFICES ASSUME IInv, Next, NEW k \in Call, asUser'[k] # asUser[k]
               PROVE  leaseCtx[call[k].token] = "live"
    OBVIOUS
  <2>1. PICK c \in Call : Admit(c)
    BY DEF Next, InvokeReturns, Invoke, InvokeAnonymous, CallerGivesUp, HandlerBegins, HandlerEnds,
           SendReturns, DropLease, CancelLease, extUnchanged, MakeCall, Abandon, LookUp, AfterFunc,
           ServiceBegins, ServiceEnds
  <2> QED
    BY <2>1 DEF Admit, Admissible, IInv, TypeOK
<1> QED
  BY <1>1, Invariance, PTL DEF Spec, AdmittedWhileLive

-----------------------------------------------------------------------------
(* The refinement of Delegation, step by step.  A step of Invoke leaves the *)
(* calls alone, a step of a call leaves the requests and the other calls.   *)
LEMMA InitRefines == Init => Promise!Init
BY DistinctAssumption DEF Init, Promise!Init, Requests, RequestNow, Stages, StageNow, Origins, Named,
   NeedsUser

LEMMA HostStepRefines ==
  ASSUME IInv, NEW i \in Invocation, HostStep(i)
  PROVE  [Promise!Next]_(Promise!vars)
<1> USE DEF InvGoes, extUnchanged
<1>1. UNCHANGED <<call, asUser>>
  BY DEF HostStep, Invoke, InvokeAnonymous, CallerGivesUp, HandlerBegins, HandlerEnds,
         SendReturns, DropLease, CancelLease
<1>2. UNCHANGED <<Stages, Origins, Named, NeedsUser, asUser>>
  BY <1>1 DEF Stages, StageNow, Origins, Named, NeedsUser
<1>3. \A j \in Invocation \ {i} : inv'[j] = inv[j] /\ leaseCtx'[j] = leaseCtx[j]
  BY DEF HostStep, Invoke, InvokeAnonymous, CallerGivesUp, HandlerBegins, HandlerEnds,
         SendReturns, DropLease, CancelLease, hostVars, IInv, TypeOK
<1>4. Requests' = [Requests EXCEPT ![i] = RequestNow(i)']
  BY <1>3 DEF Requests, RequestNow
<1>5. ASSUME RequestNow(i)' = RequestNow(i)
      PROVE  UNCHANGED Promise!vars
  BY <1>2, <1>4, <1>5 DEF Promise!vars, Requests
<1>6. ASSUME NEW from, NEW to, RequestNow(i) \in from, RequestNow(i)' = to
      PROVE  Promise!RequestGoes(i, from, to)
  <2>1. Requests[i] = RequestNow(i)
    BY DEF Requests
  <2> QED
    BY <2>1, <1>2, <1>4, <1>6 DEF Promise!RequestGoes
<1>7. CASE Invoke(i)
  <2>1. RequestNow(i) = "idle" /\ RequestNow(i)' = "open" /\ UserOf[i] # NoUser
    BY <1>7 DEF Invoke, RequestNow, IInv, TypeOK
  <2> QED
    BY <2>1, <1>6 DEF Promise!Open, Promise!Next
<1>8. CASE InvokeAnonymous(i)
  <2>1. RequestNow(i) = "idle" /\ RequestNow(i)' = "refused" /\ UserOf[i] = NoUser
    BY <1>8 DEF InvokeAnonymous, RequestNow, IInv, TypeOK
  <2> QED
    BY <2>1, <1>6 DEF Promise!Refuse, Promise!Next
<1>9. CASE CallerGivesUp(i)
  <2>1. RequestNow(i) = "open" /\ RequestNow(i)' = "lapsed"
    BY <1>9 DEF CallerGivesUp, RequestNow, IInv, TypeOK
  <2> QED
    BY <2>1, <1>6 DEF Promise!Lapse, Promise!Next
<1>10. CASE HandlerBegins(i) \/ HandlerEnds(i) \/ SendReturns(i) \/ DropLease(i)
  <2>1. RequestNow(i)' = RequestNow(i)
    BY <1>10 DEF HandlerBegins, HandlerEnds, SendReturns, DropLease, hostVars, RequestNow, IInv,
       TypeOK
  <2> QED
    BY <2>1, <1>5
<1>11. CASE CancelLease(i)
  <2>1. RequestNow(i) \in {"open", "lapsed"} /\ RequestNow(i)' = "over"
    BY <1>11 DEF CancelLease, RequestNow, IInv, TypeOK
  <2> QED
    BY <2>1, <1>6 DEF Promise!Return, Promise!Next
<1> QED
  BY <1>7, <1>8, <1>9, <1>10, <1>11 DEF HostStep

LEMMA MakeRefines ==
  ASSUME IInv, NEW k \in Call, NEW kind \in Kind, NEW id \in Identity, NEW tok \in Token,
         MakeCall(k, kind, id, tok)
  PROVE  Promise!Next
<1> DEFINE h == Headers(id, tok)
           s == IF kind = "scoped" /\ ~Scoped(id, tok) THEN "denied" ELSE "sent"
           origin == IF h.token \in Invocation THEN h.token ELSE NoToken
<1>1. /\ h.onBehalfOf \in Identity
      /\ h.token = tok \/ h.token = NoToken
      /\ h.onBehalfOf = NoUser <=> ~Scoped(id, tok)
  <2>1. CASE Scoped(id, tok)
    BY <2>1 DEF Headers, Scoped
  <2>2. CASE ~Scoped(id, tok)
    BY <2>2 DEF Headers, Identity
  <2> QED
    BY <2>1, <2>2
<1>2. /\ call' = [call EXCEPT ![k] = [state |-> s, kind |-> kind, onBehalfOf |-> h.onBehalfOf,
                                      token |-> h.token]]
      /\ call[k].state = "none" /\ tok \in known \cup {Forged, NoToken}
      /\ UNCHANGED <<inv, leaseCtx, asUser>>
  BY DEF MakeCall, hostVars
<1>3. s = IF (kind = "scoped") /\ h.onBehalfOf = NoUser THEN "denied" ELSE "sent"
  BY <1>1
<1>4. s \in {"denied", "sent"}
  BY DEF s
<1> HIDE DEF h, s
<1>5. /\ Stages' = [Stages EXCEPT ![k] =
                     IF (kind = "scoped") /\ h.onBehalfOf = NoUser THEN "denied" ELSE "made"]
      /\ Stages[k] = "none"
  <2>1. call'[k].state = s /\ \A c \in Call \ {k} : call'[c] = call[c]
    BY <1>2 DEF IInv, TypeOK
  <2>2. StageNow(k)' = IF s = "denied" THEN "denied" ELSE "made"
    BY <2>1, <1>4 DEF StageNow
  <2>3. StageNow(k)' = IF (kind = "scoped") /\ h.onBehalfOf = NoUser THEN "denied" ELSE "made"
    BY <2>2, <1>3
  <2>4. \A c \in Call \ {k} : StageNow(c)' = StageNow(c)
    BY <2>1 DEF StageNow
  <2> QED
    BY <1>2, <2>3, <2>4 DEF Stages, StageNow
<1>6. Origins' = [Origins EXCEPT ![k] = origin]
  BY <1>2 DEF Origins, IInv, TypeOK
<1>7. Named' = [Named EXCEPT ![k] = h.onBehalfOf]
  BY <1>2 DEF Named, IInv, TypeOK
<1>8. NeedsUser' = [NeedsUser EXCEPT ![k] = (kind = "scoped")]
  BY <1>2 DEF NeedsUser, IInv, TypeOK
<1>9. UNCHANGED <<Requests, asUser>>
  BY <1>2 DEF Requests, RequestNow
<1>10. origin \in Invocation => Requests[origin] \in {"open", "lapsed", "over"}
  <2> SUFFICES ASSUME origin \in Invocation
               PROVE  Requests[origin] \in {"open", "lapsed", "over"}
    OBVIOUS
  <2>1. origin \in known
    BY <1>1, <1>2, DistinctAssumption
  <2> HIDE DEF origin
  <2>2. inv[origin] \notin {"idle", "refused"}
    BY <2>1 DEF IInv, LeaseInv
  <2> QED
    BY <2>2 DEF Requests, RequestNow, IInv, TypeOK
<1>11. origin \in Invocation \cup {NoToken} /\ h.onBehalfOf \in User \cup {NoUser}
  BY <1>1 DEF Identity
<1>12. Promise!Make(k, origin, h.onBehalfOf, kind = "scoped")
  <2> HIDE DEF origin
  <2> QED
    BY <1>5, <1>6, <1>7, <1>8, <1>9, <1>10, Zenon DEF Promise!Make
<1> HIDE DEF origin
<1> QED
  BY <1>11, <1>12, Zenon DEF Promise!Next

LEMMA ServiceStepRefines ==
  ASSUME IInv, NEW k \in Call, ServiceStep(k)
  PROVE  [Promise!Next]_(Promise!vars)
<1>1. /\ UNCHANGED <<inv, leaseCtx>>
      /\ \A c \in Call \ {k} : call'[c] = call[c] /\ asUser'[c] = asUser[c]
      /\ call'[k].kind = call[k].kind /\ call'[k].token = call[k].token
      /\ call'[k].onBehalfOf = call[k].onBehalfOf
  BY DEF ServiceStep, Abandon, LookUp, Admit, AfterFunc, ServiceBegins, ServiceEnds, SetState,
         WithoutPrincipal, hostVars, IInv, TypeOK
<1>2. UNCHANGED <<Requests, Origins, Named, NeedsUser>>
  BY <1>1 DEF Requests, RequestNow, Origins, Named, NeedsUser
<1>3. Stages' = [Stages EXCEPT ![k] = StageNow(k)']
  <2>1. \A c \in Call \ {k} : StageNow(c)' = StageNow(c)
    BY <1>1 DEF StageNow
  <2> QED
    BY <2>1 DEF Stages
<1>4. Stages[k] = StageNow(k)
  BY DEF Stages
<1>5. ASSUME StageNow(k)' = StageNow(k), asUser' = asUser
      PROVE  UNCHANGED Promise!vars
  BY <1>2, <1>3, <1>5 DEF Promise!vars, Stages
<1>6. ASSUME NEW from, NEW to, StageNow(k) \in from, StageNow(k)' = to
      PROVE  Promise!CallGoes(k, from, to)
  BY <1>2, <1>3, <1>4, <1>6 DEF Promise!CallGoes
<1>7. ASSUME StageNow(k) = "made", WithoutPrincipal(k), asUser' = asUser
      PROVE  Promise!Next
  <2>1. CASE call[k].kind = "scoped"
    <3>1. StageNow(k)' = "denied"
      BY <1>7, <2>1 DEF WithoutPrincipal, SetState, StageNow, IInv, TypeOK
    <3> QED
      BY <1>6, <1>7, <3>1 DEF Promise!Deny, Promise!Next
  <2>2. CASE call[k].kind # "scoped"
    <3>1. StageNow(k)' = "acting"
      BY <1>7, <2>2 DEF WithoutPrincipal, SetState, StageNow, IInv, TypeOK
    <3>2. ~NeedsUser[k]
      BY <2>2 DEF NeedsUser
    <3> QED
      BY <1>6, <1>7, <3>1, <3>2 DEF Promise!ActForNobody, Promise!Next
  <2> QED
    BY <2>1, <2>2
<1>8. CASE LookUp(k)
  <2>1. StageNow(k) = "made" /\ asUser' = asUser
    BY <1>8 DEF LookUp, StageNow
  <2>2. CASE SetState(k, "found")
    <3>1. StageNow(k)' = "made"
      BY <2>2 DEF SetState, StageNow, IInv, TypeOK
    <3> QED
      BY <1>5, <2>1, <3>1
  <2> QED
    BY <1>7, <1>8, <2>1, <2>2 DEF LookUp
<1>9. CASE Admit(k)
  <2>1. StageNow(k) = "made"
    BY <1>9 DEF Admit, StageNow
  <2>2. CASE Admissible(k)
    <3>1. /\ StageNow(k)' = "acting"
          /\ asUser' = [asUser EXCEPT ![k] = call[k].onBehalfOf]
          /\ call[k].state = "found"
      BY <1>9, <2>2 DEF Admit, Admissible, SetState, StageNow, IInv, TypeOK
    <3>2. call[k].token \in Invocation
      BY <3>1 DEF IInv, CallInv
    <3>3. inv[call[k].token] \notin {"idle", "refused", "returned"}
      BY <2>2, <3>2 DEF Admissible, IInv, LeaseInv
    <3>4. /\ Origins[k] = call[k].token /\ Named[k] = call[k].onBehalfOf
          /\ Requests[Origins[k]] = "open" /\ UserOf[Origins[k]] = Named[k]
      BY <2>2, <3>2, <3>3 DEF Admissible, Origins, Named, Requests, RequestNow
    <3>5. Promise!ActFor(k)
      BY <1>6, <2>1, <3>1, <3>2, <3>4 DEF Promise!ActFor
    <3> QED
      BY <3>5 DEF Promise!Next
  <2>3. CASE ~Admissible(k)
    BY <1>7, <1>9, <2>1, <2>3 DEF Admit
  <2> QED
    BY <2>2, <2>3
<1>10. CASE ServiceBegins(k)
  <2>1. StageNow(k) = "acting" /\ asUser' = asUser
        /\ StageNow(k)' \in {"acting", "denied"}
    BY <1>10 DEF ServiceBegins, SetState, StageNow, IInv, TypeOK
  <2> QED
    BY <1>5, <1>6, <2>1 DEF Promise!Deny, Promise!Next
<1>11. CASE ServiceEnds(k)
  <2>1. StageNow(k) = "acting" /\ asUser' = asUser /\ StageNow(k)' = "done"
    BY <1>11 DEF ServiceEnds, SetState, StageNow, IInv, TypeOK
  <2> QED
    BY <1>6, <2>1 DEF Promise!End, Promise!Next
<1>12. CASE Abandon(k) \/ AfterFunc(k)
  <2>1. StageNow(k)' = StageNow(k) /\ asUser' = asUser
    BY <1>12 DEF Abandon, AfterFunc, StageNow
  <2> QED
    BY <1>5, <2>1
<1> QED
  BY <1>8, <1>9, <1>10, <1>11, <1>12 DEF ServiceStep

LEMMA StepRefines ==
  ASSUME IInv, [Next]_vars
  PROVE  [Promise!Next]_(Promise!vars)
<1>1. CASE UNCHANGED vars
  BY <1>1 DEF vars, Promise!vars, Requests, RequestNow, Stages, StageNow, Origins, Named, NeedsUser
<1>2. CASE Next
  BY <1>2, HostStepRefines, MakeRefines, ServiceStepRefines
     DEF Next, HostStep, ServiceStep, InvokeReturns
<1> QED
  BY <1>1, <1>2

(* What the Host promises of delegation holds, whatever tokens, leases and  *)
(* contexts do: a call acts for the user it names only while that user's    *)
(* request is open, and a request that is over stays over.                  *)
THEOREM RequestsDelegate == Spec => ImplementsDelegation
<1>1. IInv /\ [Next]_vars => [Promise!Next]_(Promise!vars)
  BY StepRefines
<1> QED
  BY <1>1, InitRefines, Invariance, PTL DEF Spec, ImplementsDelegation, Promise!Spec
=============================================================================
