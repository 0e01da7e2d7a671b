------------------------------ MODULE Delegation ------------------------------
(***************************************************************************)
(* What a user and the Host may rely on when an extension calls the Host   *)
(* API (Invoke and principal of testkit.ProcessHost).  Leases, tokens,     *)
(* headers, contexts and the two halves of the check do not show: a call   *)
(* belongs to the request it was made in or to none, and names a user or   *)
(* nobody.  At one moment the Host lets it act: for the user it names, if  *)
(* the request it belongs to is that user's and is still open, or else for *)
(* nobody, if the call can do without a user.  A request that is over is   *)
(* over for good.                                                          *)
(***************************************************************************)
CONSTANTS
  Request,     \* requests of users
  Call,        \* calls of the extension
  UserOf,      \* the user of each request
  User,        \* users
  NoUser,      \* nobody
  NoRequest    \* where a call belongs that was made outside of any request

VARIABLES
  request,     \* each request: "idle", "open", "lapsed" (its user has left), "over", "refused"
  stage,       \* each call: "none", "made", "acting", "done" or "denied"
  origin,      \* the request it belongs to
  named,       \* the user it names
  scoped,      \* whether it needs a user
  actsFor      \* the user it was let act for

vars == <<request, stage, origin, named, scoped, actsFor>>

Init ==
  /\ request = [i \in Request |-> "idle"]
  /\ stage = [k \in Call |-> "none"]
  /\ origin = [k \in Call |-> NoRequest]
  /\ named = [k \in Call |-> NoUser]
  /\ scoped \in [Call -> BOOLEAN]
  /\ actsFor = [k \in Call |-> NoUser]

RequestGoes(i, from, to) ==
  /\ request[i] \in from
  /\ request' = [request EXCEPT ![i] = to]
  /\ UNCHANGED <<stage, origin, named, scoped, actsFor>>

Open(i) == UserOf[i] # NoUser /\ RequestGoes(i, {"idle"}, "open")
Refuse(i) == UserOf[i] = NoUser /\ RequestGoes(i, {"idle"}, "refused")
Lapse(i) == RequestGoes(i, {"open"}, "lapsed")
Return(i) == RequestGoes(i, {"open", "lapsed"}, "over")

\* A call belongs to a request that was let in, and a call that needs a user and
\* has none is turned away at once.
Make(k, i, u, needs) ==
  /\ stage[k] = "none"
  /\ i \in Request => request[i] \in {"open", "lapsed", "over"}
  /\ stage' = [stage EXCEPT ![k] = IF needs /\ u = NoUser THEN "denied" ELSE "made"]
  /\ origin' = [origin EXCEPT ![k] = i]
  /\ named' = [named EXCEPT ![k] = u]
  /\ scoped' = [scoped EXCEPT ![k] = needs]
  /\ UNCHANGED <<request, actsFor>>

CallGoes(k, from, to) ==
  /\ stage[k] \in from
  /\ stage' = [stage EXCEPT ![k] = to]
  /\ UNCHANGED <<request, origin, named, scoped>>

ActFor(k) ==
  /\ origin[k] \in Request /\ request[origin[k]] = "open" /\ UserOf[origin[k]] = named[k]
  /\ CallGoes(k, {"made"}, "acting")
  /\ actsFor' = [actsFor EXCEPT ![k] = named[k]]

ActForNobody(k) == ~scoped[k] /\ CallGoes(k, {"made"}, "acting") /\ UNCHANGED actsFor

Deny(k) == CallGoes(k, {"made", "acting"}, "denied") /\ UNCHANGED actsFor
End(k) == CallGoes(k, {"acting"}, "done") /\ UNCHANGED actsFor

Next ==
  \/ \E i \in Request : Open(i) \/ Refuse(i) \/ Lapse(i) \/ Return(i)
  \/ \E k \in Call :
       \/ \E i \in Request \cup {NoRequest}, u \in User \cup {NoUser}, needs \in BOOLEAN :
            Make(k, i, u, needs)
       \/ ActFor(k) \/ ActForNobody(k) \/ Deny(k) \/ End(k)

Spec == Init /\ [][Next]_vars
=============================================================================
