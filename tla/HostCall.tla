------------------------------ MODULE HostCall ------------------------------
(***************************************************************************)
(* Calls of the Host API by the goroutines of one extension: hostClient.do *)
(* with its retries, hostClient.call without, and what the config, audit   *)
(* and workflow services make of the outcome.                              *)
(*                                                                         *)
(* The network is the weakest HTTP allows: a request may be refused by the *)
(* dialler, executed, or lost; its answer may be lost; and a request whose *)
(* client has given up may still be executed later.  net/http never sends  *)
(* a POST or a PUT twice by itself.  The Host holds one value, the config, *)
(* written by the writing calls: "stored" names the call that wrote it.    *)
(***************************************************************************)
EXTENDS HostErrors

CONSTANTS
  Call,             \* the calls made
  Made,             \* the kinds of call among them
  Grants,           \* the config capabilities the extension may be granted
  Snapshots,        \* whether its environment may carry a config: both, or one
  Initial,          \* the value the Host holds when the extension starts
  maxGetAttempts,   \* attempts of an idempotent GET
  Answers           \* the <<status, code>> pairs the Host refuses calls with

ASSUME InitialAssumption == Initial \notin Call
ASSUME MadeAssumption == Made \subseteq {"read", "config", "write", "audit", "single"}
ASSUME GrantsAssumption == Grants \subseteq SUBSET {"config.read", "config.write"}
ASSUME SnapshotsAssumption == Snapshots \subseteq BOOLEAN
ASSUME AnswersAssumption == Answers \subseteq Nat \X (Code \cup {"none"})
ASSUME AttemptsAssumption == maxGetAttempts \in Nat \ {0}

VARIABLES
  granted,    \* the config capabilities the extension was granted
  snapshot,   \* whether the start-up environment carried a config
  kind,       \* what each call is
  pc,         \* where each call is
  tries,      \* attempts begun
  ctx,        \* the caller's context: "live" or "done"
  limit,      \* the time limit in force: "none", "caller", "default"
  wire,       \* attempts whose request is on its way to the Host
  reply,      \* the answer on its way back
  last,       \* the outcome of the latest attempt
  result,     \* what the caller is told
  stored,     \* the value the Host holds
  applied,    \* history: how often the Host executed each call
  seen,       \* history: what the answer to each reading call shows, if any
  before      \* history: the calls that had succeeded when each one began

vars == <<granted, snapshot, kind, pc, tries, ctx, limit, wire, reply, last,
          result, stored, applied, seen, before>>

(* "read": a GET (kafka, clusters, metadata, mcp lists, ping); "config":    *)
(* ConfigService.Get; "write": ConfigService.Set (a PUT) or a workflow or   *)
(* metrics POST; "audit": AuditService.Record; "single": hostClient.call    *)
(* (mcp.call, embedding, results) by the client that has no timeout.        *)
Kind    == {"read", "config", "write", "audit", "single"}
Getting == {"read", "config"}
Values  == Call \cup {Initial}

TypeOK ==
  /\ granted \subseteq {"config.read", "config.write"}
  /\ snapshot \in BOOLEAN
  /\ kind \in [Call -> Kind]
  /\ pc \in [Call -> {"idle", "sending", "waiting", "backoff", "done"}]
  /\ tries \in [Call -> 0 .. maxGetAttempts]
  /\ ctx \in [Call -> {"live", "done"}]
  /\ limit \in [Call -> {"none", "caller", "default"}]
  /\ wire \in [Call -> SUBSET (1 .. maxGetAttempts)]
  /\ reply \in [Call -> Outcomes]
  /\ last \in [Call -> Outcomes]
  /\ result \in [Call -> {"none", "ok", "error", "snapshot", "logged"}]
  /\ stored \in Values
  /\ applied \in [Call -> Nat]
  /\ seen \in [Call -> SUBSET Values]
  /\ before \in [Call -> SUBSET Call]

Init ==
  /\ granted \in Grants
  /\ snapshot \in Snapshots
  /\ kind = [k \in Call |-> "read"]
  /\ pc = [k \in Call |-> "idle"]
  /\ tries = [k \in Call |-> 0]
  /\ ctx = [k \in Call |-> "live"]
  /\ limit = [k \in Call |-> "none"]
  /\ wire = [k \in Call |-> {}]
  /\ reply = [k \in Call |-> None]
  /\ last = [k \in Call |-> None]
  /\ result = [k \in Call |-> "none"]
  /\ stored = Initial
  /\ applied = [k \in Call |-> 0]
  /\ seen = [k \in Call |-> {}]
  /\ before = [k \in Call |-> {}]

world   == <<granted, snapshot>>
hostOwn == <<stored, applied, seen>>
setUp   == <<world, kind, limit, before>>

-----------------------------------------------------------------------------
(***************************************************************************)
(* The client.                                                             *)
(***************************************************************************)
Succeeded == {k \in Call : result[k] = "ok"}

\* Fault: the caller's context is used as it is.
callContext_AsIs(deadline) == IF deadline THEN "caller" ELSE "none"

\* callContext: a caller without a deadline is given the default one.
callContext(deadline) == IF deadline THEN "caller" ELSE "default"

\* The http client limits every attempt; the stream client has no limit but
\* that of the context.
Limit(what, deadline) == IF what = "single" THEN callContext(deadline) ELSE "default"

\* HostContext.Config is only there with config.read or config.write, and Set
\* refuses on the spot without the latter.
Allowed(what) ==
  CASE what = "config" -> granted # {}
    [] what = "write"  -> "config.write" \in granted
    [] OTHER           -> TRUE

Begin(k, what, deadline) ==
  /\ pc[k] = "idle"
  /\ Allowed(what)
  /\ kind' = [kind EXCEPT ![k] = what]
  /\ limit' = [limit EXCEPT ![k] = Limit(what, deadline)]
  /\ before' = [before EXCEPT ![k] = Succeeded]
  /\ pc' = [pc EXCEPT ![k] = "sending"]
  /\ UNCHANGED <<world, tries, ctx, wire, reply, last, result, hostOwn>>

Cancel(k) ==
  /\ pc[k] \in {"sending", "waiting", "backoff"}
  /\ ctx[k] = "live"
  /\ ctx' = [ctx EXCEPT ![k] = "done"]
  /\ UNCHANGED <<setUp, pc, tries, wire, reply, last, result, hostOwn>>

\* Fault: every call that fails is tried again.
Attempts_Any(k) == maxGetAttempts

Attempts(k) == IF kind[k] \in Getting THEN maxGetAttempts ELSE 1

\* Fault: the error of the last attempt is dropped.
ServiceResult_DropsError(k, o) == IF kind[k] = "audit" THEN "logged" ELSE "ok"

\* What the service makes of an outcome: config.Get falls back to the snapshot
\* on any error, and Record only logs.
ServiceResult(k, o) ==
  CASE kind[k] = "audit"                   -> "logged"
    [] o = Good                            -> "ok"
    [] kind[k] = "config" /\ snapshot      -> "snapshot"
    [] OTHER                               -> "error"

Finish(k, o) ==
  /\ pc' = [pc EXCEPT ![k] = "done"]
  /\ result' = [result EXCEPT ![k] = ServiceResult(k, o)]

\* The loop of do after an attempt: return, or wait and try again.
Settle(k, o) ==
  /\ last' = [last EXCEPT ![k] = o]
  /\ reply' = [reply EXCEPT ![k] = None]
  /\ IF o # Good /\ retryableHostError(o) /\ tries'[k] < Attempts(k)
     THEN pc' = [pc EXCEPT ![k] = "backoff"] /\ UNCHANGED result
     ELSE Finish(k, o)
  /\ UNCHANGED <<setUp, ctx, hostOwn>>

\* net/http looks at the context before it sends anything.
Sendable(k) == ctx[k] = "live"

\* attempt, up to the request on its way: a context already done or a failed
\* dial ends the attempt with nothing sent.
Send(k) ==
  /\ pc[k] = "sending"
  /\ tries' = [tries EXCEPT ![k] = @ + 1]
  /\ \/ /\ Sendable(k)
        /\ wire' = [wire EXCEPT ![k] = @ \cup {tries'[k]}]
        /\ pc' = [pc EXCEPT ![k] = "waiting"]
        /\ UNCHANGED <<setUp, ctx, reply, last, result, hostOwn>>
     \/ ~Sendable(k) /\ Settle(k, Ended) /\ UNCHANGED wire
     \/ Sendable(k) /\ Settle(k, Lost) /\ UNCHANGED wire

\* The answer is in: a good one may still break off or not decode.
Receive(k) ==
  /\ pc[k] = "waiting"
  /\ reply[k] # None
  /\ UNCHANGED <<tries, wire>>
  /\ \/ Settle(k, reply[k])
     \/ reply[k] = Good /\ (Settle(k, Garbled) \/ Settle(k, Lost))

\* The connection breaks while the call is waiting.
Break(k) ==
  /\ pc[k] = "waiting"
  /\ UNCHANGED <<tries, wire>>
  /\ Settle(k, Lost)

\* The time limit passes, or the caller's context has ended.
Expire(k) ==
  /\ pc[k] = "waiting"
  /\ limit[k] # "none" \/ ctx[k] = "done"
  /\ UNCHANGED <<tries, wire>>
  /\ Settle(k, Ended)

\* The select between the context and the timer, when both may be ready.
Backoff(k) ==
  /\ pc[k] = "backoff"
  /\ \/ /\ pc' = [pc EXCEPT ![k] = "sending"]
        /\ UNCHANGED <<last, result>>
     \/ /\ ctx[k] = "done"
        /\ last' = [last EXCEPT ![k] = Ended]
        /\ Finish(k, Ended)
  /\ UNCHANGED <<setUp, tries, ctx, wire, reply, hostOwn>>

Client(k) == Send(k) \/ Receive(k) \/ Expire(k) \/ Backoff(k)

-----------------------------------------------------------------------------
(***************************************************************************)
(* The Host and the network.                                               *)
(***************************************************************************)

\* Answers reach the attempt that asked, if it is still waiting.
Answer(k, i, o) ==
  reply' = [reply EXCEPT ![k] = IF pc[k] = "waiting" /\ tries[k] = i THEN o ELSE @]

Arrives(k, i) ==
  /\ i \in wire[k]
  /\ wire' = [wire EXCEPT ![k] = @ \ {i}]
  /\ UNCHANGED <<setUp, pc, tries, ctx, last, result>>

\* The Host checks the capability again (serveConfig of the testkit's Host).
Permitted(k) == kind[k] = "config" => "config.read" \in granted

Execute(k, i) ==
  /\ Arrives(k, i)
  /\ Permitted(k)
  /\ applied' = [applied EXCEPT ![k] = @ + 1]
  /\ IF kind[k] \in Getting
     THEN /\ seen' = [seen EXCEPT ![k] = IF pc[k] = "waiting" /\ tries[k] = i
                                         THEN {stored} ELSE @]
          /\ UNCHANGED stored
     ELSE stored' = (IF kind[k] = "write" THEN k ELSE stored) /\ UNCHANGED seen
  /\ Answer(k, i, Good)

Refuse(k, i) ==
  /\ Arrives(k, i)
  /\ IF Permitted(k)
     THEN \E a \in Answers : Answer(k, i, Refusal(a[1], a[2]))
     ELSE Answer(k, i, Refusal(403, "PERMISSION_DENIED"))
  /\ UNCHANGED hostOwn

Lose(k, i) ==
  /\ Arrives(k, i)
  /\ UNCHANGED <<reply, hostOwn>>

Next ==
  \E k \in Call :
    \/ \E what \in Made, deadline \in BOOLEAN : Begin(k, what, deadline)
    \/ Cancel(k) \/ Client(k) \/ Break(k)
    \/ \E i \in 1 .. maxGetAttempts : Execute(k, i) \/ Refuse(k, i) \/ Lose(k, i)

\* The extension's goroutines run and its timers fire.  Nothing is assumed of
\* the Host, of the network or of the callers' contexts.
Fairness == \A k \in Call : WF_vars(Client(k))

Spec == Init /\ [][Next]_vars /\ Fairness

-----------------------------------------------------------------------------
(***************************************************************************)
(* Properties.                                                             *)
(***************************************************************************)

(* A call with an effect (a config write, a submitted request, an audit     *)
(* entry, a tool call) is executed at most once, however its answer, its    *)
(* connection or its context ended: no duplicate audit entry or request.    *)
EffectAtMostOnce ==
  \A k \in Call : kind[k] \notin Getting => applied[k] <= 1

(* A caller that is told of success is told the truth: the Host executed it.*)
OkMeansExecuted == \A k \in Call : result[k] = "ok" => applied[k] >= 1

(* A write that succeeded stays overwritten: once a later write has         *)
(* succeeded too, no late copy of the earlier one brings its value back.    *)
SettledWritesKeepOrder ==
  \A a, b \in Call :
    (kind[a] = "write" /\ kind[b] = "write" /\ a \in before[b] /\ result[b] = "ok")
      => stored # a

(* A config read that succeeded without the snapshot does not miss a write  *)
(* that had succeeded when it began, whichever of its attempts answered, and *)
(* does not bring back what that write had replaced.                        *)
ReadsSeeSettledWrites ==
  \A a, r \in Call :
    (kind[a] = "write" /\ a \in before[r] /\ kind[r] \in Getting /\ result[r] = "ok")
      => seen[r] \cap ({Initial} \cup before[a]) = {}

(* Once its context has ended, even if the timer of its backoff fires at    *)
(* the same moment, or once it has heard a refusal that another attempt     *)
(* cannot change (401, 403, 404, 409, ...), a call sends nothing more.      *)
Final(o) == o.what = "refused" /\ o.code \notin {"TEMPORARY_FAILURE", "HOST_UNAVAILABLE"}

NothingSentInVain ==
  [][\A k \in Call : ctx[k] = "done" \/ Final(last[k]) => wire'[k] \subseteq wire[k]]_vars

(* Every call returns, even if the Host never answers and the caller gave   *)
(* no deadline and never cancels.                                           *)
EveryCallReturns == \A k \in Call : pc[k] = "sending" ~> pc[k] = "done"

(* To its callers the client is a HostOperation, with all its attempts.     *)
Form  == [k \in Call |-> IF kind[k] \in Getting THEN "read"
                         ELSE IF kind[k] = "write" THEN "write" ELSE "effect"]
Phase == [k \in Call |-> IF pc[k] = "idle" THEN "idle"
                         ELSE IF pc[k] # "done" THEN "open"
                         ELSE IF result[k] = "ok" THEN "ok" ELSE "unsure"]
Took  == [k \in Call |-> IF kind[k] \in Getting THEN 0 ELSE applied[k]]

Operation == INSTANCE HostOperation
               WITH form <- Form, phase <- Phase, took <- Took, value <- stored

ImplementsCall == Operation!Spec

-----------------------------------------------------------------------------
(***************************************************************************)
(* What the comments say of the code, and the code does not do.            *)
(***************************************************************************)

(* hostclient.go:690-691: for an extension with config.write alone, Get is  *)
(* stopped by the Core with 403.                                            *)
WriteOnlyCannotRead ==
  \A k \in Call :
    kind[k] = "config" /\ "config.read" \notin granted /\ last[k].status = 403 =>
      result[k] = "error"
=============================================================================
