# Ableops Extension SDK: a verification project

TLA+ models of the Go SDK under `src/extension/v1`: the process an extension runs in, the
Host that starts it and proxies users' requests to it, the Host API between the two, and
what an extension's package declares. TLC checks the models on small instances; TLAPS proves
the most important safety properties for every size.

- [The system](#the-system): components, state, operations, interactions
- [Modules](#modules): which module models what, and how it corresponds to the code
- [Runs](#runs): what is checked, with which bounds, and why they are enough
- [Fairness](#fairness), [Proofs](#proofs), [Findings](#findings)
- [What is not modelled](#what-is-not-modelled), [Plan](#plan)

`PROJECT.json` has the machine-readable form: the components, the runs, the source lines of
every definition, a deliberate fault for every property, the hazards and the theorems.

    tlasany M.tla                          parse
    tlc -workers 2 -config MCx.cfg MCm     model-check
    tlapm M_proofs.tla                     prove

Paths below are relative to `src/extension/v1`.

## The system

An extension is a Go program that implements `Extension` (Manifest, Start, Stop, Routes).
Built with `extserver.Run` it becomes a process of its own. A Host (in production the Core,
in tests `testkit.ProcessHost`) starts it, waits for its line on stdout, proxies users' HTTP
requests to its loopback address, and stops it by closing its stdin. In the other direction
the extension calls the Host API over HTTP, for the capabilities the Core granted it, in its
own name or on behalf of the user whose request it is handling.

      Core / ProcessHost                         extension process
      ------------------                         -----------------
      Launch ---- start, environment --------->  RunContext
             <--- "READY host:port" on stdout -
      Invoke ---- request + identity + token -->  handlers
      Host API <-- calls (token, On-Behalf-Of) -  hostClient, services
         |
         +-- secret.use --> upstream service
         +-- result store

| Component | Source | State | Operations |
|---|---|---|---|
| Extension process | `extserver/run.go` | where `RunContext` is, the listener, the Serve goroutine and its channel, the connections and their handlers, `stopOnce`, stdout | `RunContext`, its Serve goroutine, start-up ping, `stopExtension`, `shutdownServer`, stdin watcher |
| Launch and readiness | `testkit/processhost.go` | the child, what has been read of its stdout, the health poll, the caller's deadline | `Launch`, `WaitReady`, `Health`, kill |
| Proxied requests and principals | `testkit/processhost.go`, `extserver/identity.go`, `extserver/hostclient.go`, `extserver/host_extensions.go` | the leases (token, identity, context), the context of each handler, the calls being served | `Invoke`, identity middleware, `attachIdentity`, `callAs`, `principal`, `requireCapability` |
| Host API client | `extserver/hostclient.go`, `errors.go`, `reliability.go` | per call: attempt, backoff timer, context, time limit; the config snapshot of the environment | `do`, `attempt`, `call`, `get`, the services on top |
| Capability negotiation | `capability.go`, `extserver/env.go`, `host.go`, `services.go`, `extserver/hostclient.go` | Manifest, grant, available / missing / unsupported / unknown sets, `HostContext.Services` and its legacy fields | `loadEnvironment`, `newHostContext`, `LookupService`, `Require...`, the Host's check |
| Delegated upstream calls | `secret_use.go`, `extserver/host_extensions.go`, `testkit/processhost.go`, `testkit/host_extensions.go` | a call's context and deadline, the connection to the Host, the handler, the upstream's response and how much of it has been passed on | `secretTransport.RoundTrip`, `Do`, `serveEgress`, `FakeSecretUse.Do`, `CopyEgressResponse` |
| Result store | `result_store.go`, `extserver/semantic_services.go`, `testkit/*.go` | stored results; what a client has read of one | `PutResult`, `ReadResult`, `PageResult`, `ResultInfo` and the validation on both sides |
| Embedding service | `embedding.go`, `extserver/semantic_services.go` | none | `Embed` and the validation around it |
| Lifecycle states | `lifecycle.go` | the state of an installed extension, held by the Core | `CanTransition`, `NormalizeState` |
| Manifest, routes, menus | `manifest.go`, `permission.go`, `ui.go`, `reliability.go` | none | `ParseManifest`, `Validate`, `Sanitized` |
| Versions | `version.go`, `apiversion.go`, `compat.go`, `protocol.go` | none | `SatisfiesRange`, comparison |
| Identity headers | `extserver/identity.go` | none | `SetIdentityHeaders`, `identityFromRequest` |
| Test host | `testkit/host.go`, `testkit/semantic_services.go`, `testkit/host_extensions.go` | the fakes the options have recorded, the services made of them | `With...`, `buildResolver` |
| Contract check | `testkit/contract.go` | the issues so far, the goroutines of Start and Health, their clocks | `CheckExtension` |
| Fakes, logger, domain contracts | `testkit/fakes.go`, `extserver/logger.go`, `kafka.go`, `cluster.go`, ... | recorders behind a mutex | |
| Frontend bridge types | `src/frontend/v1/bridge.ts` | none | `supportsBridgeVersion` |

### Where it is hard, and what makes it correct

**Extension process.** `RunContext` runs beside the goroutine in `http.Server.Serve`, one
goroutine per connection, a ping and a stdin watcher, and can be cancelled before any of
them has begun. Stop must be called exactly once if Start succeeded, on the normal path, on
each error return and on a panic (even one of Stop itself); READY must not appear before the
address accepts connections; requests must be drained before Stop, and the deadline of the
drain must not let another one in; every path must end.

**Launch.** Launch can give up at any point: it closes stdin and asks for the child to be
killed, drops what `Kill` says and waits for nothing, and the child must still come to its
end. A child can die between READY and the first health check, or answer nothing. A Host
that believes an extension is up must have had an answer from it.

**Principals.** A token is looked up under a lock and used after it. The request it belongs
to may end before, between and after the look-up, the check and the service. Goroutines keep
contexts. No call may run for a user other than the one whose request minted its token, none
for a user whose request has ended before the call, and a call in progress must be cancelled
with its request.

**Host API client.** Any answer may be lost, any request executed late. Reads are retried
and writes are not: an effect must happen at most once, success must be real, a settled
write must stay settled, retries must respect cancellation and final refusals, and each call
must return.

**Negotiation.** Older Cores say nothing, newer ones say names the SDK does not know or more
than was asked; pairs of capabilities share one service, and legacy fields offer a second
way to it. What is found, what is reported and what is executed must agree.

**Delegated calls.** Two HTTP hops with cancellation from the reader, from a deadline and
from the user's request. The context of a call must live exactly as long as its body; a
Host's refusal and an upstream's error must not be taken for each other; credentials must
come from the binding alone; whichever end gives up, the upstream connection must be given
back.

**Result store.** The client trusts nothing the Host answers: sums of offsets, completion
marks, digests and receipts are compared. What is let through must be consistent, nothing
proper may be turned down, and a loop that reads on must come to its end.

**What a package declares.** Pure functions with many cases: blanks that are trimmed in one
place and compared in another, menus in any order with missing or cyclic parents, prefixes
that end inside a segment, secrets recognised in three ways, constraints of which any token
may be malformed, lists encoded inside lists. They are judged by what they promise for every
input, not case by case.

**Contract check and test host.** They decide what an author believes of an extension before
it is installed. A Start that comes back after its wait must be neither stopped nor
forgotten; a double must not be more generous than the Core.

## Modules

      ExtensionContract  <== implemented by ==  ExtProcess  <-- extended by --  ProcessLaunch
      HostOperation      <== implemented by ==  HostCall
      Delegation         <== implemented by ==  RequestLease
      UpstreamCall       <== implemented by ==  SecretEgress
      HostErrors    <-- extended by --  HostCall,  SecretEgress
      Capabilities  <-- extended by --  TestHost
      Manifest      <-- extended by --  ContractCheck
      ResultStore   Versions   IdentityHeaders   Embedding   Lifecycle
      X_proofs for ExtProcess, ProcessLaunch, RequestLease, HostCall, SecretEgress,
               Capabilities (with TestHost), ResultStore; Package_proofs for Manifest,
               ContractCheck, Lifecycle, Versions, IdentityHeaders, Embedding
      MC* (instances)

**ExtensionContract** is what a Host and an extension may rely on, seen from outside: one
line on stdout, a door that opens after Start and before READY, Stop after Start, and no end
of a run that leaves the extension running.

**ExtProcess** is `RunContext` with everything that runs beside it. `pc` is the main
goroutine's place in the function, one action per statement that can be interleaved with
something: `CheckManifest`, `LoadEnvironment`, `CallStart`, `StartReturns`, `MountRoutes`,
`Listen`, `WriteHandshake`, the two branches of the `select`, `ShutdownBegins` /
`ShutdownDrained` / `ShutdownTimeout` (with its `Close`), the join on `serveErr`, and
`EnterStop` with the `sync.Once` flag set before the call. Every way to leave goes through
the label `unwind`, the deferred `stopExtension`. `net/http` is external and modelled by
what it documents: `Serve` registers its listener some time after the goroutine was started
(so `Shutdown` may come first), a connection goes through the states of `http.ConnState`,
`Shutdown` closes idle connections and waits for the others. One branch of the code is left
out: in the `select`, `serveErr` cannot yet carry `http.ErrServerClosed`, because nobody but
`RunContext` itself, later, shuts the server down. When the listener fails by itself
`RunContext` returns with neither `Shutdown` nor `Close`: Stop may then run beside handlers
that are still at work, and the connections already open go on being served. The model has
this behaviour, and `StopAfterDrain` and `NoRequestAfterStop` speak of every run but name it
(`Broken`) as their exception. They do hold where READY could not be written, since that
path shuts the server down first (a second fault shows that they need it).

**ProcessLaunch** puts `ProcessHost.Launch` and `WaitReady` around every step of
`ExtProcess`. The Host starts the child, scans its stdout, polls `/health` over a connection
of the same server, and gives up at any point where its context is looked at. What one side
does to the other arrives later: an answer to `/health` is on its way (`reply`) until the
Host reads it, the end of stdin is noticed by the child's own goroutine (`WatchStdin`), and
`Kill` only asks for a signal, which may be refused and which the kernel delivers in a step
of its own (`Dies`). So the caller of a failed Launch can hold the error while the child
still executes. `alive` says that the child executes: nobody calls `Wait`, and the entry a
dead child leaves in the process table is not modelled. A child that was killed or has
returned takes no more steps; one that was killed has not called Stop. That an answer is
given by a living extension is said of the moment it is given: by the time Launch returns
success on it, the process may be going down.

**RequestLease** follows a user's request through `Invoke` (lease, context, send, and the
two deferred calls in the order in which Go runs them), the extension's middleware
(`HandlerBegins` hands the context to the extension, which may keep it), and calls made with
any identity and any token it knows: `LookUp` under the lock, `Admit` after it, `AfterFunc`
in its own goroutine. A call is `scoped` (refused without a principal) or `egress` (which
goes on without one). Tokens are random, so a token is the invocation it was minted for.
**Delegation** is what is left of this for the user: a request is open until its user leaves
or it is over, a call belongs to one request or to none, and at one moment the Host lets it
act, for the user it names if the request it belongs to is that user's and open at that
moment, or for nobody if it can do without a user. RequestLease implements it with a request
open while the context of its lease is live (whatever `Invoke` is doing), the token a call
sends as the request it belongs to, and `Admit` as the moment; the look-up under the lock,
the contexts and the order of the deferred calls are stutters.

**HostErrors** has `CodeForHTTPStatus`, `newHostError`, `retryableHostError` as functions on
statuses and codes. **HostCall** is a call through `do` (reads, with retries; writes,
without) or `call` (`single`), over a network in which a request can be refused, executed,
or lost, its answer lost or garbled, and executed even after the client gave up.
`ServiceResult` is what the services make of the outcome: `configService.Get` falls back to
the snapshot of the environment, `auditService.Record` logs and returns. The Host has one
value, the config, named by the call that wrote it. **HostOperation** is what is left of
this for a caller: an operation is open from its call to its return, takes its effect at one
moment or never (perhaps after its caller was told of a failure), and a read shows a value
held while it was open. HostCall implements it with `took` the number of executions of a
call with an effect and `phase` what the caller was told; attempts, retries, time limits and
late copies are stutters or the one effect.

**Capabilities** starts from every Manifest, every grant and both kinds of Core, and goes
through `loadEnvironment`, `newHostContext` and any sequence of operations, each looked up
through either half of its pair. `RequireService` asserts the type, so a service that is
found need not have the operation: the writer under `config.write` has no `Get`
(`HasMethod`). Names are sets; order and repetition are left out. **TestHost** is
`testkit.NewHost`: options in any order and number record fakes, `buildResolver` makes
services of them, some wrapped so that half of the service is refused. It instantiates
Capabilities with the process an author would install (a Manifest that requires, and a Core
that grants, what the options stand for), so that what a unit test allows can be compared
with what the Host executes.

**SecretEgress** is one delegated call through both processes and the upstream. `LocalError`
and `Verdict` are the two sequences of checks, in the code's order, each with the code it
answers. The body streams as a count of chunks `produced` by the upstream, `copied` by the
Host, `read` by the extension; the context of the call (`ctx`, `limit`, `cancelled`), the
Host's (`hctx`) and the user's request (`lease`) can end between any two of these. Buffers
of TCP and HTTP are unbounded in the model: a Host is never blocked on a slow reader.
**UpstreamCall** is what is left of this for the caller and the service: a request is
refused for the one reason that speaks against it, or is put to the service, at most once and
without the caller's credentials; the caller is given what the service answers, the Host's
error, or a failure that claims neither; what it reads was sent, and a clean end says that
the service is done with the call. SecretEgress implements it with the reason the extension
or else the Host finds (`Reason`), the Host's answer as its word (`Word`) and the upstream
connection as the service's progress (`Service`); contexts, leases, the connection and
`copied` do not show.

**ResultStore** is the client's side of the store against a Host that either keeps to the
contract (`HostStores`, `HostReads`), refuses, or answers with something that differs from a
right answer in one respect (`HostStrays`). A byte string is a short sequence, its SHA-256
the string itself (equal digests, equal data). The reading loop is the one an extension
would write: ask for the next chunk at the length it has. `ReadOn` is its next step, fair in
the one property about progress. `Wrap` is the sum of two signed integers of `IntWidth`
bits.

**Manifest** starts from what YAML has filled in, and is `ParseManifest` (`normalize`),
`Validate` by its parts (`CapabilitiesOK`, `PermissionsOK`, `KindsOK`, `RoutesOK`,
`MenusOK`, `ConfigOK`), `Sanitized` and `CheckManifest`. A text is a word and whether blanks
surround it, because trimming is what the functions disagree about; a path is its segments;
`menuDepth` climbs the parents through `byKey`, where the first of two equal keys wins.
**Versions** is `SatisfiesRange` over texts that are sequences of components (negative where
`Atoi` fails), beside the order of versions and the meaning of a token in words.
**IdentityHeaders** encodes an identity into headers and reads it back, character by
character over the few characters the encodings tell apart, since the property is about the
encoding itself. **Embedding** is `Embed` with the checks before and after the call.

**Lifecycle** is the table of `lifecycle.go` in the hands of a Core: any allowed transition,
damage to what is stored, and restarts that read it through `NormalizeState`. The Core is
not in this repository; all that is assumed of it is what the comments ask: it moves only
where `CanTransition` allows.

**ContractCheck** is `testkit.CheckExtension`: `CheckManifest` and `CheckRoutes` at once,
then Start and Health in goroutines of their own with 5 and 2 seconds on a clock, Stop twice
in between. The extension returns when it likes, or never, fails or panics; both branches of
a `select` can be ready. A panic in Start's goroutine, or in Stop, ends the program that
checks (`crashed`).

**MCPackage** checks these six together; an initial state varies one of them and leaves the
others at a default.

An operator named `X_Y` with a comment `Fault:` is a deliberate mistake in `X`;
`PROJECT.json` lists for each property a fault that breaks it. In IdentityHeaders every
operation on a list is a `FlattenSeq`, including `strings.Split` (the cuts are 0, the commas
and the end) and `url.QueryUnescape` (what each character stands for, nothing for a percent
sign), so that one set of lemmas serves all of them.

## Runs

| Run | Configuration | What it shows |
|---|---|---|
| process | `MCExtProcess` | `RunContext` alone: Stop exactly once, Stop beside a handler, or a request admitted after Stop, only if the drain was forced or the listener failed, every run that is cancelled or whose listener fails ends, and `ExtensionContract` is implemented |
| launch | `MCProcessLaunch` | with the Host around it: after a failed Launch the child comes to its end (killed wherever it is, or, if the signal was refused, by the end of its stdin), a successful one had an answer from an extension that was started, announced and not stopped, Launch returns once its context is over, closing stdin ends the child with Stop called |
| leases | `MCRequestLease` | no call acts for a user but the one whose live request minted its token; calls in progress are cancelled with the request; `Delegation` is implemented |
| calls | `MCHostCall` | one call of any kind on a bad network: nothing is sent after cancellation or a final refusal, every call returns |
| call_order | `MCHostCallOrder` | concurrent reads and writes of the config keep the order of those that have succeeded, and implement `HostOperation` (effects at most once, success is real, reads are of their time) |
| capabilities | `MCCapabilities` | executed operations were granted and asked for, requirements are accounted for, what was reported as available is carried out and what was reported as missing or unsupported is not, through whatever service; a test host allows what an installed process can do, with three exceptions |
| egress | `MCSecretEgress` | `UpstreamCall` is implemented (whose answer it is, what the service hears); which code a refusal has, when contexts end, and that giving up at one end reaches the other |
| results | `MCResultStore` | with any Host, what the client accepts is consistent; with a good one, nothing proper is turned down and reading ends |
| package | `MCPackage` | accepted menus have two levels, an accepted Manifest stays in its name space, `Sanitized` hides every secret and nothing else; ranges are conjunctions; identities survive their headers; an embedding that is handed on answers its inputs; RUNNING was verified; the contract check is honest, stops what started and nothing else, and returns |
| write_only_config, egress_truncated, result_overflow | `MCHostCallWriteOnly`, `MCSecretEgressWhole`, `MCResultStoreOverflow` | each violates one property; see [Findings](#findings) |

Bounds, and why they are enough:

- **Two connections** (process, launch): one whose handler never returns and one that comes
  and goes beside it; in `launch`, one for the health check and another user. Connections
  influence each other only through "all of them are idle".
- **Three invocations, two users, one call** (leases): a request of each user and one
  without an identity. Calls only read the leases and do not see each other, so a second
  call adds interleavings and no behaviour; the one call may carry any token, a forged one
  included, and either name.
- **One call, three attempts** (calls): calls share nothing but the Host's value, and three
  is `maxGetAttempts` in the code, so that "first", "middle" and "last" attempt exist. The
  refusals are a final one, one that is temporary by its status, and one that is temporary
  by its code. **Three calls, two attempts** (call_order): an order can be broken by a
  reader and two writers; the calls are interchangeable, which makes symmetry sound there:
  the one temporal property, the refinement, is a step property that treats them alike, and
  the abstract specification has no fairness. Every process has a snapshot there (a snapshot
  only changes what a failed `Get` returns) and the Host refuses nothing (`Answers` is
  empty: a refusal is one more way to have no effect). Both halves of the config are granted
  there (`Grants`): with the read half alone nothing is written, with the write half alone
  no read succeeds.
- **Five capabilities** (capabilities): both pairs whose halves share a service and are
  treated differently (config has a legacy field, mcp has none), and `secret.ref`, which has
  no client. The rest of the fifteen behave like one of these.
- **Eight options** (capabilities, TestHost): one for a service of its own, the two of the
  config, the pairs of MCP and of results, and the one without a client. The options commute
  but for the two of the config.
- **Two chunks** (egress): a body can be begun, half read and complete. Requests and Hosts
  are wrong in at most one respect, since the code reports the first fault it meets; the
  Host without the grant and the one that is down show that the local checks come first.
- **Results of two bytes, chunks of up to three, claims of up to four** (results): a result
  fits in one chunk or needs two, and a lying Host can say less, more, and too much.
  `IntWidth = 4`: the sums of honest requests stay below 2^3; only `result_overflow` asks at
  the largest offset.
- **package**: the functions are pure, so every input is an initial state. Manifests differ
  from one with everything in it in one part: two menus of any kind, three with any parents,
  chains and cycles of five (`menuDepth` looks two levels beyond its limit), two permissions
  or capabilities, one route or field of any kind beside a good one. Versions of up to four
  components against two tokens of eight operators: enough for a token behind the one that
  decides, and for a missing, an extra and a malformed component. Texts of up to three
  characters: each character beside each, and an escape with its digits. Two embedding
  inputs: a pair can be swapped, repeated and cut. Lifecycle and ContractCheck are finite as
  they are.

The runs switch the deadlock check off where the modelled activity ends: a process that has
returned, a launch that has stopped its child, calls that have all been answered.
Capabilities, SecretEgress (which ends in an explicit `Settled`), ResultStore and MCPackage
are checked for deadlock.

## Fairness

- **ExtProcess**: weak fairness of `Main`, `ServeBegins` and `ServeClosed`: Go runs a
  goroutine that can run, the deadline of the drain passes, and the extension's Start,
  Routes and Stop return (the code has no defence against one that does not). Nothing is
  assumed of handlers, connections, the listener's failure or cancellation.
- **ProcessLaunch**: the same while the child is alive, except that Start may hang, and of
  `Launch`, the Host's own goroutine, `WatchStdin`, the child's goroutine that reads its
  stdin, `Dies`, the kernel's delivery of a SIGKILL it has accepted, and the exit of a
  returned process. That a signal is accepted is not assumed: `FailedLaunchEndsChild` says
  what remains when it is refused. The child need not answer `/health`; a deadline need not
  exist (`LaunchReturns` starts from one that has passed).
- **RequestLease**: `InvokeReturns` and `AfterFunc`, goroutines of the Host that can run. A
  handler need not return, a caller need not give up.
- **HostCall**: `Client(k)`: the extension's goroutines run and its timers fire (a client
  limits every attempt; a call without one gets the default deadline). Nothing of the
  network or the Host.
- **SecretEgress**: `Client`, `Handler`, `HostNotices` (a server sees that its connection is
  gone) and `LeaseFires` (an `AfterFunc` runs). Nothing of the upstream or the reader. That
  deadlines pass is a premise of `DeadlinesEndCalls` alone.
- **ResultStore**: weak fairness of `Refuses` (every call has a deadline and ends, if only
  with an error); strong fairness of `ReadOn` (a loop that reads on is not kept from it for
  ever by other calls of the same extension) and of `Extends(asked) /\ HostReads` (of the
  attempts at a chunk, some one is answered). The last is a premise about the network that
  no code can guarantee; without it nothing is ever read. All of it is used by `ReadingEnds`
  alone, whose other premises (a Host that keeps to the contract, a live request) it states
  itself.
- **ContractCheck**: weak fairness of the checker, of time, and of Stop's return:
  `CheckLifecycle` calls Stop in place, so one that never returns hangs the check. Nothing
  of Start and Health.
- **HostOperation**, **ExtensionContract**, **Delegation**, **UpstreamCall**,
  **Capabilities**, **TestHost** and the other modules of `package`: safety only, no
  fairness.

## Proofs

Eight modules prove, for every value of the constants, what the runs check on small ones.
Each has one inductive invariant (`IInv` in most), shown to hold initially and to be
preserved by each action, and derives the properties from it.

**ExtProcess_proofs** (any set of connections). `StopExactlyOnce` is not inductive: that
Stop has been called by the time of `returned` depends on which labels can be reached with
`started` and without `stopDone`. `IInv` is `TypeOK` with `StopInv` (the flag counts the
calls; which labels are before, between and after Start and Stop), `ServerInv` (where the
listener and the Serve goroutine can be at each label), `ResultInv` (what each label says of
stdout and the result), `ShutdownInv` (how a drain has ended) and `ConnInv` (a handler's
connection is active unless the drain was forced). From `serveErr` on, a label after the
`select` means that the server was shut down or is off, so that Stop meets no connection but
that of a failed listener (`StopMeetsNoConnection`). From it: `TypeOK`, `StopExactlyOnce`,
`NothingServedBeforeStart`, `ReadyIsReachable`, `StopAfterDrain`, `NilMeansOrderly`, the
action properties `NoRequestAfterStop` and `IncompatibleIsFinal`, and
`ImplementsItsContract`: initial states map to initial states, and every step to a step of
`ExtensionContract` or a stutter.

**ProcessLaunch_proofs** (any set of connections). `ChildSteps`: whatever Host and child do
together is, for the child, a step of ExtProcess or none, so its invariant holds of the
child without being proved again, and with it the contract and `StopExactlyOnce`
(`ChildKeepsContract`). `HostInv` says of the Host that it polls and succeeds only after
READY, and that an answer is under way only while it asks; that READY stays on stdout
(`ReadyStays`) needs the child's invariant. `AnswersAreAlive` then needs the invariant of
ExtProcess again: an answer is given on an open connection, and Stop meets none unless the
listener had failed. Proved: `HostTypeOK`, `UpMeansAnswered`.

**RequestLease_proofs** (any invocations, calls, users). `RightPrincipal` needs to know
that a call that was `found` carries a token that was minted and has no principal yet
(`CallInv`), and `TokenDiesWithRequest` that the lease of a late call is gone, so that the
look-up cannot find it (`LeaseInv`, `LateInv`). Proved: `TypeOK`, `RightPrincipal`,
`ScopedHasPrincipal`, `TokenDiesWithRequest`, `NoLeaseLeft`, and the action property
`AdmittedWhileLive`. `ImplementsDelegation` needs more of `LeaseInv`: that the extension
knows of no request before it was let in, so that a call with its token belongs to
something (`MakeRefines`), and that a request has no context before it is open.
`HostStepRefines` takes the steps of `Invoke`, `ServiceStepRefines` those of a call at the
Host: `LookUp` and the calls the Host refuses are a denial or a stutter, `Admit` is
`ActFor`, `ActForNobody` or a denial. They use the constants' two assumptions (`UserOf` is
a function to users or `NoUser`; the special values are distinct).

**HostCall_proofs** (any calls, attempts and refusals). `EffectAtMostOnce` is not inductive:
a request may be on its way when the call is over. `EffectInv` says that a call with an
effect has one attempt at most, and that while its request is in transit it has not been
executed; `IdleInv` that a call that has not begun has left no trace; `GoodInv` that a good
answer on its way, and a success reported, were preceded by an execution; `ShownInv` and
`FinalInv` that a good answer to a reading call has shown a value, and that a final refusal
has ended its call. Proved: `TypeOK`,
`EffectAtMostOnce`, `OkMeansExecuted`, the action property `NothingSentInVain`, and
`ImplementsCall`: every step maps to a step of HostOperation or a stutter. For the two
orders the invariant adds that the calls that had succeeded when a call began are over
(`BeforeInv`), and that a write that was executed, and every value shown to a read that
began after it had succeeded, has replaced the initial value and all that the write had
found settled (`OrderInv`, `ReadInv`): `SettledWritesKeepOrder` and `ReadsSeeSettledWrites`.

**SecretEgress_proofs** (responses of any length, any requests and Hosts). That a response
is the upstream's needs `AnswerInv` (the handler answers once), `ConnInv` (nothing reaches
the Host that has not left, and nothing leaves that the local checks refuse), and
`FailureInv` (a call that failed with a code never left, or had an answer that is not the
upstream's): an answer that comes after its caller has given up would otherwise contradict
the code the caller was told. `PipeInv` ties the handler to the upstream it holds and orders
`read`, `copied` and `produced`. With it every step is one of UpstreamCall or a stutter:
`ClientRefines` (a refusal is learned under the code the Host used), `ReaderRefines` (what
is read was sent, and a clean end comes after the upstream was let go), `HostRefines` (the
service is called only if nothing speaks against the request, with the clean headers).
`CodeSurvives` is the lemma on the two tables of `HostErrors`: the five codes the Host
refuses with have statuses of their own. Proved: `TypeOK`, `ContextFollowsBody`,
`ResponseIsUpstreams`, `RefusalKeepsItsCode`, `UpstreamSeesOnlyTheBinding`,
`ImplementsUpstreamCall`. They use all three assumptions on the constants.

**Capabilities_proofs** (any set of capabilities considered). The invariant says what is
known at each stage: the four lists of the environment are functions of Manifest and grant
(`Negotiated`), services and fields functions of the first of them (`Provided`), and an
executed operation has passed the lookup and both checks (`Checked`); and the variable of a
Core that sets it names what its Host API allows (`Told`), without which a report could not
foretell an outcome. Proved: `TypeOK`, `OnlyGrantedIsExecuted`, `EveryRequirementAccounted`,
`ReportsMatchOutcomes`. For TestHost the invariant is only that its services are those of
the fakes recorded so far (`TestInv`); `TestHostAgrees` then compares two functions of the
fakes, capability by capability: what `buildResolver` executes (`Resolved`), and what a
process does whose Manifest and grant are the same capabilities (`Granted`,
`ExecutedInProcess`, `FoundInProcess`).

**ResultStore_proofs** (any limits, contents and Hosts). The invariant bounds what is stored
(`StoreInv`) and what is asked for (`AskedInv`), ties each receipt to the data it was given
for (`KnownInv`), and says of a reading loop (`ReaderInv`) that it has at most the store's
limit, nothing before its first chunk, and when complete the length, and after a single
chunk the digest, it was told. Proved: `CompleteIsConsistent`, `DigestPinsContents`,
`HonestIsAccepted`. The assumption that `MaxResultBytes + MaxResultReadBytes` is an integer
the machine can hold keeps the sums of honest requests from wrapping.

**Package_proofs**. None of these modules has much of a state; what is to be proved is about
the functions, for inputs of any size.

- Lifecycle: what is stored is the state or unreadable, and only a state on the move or
  serving can be left for a serving one (`RestIsNotLeftForService`).
- ContractCheck: which calls can be under way at each place, and that each that went wrong
  has left its issue.
- Versions: `SatisfiesRange` stops at the first token that does not say yes; `LeastOf` (the
  numbers are well-founded) gives that one, `CompareIsLexicographic` that the first
  component that differs decides the order, `TokenSaysMeets` that a token says yes exactly
  if it is met.
- Manifest: `normalize` leaves no blank around the texts that are compared later
  (`ParsedIsNormal`), which is what the three properties rest on. A path under a prefix is
  the prefix and a rest (`UnderPrefix`, `UnderShortPrefix`), so an accepted permission,
  path or menu is the extension's own (`NamespaceKept`). Masking a field leaves it secret
  and hides its options and its default (`MaskedField`), and turns none that was accepted
  into one that is not (`ShownConfigOK`, `ShownIsValid`). `menuDepth` is within its limit
  exactly if a menu is at the top or below one that is (`DepthIsTwoLevels`); that the table
  of parents holds the first menu of each key (`ParentIsByKey`) makes this the property's
  grouping (`DepthIsGrouping`).
- Embedding: the sum of the squares is 0 only for zeros (`ZerosSumToZero`, an induction over
  the components the fold has taken), and as many distinct indices as inputs, each within
  range, are all of them.
- IdentityHeaders: see below.

The library's induction theorems have a predicate as a parameter, which the provers cannot
instantiate. `Induction` and `GrowingSequences` state them for a set instead, and follow
from the well-foundedness of the numbers. `FlattenIs` says by induction what `FlattenSeq`
computes (its definition is a recursive function behind a `CHOOSE`), and `FlattenAppend`
what one sequence more adds. Then, along the end of a text that grows: encoding adds the
spelling of one character (`EncodeGrows`), on which decoding is exact (`DecodesSpelling`),
hence `DecodesWhatItEncodes`; encoded text has neither blank nor comma (`Lines`), so
transport loses nothing of it (`LinesTravel`) and cutting at the commas gives back the
pieces (`SplitAppend`, `SplitsWhatItJoins`); `ListsSurvive` puts these together for a list.
The assumptions on the escaping are what `net/url` does: different characters have
different digits, and digits are never a character that is itself escaped.

Proved: `RunningWasVerified`, `ReportIsHonest`, `StopsWhatStarted`, `RangeIsConjunction`,
`StaysInNamespace`, `SanitizedHidesSecrets`, `MenusStayShallow`, `EmbeddingsAnswerInputs`,
`IdentitySurvivesHeaders`. The inputs are assumed to be of the type of what the code is
handed, and no more (`ManifestsAssumption`, `ExchangesAssumption`, `IdentitiesAssumption`).

`NothingServedBeforeStart`, `ReadyIsReachable`, `NilMeansOrderly`, `IncompatibleIsFinal`,
`RightPrincipal`, `ScopedHasPrincipal`, `NoLeaseLeft`, `AdmittedWhileLive`,
`EffectAtMostOnce`, `OkMeansExecuted`, `ResponseIsUpstreams`, `UpstreamSeesOnlyTheBinding`
and the type invariants are proved and listed in no run. Most of them are part of what the
runs check as a refinement (`ImplementsContract`, `ImplementsDelegation`, `ImplementsCall`,
`ImplementsUpstreamCall`).

Only model-checked: liveness (`RunEnds`, `FailedLaunchEndsChild`, `LaunchReturns`,
`StdinStopsExtension`, `RevocationReachesCalls`, `EveryCallReturns`, `DeadlinesEndCalls`,
`GivingUpReachesUpstream`, `ReadingEnds`, `CheckReturns`), because fairness and ENABLED are
beyond the prover. Every other property of a passing run is also proved.

## Findings

- **write_only_config**. `configService.Get` answers any error with the start-up snapshot,
  so an extension that has `config.write` alone reads the config although the Core refuses
  with 403; the comment at `extserver/hostclient.go:690` counts on the 403.
- **egress_truncated**. `CopyEgressResponse` treats an upstream body that breaks off as one
  that has ended, and the extension reads a clean end of file; `secret_use.go:37` says that
  the response is streamed as it is.
- **result_overflow**. `ReadResult` adds an offset and a length without regard to overflow,
  and accepts a chunk beyond the result.

Smaller observations have no run of their own.

- `RequireConfig` succeeds for an extension with `config.write` alone, through the Config
  field; `host.go:111` says it is an error without `config.read`. The Host denies what is
  then asked (`ReportsMatchOutcomes`).
- A failed Launch returns before its child is gone and leaves it unwaited
  (`testkit/processhost.go:177-180`): its entry stays in the process table until the test
  ends.
- A call refused with HOST_UNAVAILABLE is retried (`extserver/hostclient.go:404-405`);
  `errors.go:53` and `:245` call TEMPORARY_FAILURE the only code worth it. HostCall follows
  the code.
- A 2xx answer that cannot be decoded is retried like a network failure, which
  `extserver/hostclient.go:395` does not mention.
- What the Core grants beyond the Manifest is not entirely unused (`extserver/env.go:280`):
  the other half of a declared pair is executed, because both halves are one service
  (`OnlyGrantedIsExecuted` states the exception).
- `CheckRoutes` collects the declared routes (`testkit/contract.go:81-85`) and compares
  nothing with them, although its comment (`:74-77`) says that it checks Routes() against
  the Manifest.
- `CheckLifecycle` compares the id, the version and the numbers of capabilities of two
  Manifests; the comment (`:115`) speaks of permissions and routes.
- A panic in Health is recovered into an answer without a time, so it is also reported as
  undated (`:168`, `:178`).
- A user whose id begins or ends with a blank cannot be named in a call back:
  `HeaderOnBehalfOf` is not encoded (`extserver/identity.go:45-48`) and HTTP trims it.
- `lifecycle.go:103-106` says a contract mismatch is resolved by an update only; the table
  lets INCOMPATIBLE go to INSTALLED, DISABLED or FAILED and from there to STARTING.
- `Validate` on a Manifest built in Go, which `normalize` has not seen, compares padded
  texts as they are: a padded parent passes as a group of the Core, a permission with a
  blank before `ext.` is not recognised as one, padded duplicates of a permission pass. The
  properties speak of parsed Manifests.
- `testkit/host.go:52-54` says that the test host reproduces the least privilege of the real
  Core. In three places it is more generous, the exceptions of `TestHostAgrees`. Under
  `config.write` it puts the whole `*FakeConfig` (`:88-92`), which has `Get`; an installed
  process finds a `configWriter` without it (`extserver/hostclient.go:555`, `:697`), so that
  `RequireService[ConfigReadService]` on that capability works in a test and is answered
  CAPABILITY_UNAVAILABLE once installed. With `WithMCPCall` alone a test lists the tools,
  which the Host denies (`testkit/processhost.go:454-456`). `secret.ref` works in tests
  only.
- Of two different fakes given to `WithResultWrite` and `WithResultRead` the later serves
  both.

## What is not modelled

- What handlers, Kafka, clusters and workflows compute; JSON; formatting and logs.
- Syntax: YAML, ids, URLs, MIME types, JSON pointers, actions of permissions are verdicts
  (valid or not) at the place where the code checks them.
- What a GET leaves in its output when it decodes part of an answer, fails and is retried
  (`extserver/hostclient.go:278`): it depends on the Go types of the answers, which HostCall
  abstracts.
- A result stored by a put whose receipt was lost (`extserver/semantic_services.go:62`): the
  behaviour is in the model, but the code promises nothing about it.
- That `Do` closes the request's body on every path (`extserver/host_extensions.go:175`): it
  is read and closed first, in straight-line code.
- `..` in a path is a segment like any other, for the code as for Manifest: what a router
  makes of it is not `Validate`'s concern. Control characters in the one header that is not
  encoded, `HeaderOnBehalfOf`, are not among the characters of IdentityHeaders.
- What a handler does on a connection of a failed listener after Stop: nothing forbids it.
- Install phases: two predicates on a type that nothing in this repository moves.
- The limits of 10 MiB on answers and on stored config values; the tolerance of 1e-3 in the
  norm of an embedding.
- The fakes' recorders, the logger, the examples, the release scripts.
- `src/frontend/v1/bridge.ts`: types, constants and one comparison. The bridge between page
  and iframe is not in this repository.

## Plan

The order follows what could go wrong: first the process and its Host, then identity, then
calls, then data, then what a package declares.

1. Done: all modules of the list above, their runs, and proofs of every safety property the
   runs check, of the four refinements (ExtensionContract, HostOperation, Delegation,
   UpstreamCall) and of TestHost's agreement with the process.
2. Not worth a module: an abstract store that ResultStore implements. With a Host that keeps
   to the contract the client only passes on what it is given (`HonestIsAccepted` says that
   it turns nothing down); with any other, the promise is what `CompleteIsConsistent` and
   `DigestPinsContents` say.
3. Open: one contract of a whole request that spans the modules (a route of the Manifest,
   its capability, the user's lease, the call and its effect), and proofs that compose them.
