-------------------------- MODULE ExtProcess_proofs --------------------------
(***************************************************************************)
(* Theorems about ExtProcess, for any set of connections: the type         *)
(* invariant, the safety invariants, the action properties, and the fact   *)
(* that RunContext implements ExtensionContract.  All of them follow from  *)
(* one inductive invariant, IInv, in five parts.                           *)
(***************************************************************************)
EXTENDS ExtProcess, TLAPS

Early   == {"manifest", "env", "start", "starting"}
Middle  == {"mount", "listen", "loopback", "spawn", "handshake", "select",
            "shutdown", "drain", "join", "stop"}
Settled == {"join", "stop", "stopping", "unwind", "returned"}

\* The stopOnce flag counts the calls of Stop, and follows Start.
StopInv ==
  /\ stopCalls = (IF stopDone THEN 1 ELSE 0)
  /\ stopDone => started
  /\ pc \in Early => ~started
  /\ pc \in Middle => started /\ ~stopDone
  /\ pc = "stopping" => stopDone
  /\ pc = "returned" => (started => stopDone)

\* Where the listener and the Serve goroutine can be at each label.
ServerInv ==
  /\ listener # "none" => started
  /\ pc \in {"mount", "listen"} => listener = "none"
  /\ pc \in {"loopback", "spawn"} => listener = "open"
  /\ pc \in Early \cup {"mount", "listen", "loopback", "spawn"} => serve = "off"
  /\ pc \in {"handshake", "select", "shutdown", "drain", "join"} => serve # "off"
  /\ serve = "spawned" => listener = "open"
  /\ serve = "serving" /\ ~inShutdown => listener = "open"
  /\ serve # "off" => listener # "none"
  /\ serveErr # "empty" => serve = "returned"
  /\ pc \in {"stop", "stopping", "unwind", "returned"}
       => inShutdown \/ serve \in {"off", "returned"}

\* What is on stdout, and what it takes for a run to return nil.
ResultInv ==
  /\ pc \in (Early \cup Middle) \ {"shutdown", "drain"} => result = "none"
  /\ pc \in {"shutdown", "drain"} => result \in {"none", "error"}
  /\ pc = "unwind" => result # "none"
  /\ pc \in Early \cup {"mount", "listen", "loopback", "spawn", "handshake"}
       => stdout = "empty"
  /\ stdout = "READY" => serve # "off" /\ started
  /\ stdout = "INCOMPATIBLE" => pc = "returned" /\ ~started
  /\ pc = "select" => stdout = "READY"
  /\ pc \in {"shutdown", "drain", "join", "stop", "stopping"} /\ result = "none"
       => stdout = "READY"
  /\ pc = "stopping" /\ result = "none" => inShutdown
  /\ result = "nil" => stdout = "READY" /\ inShutdown /\ stopDone
  /\ pc = "returned" /\ result = "nil" => runCtx = "done"
  /\ pc = "returned" => result # "none"

\* When the server is shutting down, and that the shutdown has ended by Stop.
ShutdownInv ==
  /\ inShutdown => pc \in {"drain"} \cup Settled
  /\ pc \in {"drain", "join", "stop"} => inShutdown
  /\ inShutdown /\ pc \in Settled => drain # "none"
  /\ pc = "drain" => drain = "none"
  /\ drain # "none" => inShutdown /\ serve # "serving" /\ Tracked = {}

\* Handlers run on connections, and connections need a listener that is served.
ConnInv ==
  /\ serve \in {"off", "spawned"} => Tracked = {}
  /\ \A c \in Conn : conn[c] # "none" => listener # "none"
  /\ \A c \in handling : conn[c] \in {"active", "closed"}
  /\ drain # "forced" => \A c \in handling : conn[c] = "active"

IInv == TypeOK /\ StopInv /\ ServerInv /\ ResultInv /\ ShutdownInv /\ ConnInv

-----------------------------------------------------------------------------
(***************************************************************************)
(* Each part is preserved by every step; the hypotheses of a lemma say     *)
(* which other parts it leans on.                                          *)
(***************************************************************************)

(* The type invariant is inductive by itself.                               *)
LEMMA TypeStep == TypeOK /\ [Next]_vars => TypeOK'
<1> SUFFICES ASSUME TypeOK, [Next]_vars PROVE TypeOK'
  OBVIOUS
<1> USE DEF TypeOK, Labels, vars, mainVars, extVars, srvVars, netVars
<1>1. CASE CheckManifest \/ CallStart \/ SelectDone \/ StopReturns
  BY <1>1 DEF CheckManifest, Goto, Quit, CallStart, SelectDone, StopReturns
<1>2. CASE MountRoutes
  BY <1>2 DEF MountRoutes, Goto, Bail
<1>3. CASE LoadEnvironment \/ StartReturns \/ WriteHandshake \/ Cancel
           \/ PingEnds
  BY <1>3 DEF LoadEnvironment, Goto, Quit, StartReturns, Bail, WriteHandshake,
      Cancel, PingEnds
<1>4. CASE Listen \/ CheckLoopback \/ SpawnServe \/ SelectServeErr
           \/ JoinServe
  BY <1>4 DEF Listen, Goto, Bail, CheckLoopback, Unaccepted, SpawnServe,
      SelectServeErr, JoinServe
<1>5. CASE ShutdownBegins \/ ShutdownDrained
  BY <1>5 DEF ShutdownBegins, Goto, Unaccepted, ShutdownDrained, AfterShutdown
<1>6. CASE ShutdownTimeout
  BY <1>6 DEF ShutdownTimeout, Goto, AfterShutdown, Tracked
<1>7. CASE CallStop \/ DeferredStop
  <2>1. stopCalls' \in Nat
    BY <1>7 DEF CallStop, EnterStop, DeferredStop
  <2>2. /\ pc' = "stopping" /\ stopDone' = TRUE
        /\ UNCHANGED <<result, runCtx, stdout, started, srvVars, netVars, ping>>
    BY <1>7 DEF CallStop, Goto, EnterStop, DeferredStop
  <2> QED
    BY <2>1, <2>2
<1>8. CASE Return
  BY <1>8 DEF Return, Goto
<1>9. CASE ServeBegins \/ AcceptFails \/ ServeClosed
  BY <1>9 DEF ServeBegins, Unaccepted, AcceptFails, ServeClosed
<1>10. ASSUME NEW c \in Conn,
              Dial(c) \/ Accept(c) \/ BeginRequest(c) \/ EndRequest(c)
           \/ PeerCloses(c) \/ ReapIdle(c)
      PROVE TypeOK'
  <2>1. CASE Dial(c)
    BY <2>1 DEF Dial, SetConn, netOnly
  <2>2. CASE Accept(c)
    BY <2>2 DEF Accept, SetConn, netOnly
  <2>3. CASE BeginRequest(c)
    BY <2>3 DEF BeginRequest, SetConn, netOnly
  <2>4. CASE EndRequest(c)
    BY <2>4 DEF EndRequest, SetConn, netOnly
  <2>5. CASE PeerCloses(c)
    BY <2>5 DEF PeerCloses, SetConn, netOnly
  <2>6. CASE ReapIdle(c)
    BY <2>6 DEF ReapIdle, SetConn, netOnly
  <2> QED
    BY <1>10, <2>1, <2>2, <2>3, <2>4, <2>5, <2>6
<1>11. CASE UNCHANGED vars
  BY <1>11
<1>12. QED
  BY <1>1, <1>2, <1>3, <1>4, <1>5, <1>6, <1>7, <1>8, <1>9, <1>10, <1>11
     DEF Next, Main, Serve, Network

(* So is the account of the calls of Stop.                                  *)
LEMMA StopStep == TypeOK /\ StopInv /\ [Next]_vars => StopInv'
<1> SUFFICES ASSUME TypeOK, StopInv, [Next]_vars PROVE StopInv'
  OBVIOUS
<1> USE DEF TypeOK, Labels, StopInv, Early, Middle, vars, mainVars, extVars,
    srvVars, netVars
<1>1. CASE CheckManifest \/ LoadEnvironment \/ CallStart \/ StartReturns
  BY <1>1 DEF CheckManifest, Goto, Quit, LoadEnvironment, CallStart,
      StartReturns, Bail
<1>2. CASE MountRoutes \/ Listen \/ CheckLoopback \/ SpawnServe
           \/ WriteHandshake
  BY <1>2 DEF MountRoutes, Goto, Bail, Listen, CheckLoopback, Unaccepted,
      SpawnServe, WriteHandshake
<1>3. CASE SelectServeErr \/ SelectDone \/ ShutdownBegins \/ ShutdownDrained
           \/ ShutdownTimeout \/ JoinServe
  BY <1>3 DEF SelectServeErr, Bail, SelectDone, Goto, ShutdownBegins,
      Unaccepted, ShutdownDrained, AfterShutdown, ShutdownTimeout, Tracked,
      JoinServe
<1>4. CASE CallStop
  BY <1>4 DEF CallStop, Goto, EnterStop
<1>5. CASE StopReturns \/ DeferredStop \/ Return
  BY <1>5 DEF StopReturns, DeferredStop, Goto, EnterStop, Return
<1>6. CASE Cancel \/ PingEnds \/ ServeBegins \/ AcceptFails \/ ServeClosed
  BY <1>6 DEF Cancel, PingEnds, ServeBegins, Unaccepted, AcceptFails,
      ServeClosed
<1>7. CASE Network
  BY <1>7 DEF Network, Dial, Accept, BeginRequest, EndRequest, PeerCloses,
      ReapIdle, SetConn, netOnly
<1>8. CASE UNCHANGED vars
  BY <1>8
<1>9. QED
  BY <1>1, <1>2, <1>3, <1>4, <1>5, <1>6, <1>7, <1>8
     DEF Next, Main, Serve

(* The listener opens only after Start, which StopInv locates; the places   *)
(* where the server is shutting down are those of ShutdownInv.              *)
LEMMA ServerStep ==
  TypeOK /\ StopInv /\ ShutdownInv /\ ServerInv /\ [Next]_vars => ServerInv'
<1> SUFFICES ASSUME TypeOK, StopInv, ShutdownInv, ServerInv, [Next]_vars PROVE ServerInv'
  OBVIOUS
<1> USE DEF TypeOK, Labels, StopInv, ShutdownInv, ServerInv, Early, Middle, vars, mainVars,
    extVars, srvVars, netVars
<1>1. CASE CheckManifest \/ LoadEnvironment \/ CallStart \/ StartReturns
           \/ MountRoutes
  BY <1>1 DEF CheckManifest, Goto, Quit, LoadEnvironment, CallStart,
      StartReturns, Bail, MountRoutes
<1>2. CASE Listen \/ CheckLoopback \/ SpawnServe \/ WriteHandshake
  BY <1>2 DEF Listen, Goto, Bail, CheckLoopback, Unaccepted, SpawnServe,
      WriteHandshake
<1>3. CASE SelectServeErr \/ SelectDone \/ JoinServe \/ CallStop
           \/ StopReturns \/ DeferredStop \/ Return
  BY <1>3 DEF SelectServeErr, Bail, SelectDone, Goto, JoinServe, CallStop,
      EnterStop, StopReturns, DeferredStop, Return
<1>4. CASE ShutdownBegins \/ ShutdownDrained \/ ShutdownTimeout
  BY <1>4 DEF ShutdownBegins, Goto, Unaccepted, ShutdownDrained,
      AfterShutdown, ShutdownTimeout, Tracked
<1>5. CASE ServeBegins
  BY <1>5 DEF ServeBegins, Unaccepted
<1>6. CASE AcceptFails \/ ServeClosed \/ Cancel \/ PingEnds
  BY <1>6 DEF AcceptFails, Unaccepted, ServeClosed, Cancel, PingEnds
<1>7. CASE Network
  BY <1>7 DEF Network, Dial, Accept, BeginRequest, EndRequest, PeerCloses,
      ReapIdle, SetConn, netOnly
<1>8. CASE UNCHANGED vars
  BY <1>8
<1>9. QED
  BY <1>1, <1>2, <1>3, <1>4, <1>5, <1>6, <1>7, <1>8
     DEF Next, Main, Serve

(* Once the shutdown has ended the server tracks no connection, and no     *)
(* Serve is left to accept one.                                             *)
LEMMA ShutdownStep == TypeOK /\ ShutdownInv /\ [Next]_vars => ShutdownInv'
<1> SUFFICES ASSUME TypeOK, ShutdownInv, [Next]_vars PROVE ShutdownInv'
  OBVIOUS
<1> USE DEF TypeOK, Labels, ShutdownInv, Settled, Tracked, vars, mainVars,
    extVars, srvVars, netVars
<1>1. CASE CheckManifest \/ LoadEnvironment \/ CallStart \/ StartReturns
           \/ MountRoutes
  BY <1>1 DEF CheckManifest, Goto, Quit, LoadEnvironment, CallStart,
      StartReturns, Bail, MountRoutes
<1>2. CASE Listen \/ CheckLoopback \/ SpawnServe \/ WriteHandshake
           \/ SelectServeErr \/ SelectDone
  BY <1>2 DEF Listen, Goto, Bail, CheckLoopback, Unaccepted, SpawnServe,
      WriteHandshake, SelectServeErr, SelectDone
<1>3. CASE ShutdownBegins \/ ShutdownDrained
  BY <1>3 DEF ShutdownBegins, Goto, Unaccepted, ShutdownDrained, AfterShutdown
<1>4. CASE ShutdownTimeout
  BY <1>4 DEF ShutdownTimeout, Goto, AfterShutdown
<1>5. CASE JoinServe \/ CallStop \/ StopReturns \/ DeferredStop \/ Return
  BY <1>5 DEF JoinServe, Goto, CallStop, EnterStop, StopReturns, DeferredStop,
      Return
<1>6. CASE ServeBegins \/ AcceptFails \/ ServeClosed \/ Cancel \/ PingEnds
  BY <1>6 DEF ServeBegins, Unaccepted, AcceptFails, ServeClosed, Cancel,
      PingEnds
<1>7. ASSUME NEW c \in Conn,
             Dial(c) \/ Accept(c) \/ BeginRequest(c) \/ EndRequest(c)
          \/ PeerCloses(c) \/ ReapIdle(c)
      PROVE ShutdownInv'
  <2>1. CASE Dial(c)
    BY <2>1 DEF Dial, SetConn, netOnly
  <2>2. CASE Accept(c)
    BY <2>2 DEF Accept, SetConn, netOnly
  <2>3. CASE BeginRequest(c)
    BY <2>3 DEF BeginRequest, SetConn, netOnly
  <2>4. CASE EndRequest(c)
    BY <2>4 DEF EndRequest, SetConn, netOnly
  <2>5. CASE PeerCloses(c)
    BY <2>5 DEF PeerCloses, SetConn, netOnly
  <2>6. CASE ReapIdle(c)
    BY <2>6 DEF ReapIdle, SetConn, netOnly
  <2> QED
    BY <1>7, <2>1, <2>2, <2>3, <2>4, <2>5, <2>6
<1>8. CASE UNCHANGED vars
  BY <1>8
<1>9. QED
  BY <1>1, <1>2, <1>3, <1>4, <1>5, <1>6, <1>7, <1>8
     DEF Next, Main, Serve, Network

(* nil is returned only on the path through READY, shutdown and Stop.       *)
LEMMA ResultStep == TypeOK /\ StopInv /\ ServerInv /\ ShutdownInv /\ ResultInv /\ [Next]_vars => ResultInv'
<1> SUFFICES ASSUME TypeOK, StopInv, ServerInv, ShutdownInv, ResultInv, [Next]_vars PROVE ResultInv'
  OBVIOUS
<1> USE DEF TypeOK, Labels, StopInv, ServerInv, ShutdownInv, ResultInv, Early,
    Middle, Settled, vars, mainVars, extVars, srvVars, netVars
<1>1. CASE CheckManifest \/ LoadEnvironment \/ CallStart \/ StartReturns
  BY <1>1 DEF CheckManifest, Goto, Quit, LoadEnvironment, CallStart,
      StartReturns, Bail
<1>2. CASE MountRoutes \/ Listen \/ CheckLoopback \/ SpawnServe
  BY <1>2 DEF MountRoutes, Goto, Bail, Listen, CheckLoopback, Unaccepted,
      SpawnServe
<1>3. CASE WriteHandshake \/ SelectServeErr \/ SelectDone
  BY <1>3 DEF WriteHandshake, Goto, SelectServeErr, Bail, SelectDone
<1>4. CASE ShutdownBegins \/ ShutdownDrained \/ ShutdownTimeout \/ JoinServe
  BY <1>4 DEF ShutdownBegins, Goto, Unaccepted, ShutdownDrained,
      AfterShutdown, ShutdownTimeout, Tracked, JoinServe
<1>5. CASE CallStop
  BY <1>5 DEF CallStop, Goto, EnterStop
<1>6. CASE StopReturns \/ DeferredStop \/ Return
  BY <1>6 DEF StopReturns, DeferredStop, Goto, EnterStop, Return
<1>7. CASE ServeBegins \/ AcceptFails \/ ServeClosed \/ Cancel \/ PingEnds
  BY <1>7 DEF ServeBegins, Unaccepted, AcceptFails, ServeClosed, Cancel,
      PingEnds
<1>8. CASE Network
  BY <1>8 DEF Network, Dial, Accept, BeginRequest, EndRequest, PeerCloses,
      ReapIdle, SetConn, netOnly
<1>9. CASE UNCHANGED vars
  BY <1>9
<1>10. QED
  BY <1>1, <1>2, <1>3, <1>4, <1>5, <1>6, <1>7, <1>8, <1>9
     DEF Next, Main, Serve

(* A handler's connection is active until Close abandons it.                *)
LEMMA ConnStep == TypeOK /\ ServerInv /\ ShutdownInv /\ ConnInv /\ [Next]_vars => ConnInv'
<1> SUFFICES ASSUME TypeOK, ServerInv, ShutdownInv, ConnInv, [Next]_vars PROVE ConnInv'
  OBVIOUS
<1> USE DEF TypeOK, Labels, ServerInv, ShutdownInv, ConnInv, Tracked, vars,
    mainVars, extVars, srvVars, netVars
<1>1. CASE CheckManifest \/ LoadEnvironment \/ CallStart \/ StartReturns
           \/ MountRoutes
  BY <1>1 DEF CheckManifest, Goto, Quit, LoadEnvironment, CallStart,
      StartReturns, Bail, MountRoutes
<1>2. CASE Listen \/ SpawnServe \/ WriteHandshake \/ SelectServeErr
           \/ SelectDone \/ JoinServe
  BY <1>2 DEF Listen, Goto, Bail, SpawnServe, WriteHandshake, SelectServeErr,
      SelectDone, JoinServe
<1>3. CASE CheckLoopback \/ ShutdownBegins
  BY <1>3 DEF CheckLoopback, Goto, Bail, Unaccepted, ShutdownBegins
<1>4. CASE ShutdownDrained \/ ShutdownTimeout
  BY <1>4 DEF ShutdownDrained, Goto, AfterShutdown, ShutdownTimeout
<1>5. CASE CallStop \/ StopReturns \/ DeferredStop \/ Return
  BY <1>5 DEF CallStop, Goto, EnterStop, StopReturns, DeferredStop, Return
<1>6. CASE ServeBegins \/ AcceptFails \/ ServeClosed \/ Cancel \/ PingEnds
  BY <1>6 DEF ServeBegins, Unaccepted, AcceptFails, ServeClosed, Cancel,
      PingEnds
<1>7. ASSUME NEW c \in Conn,
             Dial(c) \/ Accept(c) \/ BeginRequest(c) \/ EndRequest(c)
          \/ PeerCloses(c) \/ ReapIdle(c)
      PROVE ConnInv'
  <2>1. CASE Dial(c)
    BY <2>1 DEF Dial, SetConn, netOnly
  <2>2. CASE Accept(c)
    BY <2>2 DEF Accept, SetConn, netOnly
  <2>3. CASE BeginRequest(c)
    BY <2>3 DEF BeginRequest, SetConn, netOnly
  <2>4. CASE EndRequest(c)
    BY <2>4 DEF EndRequest, SetConn, netOnly
  <2>5. CASE PeerCloses(c)
    BY <2>5 DEF PeerCloses, SetConn, netOnly
  <2>6. CASE ReapIdle(c)
    BY <2>6 DEF ReapIdle, SetConn, netOnly
  <2> QED
    BY <1>7, <2>1, <2>2, <2>3, <2>4, <2>5, <2>6
<1>8. CASE UNCHANGED vars
  BY <1>8
<1>9. QED
  BY <1>1, <1>2, <1>3, <1>4, <1>5, <1>6, <1>7, <1>8
     DEF Next, Main, Serve, Network

LEMMA InitInv == Init => IInv
<1> SUFFICES ASSUME Init PROVE IInv
  OBVIOUS
<1> USE DEF Init
<1>1. TypeOK
  BY DEF TypeOK, Labels
<1>2. StopInv /\ ServerInv /\ ResultInv
  BY DEF StopInv, ServerInv, ResultInv, Early, Middle
<1>3. ShutdownInv /\ ConnInv
  BY DEF ShutdownInv, ConnInv, Settled, Tracked
<1> QED
  BY <1>1, <1>2, <1>3 DEF IInv

LEMMA StepInv == IInv /\ [Next]_vars => IInv'
BY TypeStep, StopStep, ServerStep, ShutdownStep, ResultStep, ConnStep DEF IInv

(* The inductive invariant holds in every reachable state.                  *)
THEOREM Invariance == Spec => []IInv
BY InitInv, StepInv, PTL DEF Spec

(* Type correctness.                                                        *)
THEOREM TypeCorrect == Spec => []TypeOK
  BY Invariance, PTL DEF IInv

(* ext.Stop is called exactly once by every run whose Start succeeded, and  *)
(* by no other.                                                             *)
THEOREM StopIsExact == Spec => []StopExactlyOnce
<1>1. IInv => StopExactlyOnce
  BY DEF IInv, TypeOK, StopInv, StopExactlyOnce
<1>2. QED
  BY <1>1, Invariance, PTL

(* The extension is out of reach until it has been started.                 *)
THEOREM StartComesFirst == Spec => []NothingServedBeforeStart
<1>1. IInv => NothingServedBeforeStart
  BY DEF IInv, TypeOK, ServerInv, ConnInv, NothingServedBeforeStart
<1>2. QED
  BY <1>1, Invariance, PTL

(* READY is not written before the address can be dialled.                  *)
THEOREM ReadyComesLast == Spec => []ReadyIsReachable
<1>1. IInv => ReadyIsReachable
  BY DEF IInv, TypeOK, ServerInv, ResultInv, ReadyIsReachable
<1>2. QED
  BY <1>1, Invariance, PTL

(* Unless its listener failed, a server has no connection left when Stop is *)
(* called: it was drained or closed, or it never served one.                *)
LEMMA StopMeetsNoConnection ==
  ASSUME IInv, stopDone, ~Broken
  PROVE  Tracked = {}
<1>1. pc \in {"stopping", "unwind", "returned"}
  BY DEF IInv, TypeOK, Labels, StopInv, Early, Middle
<1>2. CASE inShutdown
  BY <1>1, <1>2 DEF IInv, ShutdownInv, Settled
<1>3. CASE ~inShutdown
  <2>1. serve = "off"
    BY <1>1, <1>3 DEF IInv, ServerInv, Broken
  <2> QED
    BY <2>1 DEF IInv, ConnInv
<1> QED
  BY <1>2, <1>3

(* After a clean drain Stop meets no handler.                               *)
THEOREM DrainComesBeforeStop == Spec => []StopAfterDrain
<1>1. IInv => StopAfterDrain
  <2> SUFFICES ASSUME IInv, stopDone, ~Broken, NEW c \in handling
               PROVE drain = "forced"
    BY DEF StopAfterDrain
  <2>1. conn[c] # "active"
    BY StopMeetsNoConnection DEF IInv, TypeOK, Tracked
  <2> QED
    BY <2>1 DEF IInv, TypeOK, ConnInv
<1>2. QED
  BY <1>1, Invariance, PTL

(* nil is the result of an orderly run only.                                *)
THEOREM NilIsEarned == Spec => []NilMeansOrderly
<1>1. IInv => NilMeansOrderly
  BY DEF IInv, TypeOK, StopInv, ResultInv, NilMeansOrderly
<1>2. QED
  BY <1>1, Invariance, PTL

(* No request is admitted after Stop, unless the listener had failed.       *)
THEOREM NothingAdmittedAfterStop == Spec => NoRequestAfterStop
<1>1. IInv /\ [Next]_vars => [handling' \ handling # {} /\ stopDone => Broken]_vars
  <2> SUFFICES ASSUME IInv, [Next]_vars, stopDone, ~Broken
               PROVE handling' \ handling = {}
    OBVIOUS
  <2>1. Tracked = {}
    BY StopMeetsNoConnection
  <2>2. ASSUME NEW c \in Conn PROVE ~BeginRequest(c)
    BY <2>1 DEF BeginRequest, SetConn, Tracked
  <2>3. handling' \subseteq handling
    BY <2>2 DEF Next, Main, Serve, Network, CheckManifest, LoadEnvironment,
      CallStart, StartReturns, MountRoutes, Listen, CheckLoopback, SpawnServe,
      WriteHandshake, SelectServeErr, SelectDone, ShutdownBegins,
      ShutdownDrained, ShutdownTimeout, JoinServe, CallStop, StopReturns,
      DeferredStop, Return, Cancel, ServeBegins, AcceptFails, ServeClosed,
      PingEnds, Dial, Accept, EndRequest, PeerCloses, ReapIdle, netVars, vars
  <2> QED
    BY <2>3
<1>2. QED
  BY <1>1, Invariance, PTL DEF NoRequestAfterStop, Spec

(* A run that reported INCOMPATIBLE writes nothing more and starts nothing. *)
THEOREM IncompatibleEndsTheRun == Spec => IncompatibleIsFinal
<1>1. IInv /\ [Next]_vars =>
        [stdout = "INCOMPATIBLE" => UNCHANGED <<stdout, started, listener>>]_vars
  <2> SUFFICES ASSUME IInv, [Next]_vars, stdout = "INCOMPATIBLE"
               PROVE UNCHANGED <<stdout, started, listener>>
    OBVIOUS
  <2>1. pc = "returned" /\ serve = "off"
    BY DEF IInv, TypeOK, ServerInv, ResultInv
  <2> QED
    BY <2>1 DEF Next, Main, Serve, Network, CheckManifest, LoadEnvironment,
      CallStart, StartReturns, MountRoutes, Listen, CheckLoopback, SpawnServe,
      WriteHandshake, SelectServeErr, SelectDone, ShutdownBegins,
      ShutdownDrained, ShutdownTimeout, JoinServe, CallStop, StopReturns,
      DeferredStop, Return, Cancel, ServeBegins, AcceptFails, ServeClosed,
      PingEnds, Dial, Accept, BeginRequest, EndRequest, PeerCloses, ReapIdle,
      netOnly, extVars, srvVars, vars
<1>2. QED
  BY <1>1, Invariance, PTL DEF IncompatibleIsFinal, Spec

-----------------------------------------------------------------------------
(***************************************************************************)
(* Refinement.  Every step of RunContext and of the goroutines around it   *)
(* is a step of the contract or leaves line, door, life and over alone.    *)
(***************************************************************************)
Silent == UNCHANGED <<stdout, listener, started, stopDone, (pc = "returned")>>

LEMMA StepRefines == IInv /\ [Next]_vars => [Contract!Next]_(Contract!vars)
<1> SUFFICES ASSUME IInv, [Next]_vars PROVE [Contract!Next]_(Contract!vars)
  OBVIOUS
<1> USE DEF IInv, TypeOK, Labels, StopInv, ServerInv, ResultInv, Early, Middle
<1>1. Silent => UNCHANGED Contract!vars
  BY DEF Silent, Contract!vars
<1>2. CASE CheckManifest
  BY <1>2 DEF CheckManifest, Goto, Quit, Contract!Next, Contract!End,
     Contract!vars, extVars, srvVars
<1>3. CASE LoadEnvironment
  BY <1>3 DEF LoadEnvironment, Goto, Quit, Contract!Next, Contract!Refuse,
     Contract!End, Contract!vars, extVars, srvVars
<1>4. CASE StartReturns
  BY <1>4 DEF StartReturns, Goto, Bail, Contract!Next, Contract!Begin,
     Contract!vars, srvVars
<1>5. CASE Listen
  BY <1>5 DEF Listen, Goto, Bail, Contract!Next, Contract!Open,
     Contract!vars, extVars
<1>6. CASE CheckLoopback \/ ShutdownBegins \/ ServeBegins \/ AcceptFails
  BY <1>6 DEF CheckLoopback, ShutdownBegins, ServeBegins, AcceptFails, Goto, Bail,
     Contract!Next, Contract!Shut, Contract!vars, extVars, mainVars
<1>7. CASE WriteHandshake
  BY <1>7 DEF WriteHandshake, Goto, Contract!Next, Contract!Announce,
     Contract!vars, extVars, srvVars
<1>8. CASE CallStop \/ DeferredStop
  BY <1>8 DEF CallStop, DeferredStop, EnterStop, Goto, Contract!Next,
     Contract!Stop, Contract!vars, srvVars
<1>9. CASE Return
  BY <1>9 DEF Return, Goto, Contract!Next, Contract!End, Contract!vars, extVars,
     srvVars
<1>10. CASE CallStart \/ MountRoutes \/ SpawnServe \/ SelectServeErr \/ SelectDone
           \/ ShutdownDrained \/ ShutdownTimeout \/ JoinServe \/ StopReturns
  <2>1. Silent
    BY <1>10 DEF CallStart, MountRoutes, SpawnServe, SelectServeErr, SelectDone,
      ShutdownDrained, ShutdownTimeout, JoinServe, StopReturns, AfterShutdown,
      Goto, Bail, Silent, extVars, srvVars
  <2> QED
    BY <1>1, <2>1
<1>11. CASE Cancel \/ ServeClosed \/ PingEnds \/ Network \/ UNCHANGED vars
  <2>1. Silent
    BY <1>11 DEF Cancel, ServeClosed, PingEnds, Network, Dial, Accept,
      BeginRequest, EndRequest, PeerCloses, ReapIdle, netOnly, vars, Silent,
      mainVars, extVars, srvVars
  <2> QED
    BY <1>1, <2>1
<1>12. QED
  BY <1>2, <1>3, <1>4, <1>5, <1>6, <1>7, <1>8, <1>9, <1>10, <1>11
     DEF Next, Main, Serve

(* RunContext implements the contract of an extension process.              *)
THEOREM ImplementsItsContract == Spec => ImplementsContract
<1>1. Init => Contract!Init
  BY DEF Init, Contract!Init
<1>2. QED
  BY <1>1, StepRefines, Invariance, PTL DEF Spec, ImplementsContract, Contract!Spec
=============================================================================
