----------------------------- MODULE ExtProcess -----------------------------
(***************************************************************************)
(* The life of one external-process extension: what extserver.RunContext   *)
(* does between its first check and its return, with every goroutine it    *)
(* leaves running: the goroutine inside http.Server.Serve, the goroutines  *)
(* of the open connections, and the start-up ping of the Host API.         *)
(*                                                                         *)
(* The main goroutine is a program counter, pc.  net/http is external: a   *)
(* connection goes through the states of http.ConnState, Serve accepts     *)
(* connections until the listener fails or Shutdown closes it, Shutdown    *)
(* closes idle connections and waits for the others, Close abandons them.  *)
(* The extension's own methods (Start, Routes, Stop and the handlers) are  *)
(* calls that may return, fail, panic or, for a handler, never return.     *)
(***************************************************************************)
EXTENDS Naturals

CONSTANT Conn           \* the connections the Host opens to the extension

VARIABLES
  pc,           \* where RunContext is
  result,       \* what RunContext returns: "none" so far, "nil", "error", "panic"
  runCtx,       \* the context given to Start: "none", "live" or "done"
  stdout,       \* the line on stdout: "empty", "READY" or "INCOMPATIBLE"
  started,      \* Start returned nil, and the deferred stopExtension is set
  stopDone,     \* the flag captured by stopOnce
  stopCalls,    \* history: how many times ext.Stop has been called
  listener,     \* "none", "open" or "closed"
  serve,        \* the Serve goroutine: "off", "spawned", "serving", "returned"
  serveErr,     \* its channel of capacity 1: "empty", "closed" or "broken"
  inShutdown,   \* http.Server has been told to shut down
  drain,        \* how the shutdown ended: "none", "clean" or "forced"
  conn,         \* the state of each connection in the server
  handling,     \* the connections whose request is in the handler chain
  ping          \* the start-up ping: "off", "running" or "ended"

mainVars == <<pc, result>>
extVars  == <<started, stopDone, stopCalls>>
srvVars  == <<listener, serve, serveErr, inShutdown, drain>>
netVars  == <<conn, handling>>
vars     == <<mainVars, runCtx, stdout, extVars, srvVars, netVars, ping>>

Labels ==
  {"manifest", "env", "start", "starting", "mount", "listen", "loopback",
   "spawn", "handshake", "select", "shutdown", "drain", "join", "stop",
   "stopping", "unwind", "returned"}

\* Connections the server still has on its books.
Tracked == {c \in Conn : conn[c] \in {"new", "idle", "active"}}

TypeOK ==
  /\ pc \in Labels
  /\ result \in {"none", "nil", "error", "panic"}
  /\ runCtx \in {"none", "live", "done"}
  /\ stdout \in {"empty", "READY", "INCOMPATIBLE"}
  /\ started \in BOOLEAN
  /\ stopDone \in BOOLEAN
  /\ stopCalls \in Nat
  /\ listener \in {"none", "open", "closed"}
  /\ serve \in {"off", "spawned", "serving", "returned"}
  /\ serveErr \in {"empty", "closed", "broken"}
  /\ inShutdown \in BOOLEAN
  /\ drain \in {"none", "clean", "forced"}
  /\ conn \in [Conn -> {"none", "queued", "new", "idle", "active", "closed"}]
  /\ handling \subseteq Conn
  /\ ping \in {"off", "running", "ended"}

Init ==
  /\ pc = "manifest"
  /\ result = "none"
  /\ runCtx = "none"
  /\ stdout = "empty"
  /\ started = FALSE
  /\ stopDone = FALSE
  /\ stopCalls = 0
  /\ listener = "none"
  /\ serve = "off"
  /\ serveErr = "empty"
  /\ inShutdown = FALSE
  /\ drain = "none"
  /\ conn = [c \in Conn |-> "none"]
  /\ handling = {}
  /\ ping = "off"

-----------------------------------------------------------------------------
(***************************************************************************)
(* Moves of the main goroutine.                                            *)
(***************************************************************************)
Goto(l) == pc' = l /\ UNCHANGED result

\* return from the middle of RunContext, running the deferred calls on the way
Bail(r) == pc' = "unwind" /\ result' = r

\* return before anything has been deferred
Quit == pc' = "returned" /\ result' = "error"

\* A nil extension or an invalid manifest ends the run before it begins.
CheckManifest ==
  /\ pc = "manifest"
  /\ Goto("env") \/ Quit
  /\ UNCHANGED <<runCtx, stdout, extVars, srvVars, netVars, ping>>

\* loadEnvironment: a protocol mismatch is told to the Host on stdout (a write
\* that fails is ignored), any other error is only returned.  On success the
\* run's context is derived from the caller's, which may be cancelled already.
LoadEnvironment ==
  /\ pc = "env"
  /\ \/ /\ Goto("start")
        /\ runCtx' \in {"live", "done"}
        /\ UNCHANGED stdout
     \/ /\ Quit
        /\ stdout' \in {"empty", "INCOMPATIBLE"}
        /\ UNCHANGED runCtx
  /\ UNCHANGED <<extVars, srvVars, netVars, ping>>

\* A signal, the end of the parent (stdin reaches EOF) or the caller's context.
Cancel ==
  /\ runCtx = "live"
  /\ runCtx' = "done"
  /\ UNCHANGED <<mainVars, stdout, extVars, srvVars, netVars, ping>>

CallStart ==
  /\ pc = "start"
  /\ Goto("starting")
  /\ UNCHANGED <<runCtx, stdout, extVars, srvVars, netVars, ping>>

\* Only when Start returns nil is stopExtension deferred.
StartReturns ==
  /\ pc = "starting"
  /\ \/ Goto("mount") /\ started' = TRUE
     \/ Bail("error") /\ UNCHANGED started
     \/ Bail("panic") /\ UNCHANGED started
  /\ UNCHANGED <<runCtx, stdout, stopDone, stopCalls, srvVars, netVars, ping>>

\* buildHandler: a bad or duplicate route is an error; Routes itself may panic.
MountRoutes ==
  /\ pc = "mount"
  /\ Goto("listen") \/ Bail("error") \/ Bail("panic")
  /\ UNCHANGED <<runCtx, stdout, extVars, srvVars, netVars, ping>>

Listen ==
  /\ pc = "listen"
  /\ \/ Goto("loopback") /\ listener' = "open"
     \/ Bail("error") /\ UNCHANGED listener
  /\ UNCHANGED <<runCtx, stdout, extVars, serve, serveErr, inShutdown, drain,
                 netVars, ping>>

\* Closing a listener resets the connections nobody has accepted yet.
Unaccepted(cs) ==
  [c \in Conn |-> IF cs[c] = "queued" THEN "closed" ELSE cs[c]]

CheckLoopback ==
  /\ pc = "loopback"
  /\ \/ Goto("spawn") /\ UNCHANGED <<listener, conn>>
     \/ Bail("error") /\ listener' = "closed" /\ conn' = Unaccepted(conn)
  /\ UNCHANGED <<runCtx, stdout, extVars, serve, serveErr, inShutdown, drain,
                 handling, ping>>

SpawnServe ==
  /\ pc = "spawn"
  /\ Goto("handshake")
  /\ serve' = "spawned"
  /\ UNCHANGED <<runCtx, stdout, extVars, listener, serveErr, inShutdown,
                 drain, netVars, ping>>

\* Fault: a READY that cannot be written ends the run at once.
WriteHandshake_NoShutdown ==
  /\ pc = "handshake"
  /\ \/ Goto("select") /\ stdout' = "READY" /\ ping' = "running"
     \/ Bail("error") /\ UNCHANGED <<stdout, ping>>
  /\ UNCHANGED <<runCtx, extVars, srvVars, netVars>>

\* READY goes out after the listener is open and Serve has been started; the
\* ping goroutine is started after it.  A failed write shuts the server down.
WriteHandshake ==
  /\ pc = "handshake"
  /\ \/ Goto("select") /\ stdout' = "READY" /\ ping' = "running"
     \/ pc' = "shutdown" /\ result' = "error" /\ UNCHANGED <<stdout, ping>>
  /\ UNCHANGED <<runCtx, extVars, srvVars, netVars>>

\* select on serveErr: the server broke, and the run returns its error at once,
\* with neither Shutdown nor Close.
SelectServeErr ==
  /\ pc = "select"
  /\ serveErr = "broken"
  /\ serveErr' = "empty"
  /\ Bail("error")
  /\ UNCHANGED <<runCtx, stdout, extVars, listener, serve, inShutdown, drain,
                 netVars, ping>>

\* select on runCtx.Done().
SelectDone ==
  /\ pc = "select"
  /\ runCtx = "done"
  /\ Goto("shutdown")
  /\ UNCHANGED <<runCtx, stdout, extVars, srvVars, netVars, ping>>

\* Shutdown closes the listener only if Serve has registered it.
ShutdownBegins ==
  /\ pc = "shutdown"
  /\ Goto("drain")
  /\ inShutdown' = TRUE
  /\ IF serve = "serving"
     THEN listener' = "closed" /\ conn' = Unaccepted(conn)
     ELSE UNCHANGED <<listener, conn>>
  /\ UNCHANGED <<runCtx, stdout, extVars, serve, serveErr, drain, handling, ping>>

\* shutdown returns to the handshake's error path or to the join on serveErr.
AfterShutdown == IF result = "error" THEN "unwind" ELSE "join"

\* Fault: the server is closed without waiting for the requests in flight.
ShutdownDrained_NoWait ==
  /\ pc = "drain"
  /\ serve # "serving"
  /\ drain' = "clean"
  /\ Goto(AfterShutdown)
  /\ UNCHANGED <<runCtx, stdout, extVars, listener, serve, serveErr, inShutdown,
                 netVars, ping>>

ShutdownDrained ==
  /\ pc = "drain"
  /\ serve # "serving"
  /\ Tracked = {}
  /\ drain' = "clean"
  /\ Goto(AfterShutdown)
  /\ UNCHANGED <<runCtx, stdout, extVars, listener, serve, serveErr, inShutdown,
                 netVars, ping>>

\* Fault: Shutdown without a deadline.
ShutdownTimeout_Never == FALSE

\* Fault: the deadline passes, and Close is not called.
ShutdownTimeout_NoClose ==
  /\ pc = "drain"
  /\ serve # "serving"
  /\ drain' = "forced"
  /\ Goto(AfterShutdown)
  /\ UNCHANGED <<runCtx, stdout, extVars, listener, serve, serveErr, inShutdown,
                 netVars, ping>>

\* The deadline: Close drops every connection, but no handler is interrupted.
ShutdownTimeout ==
  /\ pc = "drain"
  /\ serve # "serving"
  /\ drain' = "forced"
  /\ conn' = [c \in Conn |-> IF c \in Tracked THEN "closed" ELSE conn[c]]
  /\ Goto(AfterShutdown)
  /\ UNCHANGED <<runCtx, stdout, extVars, listener, serve, serveErr, inShutdown,
                 handling, ping>>

\* <-serveErr after a shutdown asked for by runCtx; what it says is not looked at.
JoinServe ==
  /\ pc = "join"
  /\ serveErr # "empty"
  /\ serveErr' = "empty"
  /\ Goto("stop")
  /\ UNCHANGED <<runCtx, stdout, extVars, listener, serve, inShutdown, drain,
                 netVars, ping>>

\* Fault: stopOnce forgets to raise its flag.
EnterStop_NoFlag ==
  /\ UNCHANGED stopDone
  /\ stopCalls' = stopCalls + 1
  /\ Goto("stopping")

\* The flag is raised before the call, so neither the deferred call nor a panic
\* in Stop leads to a second one.
EnterStop ==
  /\ stopDone' = TRUE
  /\ stopCalls' = stopCalls + 1
  /\ Goto("stopping")

\* stopExtension() at the end of the normal path.
CallStop ==
  /\ pc = "stop"
  /\ EnterStop
  /\ UNCHANGED <<runCtx, stdout, started, srvVars, netVars, ping>>

\* An error of Stop is logged only; the normal path then returns nil.
StopReturns ==
  /\ pc = "stopping"
  /\ pc' = "unwind"
  /\ result' \in {IF result = "none" THEN "nil" ELSE result, "panic"}
  /\ UNCHANGED <<runCtx, stdout, extVars, srvVars, netVars, ping>>

\* The deferred stopExtension().
DeferredStop ==
  /\ pc = "unwind"
  /\ started /\ ~stopDone
  /\ EnterStop
  /\ UNCHANGED <<runCtx, stdout, started, srvVars, netVars, ping>>

\* Fault: an early return does not stop the extension.
Return_LeavesRunning ==
  /\ pc = "unwind"
  /\ Goto("returned")
  /\ runCtx' = "done"
  /\ UNCHANGED <<stdout, extVars, srvVars, netVars, ping>>

\* Nothing left to stop: the deferred cancel releases the run's context.
Return ==
  /\ pc = "unwind"
  /\ ~started \/ stopDone
  /\ Goto("returned")
  /\ runCtx' = "done"
  /\ UNCHANGED <<stdout, extVars, srvVars, netVars, ping>>

Main ==
  \/ CheckManifest   \/ LoadEnvironment \/ CallStart       \/ StartReturns
  \/ MountRoutes     \/ Listen          \/ CheckLoopback   \/ SpawnServe
  \/ WriteHandshake  \/ SelectServeErr  \/ SelectDone      \/ ShutdownBegins
  \/ ShutdownDrained \/ ShutdownTimeout \/ JoinServe       \/ CallStop
  \/ StopReturns     \/ DeferredStop    \/ Return

-----------------------------------------------------------------------------
(***************************************************************************)
(* The goroutine that runs srv.Serve(ln) and sends its result.             *)
(***************************************************************************)

\* Serve registers the listener, or finds that the server is shutting down.
ServeBegins ==
  /\ serve = "spawned"
  /\ IF inShutdown
     THEN /\ serve' = "returned"
          /\ serveErr' = "closed"
          /\ listener' = "closed"
          /\ conn' = Unaccepted(conn)
     ELSE /\ serve' = "serving"
          /\ UNCHANGED <<serveErr, listener, conn>>
  /\ UNCHANGED <<mainVars, runCtx, stdout, extVars, inShutdown, drain, handling,
                 ping>>

\* Accept fails for good: Serve closes the listener and returns the error.
\* Connections already accepted go on being served.
AcceptFails ==
  /\ serve = "serving"
  /\ ~inShutdown
  /\ serve' = "returned"
  /\ serveErr' = "broken"
  /\ listener' = "closed"
  /\ conn' = Unaccepted(conn)
  /\ UNCHANGED <<mainVars, runCtx, stdout, extVars, inShutdown, drain, handling,
                 ping>>

ServeClosed ==
  /\ serve = "serving"
  /\ inShutdown
  /\ serve' = "returned"
  /\ serveErr' = "closed"
  /\ UNCHANGED <<mainVars, runCtx, stdout, extVars, listener, inShutdown, drain,
                 netVars, ping>>

Serve == ServeBegins \/ AcceptFails \/ ServeClosed

-----------------------------------------------------------------------------
(***************************************************************************)
(* Connections and the handlers behind them.                               *)
(***************************************************************************)
SetConn(c, from, to) ==
  /\ conn[c] \in from
  /\ conn' = [conn EXCEPT ![c] = to]

netOnly == <<mainVars, runCtx, stdout, extVars, srvVars, ping>>

\* The kernel completes the connection as soon as the listener is open.
Dial(c) ==
  /\ listener = "open"
  /\ SetConn(c, {"none"}, "queued")
  /\ UNCHANGED <<netOnly, handling>>

Accept(c) ==
  /\ serve = "serving"
  /\ SetConn(c, {"queued"}, "new")
  /\ UNCHANGED <<netOnly, handling>>

\* A request has been read: it goes down the handler chain.
BeginRequest(c) ==
  /\ SetConn(c, {"new", "idle"}, "active")
  /\ handling' = handling \cup {c}
  /\ UNCHANGED netOnly

\* The handler returns.  A server that is shutting down keeps nothing alive.
EndRequest(c) ==
  /\ c \in handling
  /\ handling' = handling \ {c}
  /\ conn' = [conn EXCEPT ![c] =
                IF @ = "closed" THEN @ ELSE IF inShutdown THEN "closed" ELSE "idle"]
  /\ UNCHANGED netOnly

PeerCloses(c) ==
  /\ SetConn(c, {"queued", "new", "idle"}, "closed")
  /\ UNCHANGED <<netOnly, handling>>

\* Shutdown's polling closes what is idle (or has been new for five seconds).
ReapIdle(c) ==
  /\ pc = "drain"
  /\ SetConn(c, {"new", "idle"}, "closed")
  /\ UNCHANGED <<netOnly, handling>>

Network == \E c \in Conn :
  Dial(c) \/ Accept(c) \/ BeginRequest(c) \/ EndRequest(c) \/ PeerCloses(c) \/ ReapIdle(c)

\* The ping answers, fails, or its context ends; the outcome is only logged.
PingEnds ==
  /\ ping = "running"
  /\ ping' = "ended"
  /\ UNCHANGED <<mainVars, runCtx, stdout, extVars, srvVars, netVars>>

Next == Main \/ Cancel \/ Serve \/ Network \/ PingEnds

\* Go runs every goroutine that can run, the extension's Start, Routes and Stop
\* return, and the shutdown deadline passes.  Nothing is assumed of handlers,
\* of the Host's connections or of the three ways to cancel the run.
Fairness ==
  /\ WF_vars(Main)
  /\ WF_vars(ServeBegins)
  /\ WF_vars(ServeClosed)

Spec == Init /\ [][Next]_vars /\ Fairness

-----------------------------------------------------------------------------
(***************************************************************************)
(* Properties.                                                             *)
(***************************************************************************)

(* Stop is called at most once whatever path RunContext takes (normal end,  *)
(* error, panic of the extension, panic of Stop itself), and by the time    *)
(* RunContext has returned it was called if and only if Start succeeded.    *)
StopExactlyOnce ==
  /\ stopCalls <= 1
  /\ pc = "returned" => stopCalls = (IF started THEN 1 ELSE 0)

(* No request can reach the extension, and no connection can even be opened *)
(* to it, before its Start has succeeded.                                   *)
NothingServedBeforeStart ==
  listener # "none" \/ handling # {} => started

(* Once READY is on stdout the announced address accepts connections, until *)
(* the process shuts down or its listener fails: the Host, which proxies as *)
(* soon as it reads the line, is never refused for having been too fast.    *)
ReadyIsReachable ==
  stdout = "READY" => listener = "open" \/ inShutdown \/ serve = "returned"

\* The listener failed by itself: the run ends with neither Shutdown nor Close.
Broken == serve = "returned" /\ ~inShutdown

(* A request still in a handler when Stop is called is one that outlasted   *)
(* the deadline, a clean drain leaves none behind; or the listener failed,  *)
(* and nobody waited.  No other way to Stop leaves the server running, a    *)
(* READY that could not be written included.                                *)
StopAfterDrain ==
  stopDone /\ handling # {} => drain = "forced" \/ Broken

(* RunContext returns nil only for a run that announced itself, was asked   *)
(* to end, shut its server down and stopped the extension.                  *)
NilMeansOrderly ==
  pc = "returned" /\ result = "nil" =>
    stdout = "READY" /\ runCtx = "done" /\ inShutdown /\ stopCalls = 1

(* INCOMPATIBLE tells the Host not to restart the process: it never appears *)
(* once the extension has been started, nor together with a later READY.    *)
IncompatibleIsFinal ==
  [][stdout = "INCOMPATIBLE" => UNCHANGED <<stdout, started, listener>>]_vars

(* No new request enters a handler once Stop has been called, however the   *)
(* run came to it: the one exception is a listener that failed, where the   *)
(* connections already open go on being served (see the README).            *)
NoRequestAfterStop ==
  [][handling' \ handling # {} /\ stopDone => Broken]_vars

(* A run always ends when it must: when it is cancelled, even if a handler   *)
(* never returns (the shutdown deadline, the wait for Serve and the deferred *)
(* calls cannot hang), and when its listener fails, instead of leaving a     *)
(* process that looks alive and accepts nothing.                             *)
RunEnds == runCtx = "done" \/ serveErr = "broken" ~> pc = "returned"

Contract == INSTANCE ExtensionContract WITH
  line <- stdout,
  door <- listener,
  life <- IF stopDone THEN "stopped" ELSE IF started THEN "running" ELSE "fresh",
  over <- pc = "returned"

(* RunContext implements what the Host and the extension are promised: one  *)
(* line at most, a door opened after Start and before READY, and no end of  *)
(* the run that leaves the extension running.                               *)
ImplementsContract == Contract!Spec
=============================================================================
