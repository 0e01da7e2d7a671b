---------------------------- MODULE ProcessLaunch ----------------------------
(***************************************************************************)
(* The Host's side of a start-up, composed with the process it starts:     *)
(* testkit.ProcessHost.Launch and WaitReady (start the binary, read its    *)
(* stdout until READY, poll /health, or give up and kill it) together with *)
(* every step of ExtProcess.  What one side does to the other takes effect *)
(* later, if at all: an answer is on its way, the end of stdin is noticed  *)
(* by a goroutine of the child, and a signal is delivered by the kernel.   *)
(***************************************************************************)
EXTENDS ExtProcess

CONSTANT NoConn          \* no health request is outstanding
ASSUME NoConnAssumption == NoConn \notin Conn

VARIABLES
  host,       \* where Launch is; "up" and "failed" are its two returns
  deadline,   \* the context given to Launch is done
  alive,      \* the child process executes
  stdin,      \* the Host's end of the child's stdin: "open" or "closed"
  kill,       \* what became of Process.Kill: "none", "sent" or "refused"
  probe,      \* the connection that carries the outstanding GET /health
  reply       \* its answer on the way to the Host: "none", "ok" or "bad"

childVars == <<alive, stdin, kill>>
askVars   == <<probe, reply>>
hostVars  == <<host, deadline, childVars, askVars>>
allVars  == <<vars, hostVars>>

HostTypeOK ==
  /\ TypeOK
  /\ host \in {"spawn", "scan", "poll", "asking", "pause", "failing", "killing",
               "failed", "up", "stopped"}
  /\ deadline \in BOOLEAN
  /\ alive \in BOOLEAN
  /\ stdin \in {"open", "closed"}
  /\ kill \in {"none", "sent", "refused"}
  /\ reply \in {"none", "ok", "bad"}
  /\ probe \in Conn \cup {NoConn}

LaunchInit ==
  /\ Init
  /\ host = "spawn"
  /\ deadline = FALSE
  /\ alive = FALSE
  /\ stdin = "open"
  /\ kill = "none"
  /\ probe = NoConn
  /\ reply = "none"

-----------------------------------------------------------------------------
(***************************************************************************)
(* Launch and WaitReady.                                                   *)
(***************************************************************************)
HostGoes(l) == host' = l /\ UNCHANGED deadline

Expire ==
  /\ ~deadline
  /\ deadline' = TRUE
  /\ UNCHANGED <<vars, host, childVars, askVars>>

\* cmd.Start: without a process there is nothing to clean up.
Spawn ==
  /\ host = "spawn"
  /\ \/ host' = "scan" /\ alive' = TRUE
     \/ host' = "failed" /\ UNCHANGED alive
  /\ UNCHANGED <<vars, deadline, stdin, kill, askVars>>

\* Fault: READY alone is taken for success.
Scanned_TrustsReady ==
  /\ host = "scan"
  /\ stdout = "READY" /\ HostGoes("up")
  /\ UNCHANGED <<vars, childVars, askVars>>

\* The scanner goroutine hands over a line, or the end of stdout.  READY may
\* still name an API or protocol version this Host does not speak.
Scanned ==
  /\ host = "scan"
  /\ \/ stdout = "READY" /\ (HostGoes("poll") \/ HostGoes("failing"))
     \/ stdout = "INCOMPATIBLE" /\ HostGoes("failing")
     \/ stdout = "empty" /\ ~alive /\ HostGoes("failing")
  /\ UNCHANGED <<vars, childVars, askVars>>

ScanTimeout ==
  /\ host = "scan"
  /\ deadline
  /\ HostGoes("failing")
  /\ UNCHANGED <<vars, childVars, askVars>>

\* GET /health on a new connection, or on one kept alive by an earlier poll.
Probe(c) ==
  /\ host = "poll"
  /\ alive
  /\ Dial(c) \/ (conn[c] = "idle" /\ UNCHANGED vars)
  /\ HostGoes("asking")
  /\ probe' = c
  /\ UNCHANGED <<childVars, reply>>

ProbeRefused ==
  /\ host = "poll"
  /\ ~alive \/ listener # "open"
  /\ HostGoes("pause")
  /\ UNCHANGED <<vars, childVars, askVars>>

\* The answer has come: status 200 with ok true ends the wait, nothing else does.
ProbeAnswered ==
  /\ host = "asking"
  /\ reply # "none"
  /\ HostGoes(IF reply = "ok" THEN "up" ELSE "pause")
  /\ probe' = NoConn /\ reply' = "none"
  /\ UNCHANGED <<vars, childVars>>

ProbeLost ==
  /\ host = "asking"
  /\ ~alive \/ conn[probe] = "closed" \/ deadline
  /\ HostGoes("pause")
  /\ probe' = NoConn /\ reply' = "none"
  /\ UNCHANGED <<vars, childVars>>

\* Fault: WaitReady sleeps between two polls without looking at its context.
Pause_NoContext ==
  /\ host = "pause"
  /\ HostGoes("poll")
  /\ UNCHANGED <<vars, childVars, askVars>>

\* select between the context and the 20 ms timer.
Pause ==
  /\ host = "pause"
  /\ IF deadline THEN HostGoes("failing") ELSE HostGoes("poll")
  /\ UNCHANGED <<vars, childVars, askVars>>

\* Fault: the error path only kills.
CloseStdinOnError_Omitted ==
  /\ host = "failing"
  /\ HostGoes("killing")
  /\ UNCHANGED <<vars, childVars, askVars>>

\* Launch's error path closes stdin...
CloseStdinOnError ==
  /\ host = "failing"
  /\ HostGoes("killing")
  /\ stdin' = "closed"
  /\ UNCHANGED <<vars, alive, kill, askVars>>

\* Fault: the child is left to notice by itself.
KillOnError_Omitted ==
  /\ host = "killing"
  /\ HostGoes("failed")
  /\ UNCHANGED <<vars, childVars, askVars>>

\* ...and asks for the child to be killed.  It drops the error, so a signal that
\* was refused goes unnoticed, and waits for nothing.
KillOnError ==
  /\ host = "killing"
  /\ HostGoes("failed")
  /\ kill' \in {"sent", "refused"}
  /\ UNCHANGED <<vars, alive, stdin, askVars>>

\* After a successful Launch the caller stops the extension by closing stdin.
CloseStdin ==
  /\ host = "up"
  /\ HostGoes("stopped")
  /\ stdin' = "closed"
  /\ UNCHANGED <<vars, alive, kill, askVars>>

\* What the Host's goroutine does by itself.
Launch ==
  \/ Spawn \/ Scanned \/ ScanTimeout \/ ProbeRefused \/ ProbeAnswered \/ ProbeLost
  \/ Pause \/ CloseStdinOnError \/ KillOnError
  \/ \E c \in Conn : Probe(c)

-----------------------------------------------------------------------------
(***************************************************************************)
(* The process.                                                            *)
(***************************************************************************)

\* main returns after Run: the process is gone, whatever still ran in it.
Exit ==
  /\ alive
  /\ pc = "returned"
  /\ alive' = FALSE
  /\ UNCHANGED <<vars, host, deadline, stdin, kill, askVars>>

\* The kernel delivers SIGKILL some time after Kill has returned.
Dies ==
  /\ alive
  /\ kill = "sent"
  /\ alive' = FALSE
  /\ UNCHANGED <<vars, host, deadline, stdin, kill, askVars>>

\* Fault: nobody reads stdin.
WatchStdin_Never == FALSE

\* The goroutine of watchParentPipe reads the end of stdin, and cancels the run.
WatchStdin ==
  /\ alive
  /\ stdin = "closed"
  /\ Cancel
  /\ UNCHANGED hostVars

\* The health handler returns, and what it wrote leaves for the Host.
AnswerProbe(c) ==
  /\ alive
  /\ probe = c /\ conn[c] # "closed"
  /\ EndRequest(c)
  /\ reply' \in {"ok", "bad"}
  /\ UNCHANGED <<host, deadline, childVars, probe>>

\* What the process does on the connections the Host uses: a request begins on
\* the probe's connection, or on any connection once Launch has succeeded; a
\* handler whose connection is closed writes to nobody.
Serviced(c) ==
  \/ Accept(c)
  \/ BeginRequest(c) /\ ((probe = c /\ reply = "none") \/ host \in {"up", "stopped"})
  \/ EndRequest(c) /\ (probe # c \/ conn[c] = "closed")
  \/ ReapIdle(c)
  \/ Dial(c) /\ host = "up"

ProcessStep ==
  /\ alive
  /\ Main \/ Serve \/ PingEnds \/ Cancel \/ \E c \in Conn : Serviced(c)
  /\ UNCHANGED hostVars

Child == Exit \/ Dies \/ WatchStdin \/ ProcessStep \/ \E c \in Conn : AnswerProbe(c)

LaunchNext == Launch \/ Expire \/ CloseStdin \/ Child

\* As in ExtProcess, except that Start may hang, plus the Host's own goroutine,
\* the watcher of stdin, the delivery of a signal and the exit of a process whose
\* Run has returned.  Nothing obliges a deadline to exist, a request to be
\* answered or a Host to close stdin.
LaunchFairness ==
  /\ WF_allVars(alive /\ pc # "starting" /\ Main /\ UNCHANGED hostVars)
  /\ WF_allVars(alive /\ ServeBegins /\ UNCHANGED hostVars)
  /\ WF_allVars(alive /\ ServeClosed /\ UNCHANGED hostVars)
  /\ WF_allVars(WatchStdin)
  /\ WF_allVars(Dies)
  /\ WF_allVars(Exit)
  /\ WF_allVars(Launch)

LaunchSpec == LaunchInit /\ [][LaunchNext]_allVars /\ LaunchFairness

-----------------------------------------------------------------------------
(* A Launch that fails leaves no process behind for good: the signal ends   *)
(* the child wherever it is, hung in Start for instance; and if the signal  *)
(* was refused, which Launch does not notice, the end of stdin still ends   *)
(* a child that got through Start.  (Launch does not wait: for a while the  *)
(* child may go on beside a caller that has the error.)                     *)
FailedLaunchEndsChild == host = "failed" /\ (kill # "refused" \/ started) ~> ~alive

(* When Launch succeeds it has an answer; and an answer is only ever given  *)
(* by an extension that was started, announced itself and was not stopped   *)
(* by then, unless its server had failed by itself: that run calls Stop     *)
(* beside the handlers still at work.                                       *)
UpMeansAnswered ==
  [][/\ reply' \notin {"none", reply} =>
          started /\ stdout = "READY" /\ (stopDone => Broken)
     /\ host' = "up" /\ host # "up" => reply = "ok"]_allVars

(* Launch returns once its context is over, even if the child hangs in      *)
(* Start, never writes a line, or never answers /health.                    *)
LaunchReturns == deadline ~> host \in {"up", "stopped", "failed"}

(* Closing stdin ends the process, and the extension's Stop was called, no  *)
(* matter what its handlers are doing.                                      *)
StdinStopsExtension == host = "stopped" ~> ~alive /\ stopCalls = 1
=============================================================================
