------------------------- MODULE ProcessLaunch_proofs -------------------------
(***************************************************************************)
(* Theorems about ProcessLaunch, for any set of connections.  The Host     *)
(* does to the process only what anybody could do (dial, send requests,    *)
(* end its stdin), so whatever was proved of every step of ExtProcess      *)
(* holds of the child too, and a signal is one more end of its steps; what *)
(* a successful Launch reports of the child is true.                       *)
(***************************************************************************)
EXTENDS ProcessLaunch, ExtProcess_proofs

\* There is no process before the Host starts one; the Host polls /health, and
\* succeeds, only after READY; and only a poll that is under way has an answer.
HostInv ==
  /\ HostTypeOK
  /\ host = "spawn" => ~alive
  /\ host \in {"poll", "asking", "pause", "up", "stopped"} => stdout = "READY"
  /\ (probe # NoConn) <=> (host = "asking")
  /\ probe = NoConn => reply = "none"

-----------------------------------------------------------------------------
(* The child takes the steps of ExtProcess and no other.                    *)
LEMMA ChildSteps == [LaunchNext]_allVars => [Next]_vars
<1> SUFFICES ASSUME [LaunchNext]_allVars PROVE [Next]_vars
  OBVIOUS
<1>1. CASE Launch
  <2>1. ASSUME NEW c \in Conn, Probe(c)
        PROVE  [Next]_vars
    BY <2>1 DEF Probe, Next, Network
  <2>2. CASE ~\E c \in Conn : Probe(c)
    BY <1>1, <2>2 DEF Launch, Spawn, Scanned, ScanTimeout, ProbeRefused,
       ProbeAnswered, ProbeLost, Pause, CloseStdinOnError, KillOnError
  <2> QED
    BY <2>1, <2>2
<1>2. CASE Expire \/ CloseStdin \/ Exit \/ Dies \/ UNCHANGED allVars
  BY <1>2 DEF Expire, CloseStdin, Exit, Dies, allVars
<1>3. CASE WatchStdin
  BY <1>3 DEF WatchStdin, Next
<1>4. CASE ProcessStep \/ \E c \in Conn : AnswerProbe(c)
  BY <1>4 DEF ProcessStep, Serviced, AnswerProbe, Next, Network
<1> QED
  BY <1>1, <1>2, <1>3, <1>4 DEF LaunchNext, Child

(* A line once written stays the one on stdout.                             *)
LEMMA ReadyStays ==
  ASSUME IInv, [Next]_vars, stdout = "READY"
  PROVE  stdout' = "READY"
<1> USE DEF vars, mainVars, extVars, srvVars, netVars
<1>1. CASE LoadEnvironment \/ WriteHandshake
  BY <1>1 DEF LoadEnvironment, WriteHandshake, IInv, ResultInv, Early
<1>2. CASE Main /\ ~(LoadEnvironment \/ WriteHandshake)
  BY <1>2 DEF Main, CheckManifest, CallStart, StartReturns, MountRoutes, Listen,
     CheckLoopback, SpawnServe, SelectServeErr, SelectDone, ShutdownBegins,
     ShutdownDrained, ShutdownTimeout, JoinServe, CallStop, StopReturns,
     DeferredStop, Return
<1>3. CASE Cancel \/ Serve \/ PingEnds \/ UNCHANGED vars
  BY <1>3 DEF Cancel, Serve, ServeBegins, AcceptFails, ServeClosed, PingEnds
<1>4. CASE Network
  BY <1>4 DEF Network, Dial, Accept, BeginRequest, EndRequest, PeerCloses, ReapIdle,
     netOnly
<1> QED
  BY <1>1, <1>2, <1>3, <1>4 DEF Next

LEMMA HostStep ==
  ASSUME IInv, HostInv, [LaunchNext]_allVars
  PROVE  HostInv'
<1>1. TypeOK'
  BY ChildSteps, TypeStep DEF IInv
<1>2. stdout = "READY" => stdout' = "READY"
  BY ChildSteps, ReadyStays
<1> USE NoConnAssumption DEF HostInv, HostTypeOK, HostGoes, hostVars, childVars, askVars
<1>3. CASE Launch
  <2>1. ASSUME NEW c \in Conn, Probe(c)
        PROVE  HostInv'
    BY <1>1, <1>2, <2>1 DEF Probe
  <2>2. CASE Spawn
    BY <1>1, <1>2, <2>2 DEF Spawn
  <2>3. CASE Scanned
    BY <1>1, <1>2, <2>3 DEF Scanned
  <2>4. CASE ScanTimeout \/ ProbeRefused
    BY <1>1, <1>2, <2>4 DEF ScanTimeout, ProbeRefused
  <2>5. CASE ProbeAnswered
    BY <1>1, <1>2, <2>5 DEF ProbeAnswered
  <2>6. CASE ProbeLost
    BY <1>1, <1>2, <2>6 DEF ProbeLost
  <2>7. CASE Pause
    BY <1>1, <1>2, <2>7 DEF Pause
  <2>8. CASE CloseStdinOnError \/ KillOnError
    BY <1>1, <1>2, <2>8 DEF CloseStdinOnError, KillOnError
  <2> QED
    BY <1>3, <2>1, <2>2, <2>3, <2>4, <2>5, <2>6, <2>7, <2>8 DEF Launch
<1>4. CASE Expire
  BY <1>1, <1>2, <1>4 DEF Expire
<1>5. CASE CloseStdin
  BY <1>1, <1>2, <1>5 DEF CloseStdin
<1>6. CASE Exit \/ Dies
  BY <1>1, <1>2, <1>6 DEF Exit, Dies
<1>7. CASE WatchStdin \/ ProcessStep \/ UNCHANGED allVars
  BY <1>1, <1>2, <1>7 DEF WatchStdin, ProcessStep, allVars
<1>8. ASSUME NEW c \in Conn, AnswerProbe(c)
      PROVE  HostInv'
  BY <1>1, <1>2, <1>8 DEF AnswerProbe
<1> QED
  BY <1>3, <1>4, <1>5, <1>6, <1>7, <1>8 DEF LaunchNext, Child

(* Everything proved of a run holds of the child, and the Host's side of    *)
(* the start-up is as HostInv says.                                         *)
THEOREM LaunchInvariance == LaunchSpec => [](IInv /\ HostInv)
<1>1. LaunchInit => IInv /\ HostInv
  <2>1. LaunchInit => IInv
    BY InitInv DEF LaunchInit
  <2>2. LaunchInit /\ IInv => HostInv
    BY DEF LaunchInit, HostInv, HostTypeOK, IInv
  <2> QED
    BY <2>1, <2>2
<1>2. IInv /\ HostInv /\ [LaunchNext]_allVars => (IInv /\ HostInv)'
  BY ChildSteps, HostStep, StepInv
<1> QED
  BY <1>1, <1>2, PTL DEF LaunchSpec

(* Type correctness of the child and of the Host's side.                    *)
THEOREM LaunchTypeCorrect == LaunchSpec => []HostTypeOK
<1>1. HostInv => HostTypeOK
  BY DEF HostInv
<1> QED
  BY <1>1, LaunchInvariance, PTL

(* An answer to a poll comes from an extension that was started, has        *)
(* announced itself and, unless its listener had failed, was not stopped.   *)
LEMMA AnswersAreAlive ==
  ASSUME IInv, HostInv, [LaunchNext]_allVars, reply' \notin {"none", reply}
  PROVE  started /\ stdout = "READY" /\ (stopDone => Broken)
<1>1. PICK c \in Conn : AnswerProbe(c)
  BY DEF LaunchNext, Launch, Child, Spawn, Scanned, ScanTimeout, ProbeRefused, Probe,
     ProbeAnswered, ProbeLost, Pause, CloseStdinOnError, KillOnError, Expire, CloseStdin,
     Exit, Dies, WatchStdin, ProcessStep, HostGoes, askVars, hostVars, allVars
<1>2. stdout = "READY"
  BY <1>1, NoConnAssumption DEF AnswerProbe, HostInv
<1>3. c \in handling /\ conn[c] # "closed"
  BY <1>1 DEF AnswerProbe, EndRequest
<1>4. c \in Tracked
  BY <1>3 DEF IInv, ConnInv, Tracked
<1> QED
  BY <1>2, <1>4, StopMeetsNoConnection DEF IInv, ResultInv

(* WaitReady returns nil only for an answer.                                *)
LEMMA UpIsAnswered ==
  ASSUME [LaunchNext]_allVars, host' = "up", host # "up"
  PROVE  reply = "ok"
BY DEF LaunchNext, Launch, Child, Spawn, Scanned, ScanTimeout, ProbeRefused, Probe,
   ProbeAnswered, ProbeLost, Pause, CloseStdinOnError, KillOnError, Expire, CloseStdin,
   Exit, Dies, WatchStdin, ProcessStep, AnswerProbe, HostGoes, hostVars, allVars

(* Launch succeeds only on an answer, and answers come from an extension    *)
(* that was started, announced and not stopped (its listener may have       *)
(* failed).                                                                 *)
THEOREM SuccessIsAnAnswer == LaunchSpec => UpMeansAnswered
<1>1. IInv /\ HostInv /\ [LaunchNext]_allVars
        => [/\ reply' \notin {"none", reply} =>
                 started /\ stdout = "READY" /\ (stopDone => Broken)
            /\ host' = "up" /\ host # "up" => reply = "ok"]_allVars
  BY AnswersAreAlive, UpIsAnswered
<1> QED
  BY <1>1, LaunchInvariance, PTL DEF LaunchSpec, UpMeansAnswered

(* Inside a Launch, killed or not, the child keeps the contract of an       *)
(* extension process: in particular it is started and stopped at most once, *)
(* and a child that exits by itself has not left its extension running.     *)
THEOREM ChildKeepsContract == LaunchSpec => ImplementsContract /\ []StopExactlyOnce
<1>1. LaunchInit => Contract!Init
  BY DEF LaunchInit, Init, Contract!Init
<1>2. IInv /\ [LaunchNext]_allVars => [Contract!Next]_(Contract!vars)
  BY ChildSteps, StepRefines
<1>3. IInv => StopExactlyOnce
  BY DEF IInv, StopInv, StopExactlyOnce
<1> QED
  BY <1>1, <1>2, <1>3, LaunchInvariance, PTL
     DEF LaunchSpec, ImplementsContract, Contract!Spec
=============================================================================
