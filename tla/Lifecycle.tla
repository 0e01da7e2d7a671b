------------------------------- MODULE Lifecycle -------------------------------
(***************************************************************************)
(* lifecycle.go: the states of an installed extension.  The Core owns the  *)
(* state (it is not part of this repository): it moves it only where       *)
(* CanTransition allows, and reads it back through NormalizeState when it  *)
(* starts again.                                                           *)
(***************************************************************************)
CONSTANT Garbage   \* stored texts that are not a state

AllStates == {"NOT_INSTALLED", "INSTALLED", "DISABLED", "STARTING", "RUNNING",
              "DEGRADED", "FAILED", "INCOMPATIBLE", "UPDATING"}

ASSUME GarbageAssumption == Garbage \cap AllStates = {}

VARIABLES
  state,      \* what the Core holds
  stored,     \* what its database, or an older package, says of it
  verified    \* history: started or updated since it was last at rest

lifecycleVars == <<state, stored, verified>>

Serving == {"RUNNING", "DEGRADED"}
Moving  == {"STARTING", "UPDATING"}

LifecycleInit == state = "NOT_INSTALLED" /\ stored = "NOT_INSTALLED" /\ verified = FALSE

allowedTransitions(from) ==
  CASE from = "NOT_INSTALLED" -> {"INSTALLED", "FAILED", "INCOMPATIBLE"}
    [] from = "INSTALLED" -> {"STARTING", "DISABLED", "UPDATING", "NOT_INSTALLED", "FAILED", "INCOMPATIBLE"}
    [] from = "DISABLED" -> {"STARTING", "INSTALLED", "UPDATING", "NOT_INSTALLED", "FAILED"}
    [] from = "STARTING" -> {"RUNNING", "DEGRADED", "FAILED", "DISABLED", "INCOMPATIBLE"}
    [] from = "RUNNING" -> {"DEGRADED", "DISABLED", "FAILED", "UPDATING", "INCOMPATIBLE"}
    [] from = "DEGRADED" -> {"RUNNING", "STARTING", "DISABLED", "FAILED", "UPDATING"}
    [] from = "FAILED" -> {"STARTING", "INSTALLED", "DISABLED", "UPDATING", "NOT_INSTALLED"}
    [] from = "INCOMPATIBLE" -> {"UPDATING", "INSTALLED", "DISABLED", "NOT_INSTALLED", "FAILED"}
    [] from = "UPDATING" -> {"INSTALLED", "STARTING", "RUNNING", "DEGRADED", "DISABLED", "FAILED", "INCOMPATIBLE"}

CanTransition(from, to) ==
  from \in AllStates /\ to \in AllStates /\ (from = to \/ to \in allowedTransitions(from))

\* Fault: what cannot be read is taken for the state of a working extension.
NormalizeState_Trusts(text) == IF text \in AllStates THEN text ELSE "RUNNING"

NormalizeState(text) == IF text \in AllStates THEN text ELSE "FAILED"

IsHealthy(s) == s = "RUNNING"

-----------------------------------------------------------------------------
Enter(to) ==
  /\ state' = to
  /\ verified' = (to \in Moving \/ (to \in Serving /\ verified))

\* A transition the table allows; the Core refuses any other.
Transition(to) ==
  /\ CanTransition(state, to)
  /\ Enter(to)
  /\ stored' = to

\* What is stored becomes unreadable: written by another version, or damaged.
Corrupt == \E text \in Garbage : stored' = text /\ UNCHANGED <<state, verified>>

\* The Core starts again, with the state it can read.
Restart == Enter(NormalizeState(stored)) /\ UNCHANGED stored

LifecycleNext == (\E to \in AllStates : Transition(to)) \/ Corrupt \/ Restart

LifecycleSpec == LifecycleInit /\ [][LifecycleNext]_lifecycleVars

-----------------------------------------------------------------------------
(* An extension counts as healthy only if it has been started or updated    *)
(* since it was last at rest (not installed, installed, disabled, failed or *)
(* incompatible), along any path of reports and however often the Core was  *)
(* restarted on whatever it finds stored (lifecycle.go:109 and :63-68).     *)
RunningWasVerified == IsHealthy(state) => verified
=============================================================================
