---------------------------- MODULE Capabilities ----------------------------
(***************************************************************************)
(* From a declared capability to an operation of the Host: the Manifest    *)
(* asks, the Core grants through ABLEOPS_EXT_CAPABILITIES (an older Core   *)
(* does not set it), loadEnvironment negotiates, newHostContext injects    *)
(* services, the extension looks one up and calls it, the service and then *)
(* the Host check once more.                                               *)
(*                                                                         *)
(* Names are all that matters here: the order and the repetitions of the   *)
(* lists, and what the operations do, are left out.                        *)
(***************************************************************************)

CONSTANTS
  Considered,   \* the capabilities this instance is about
  Future        \* a name this SDK does not know

Capability ==
  {"kafka.read", "cluster.read", "workflow.submit", "audit.write", "config.read",
   "config.write", "secret.ref", "mcp.read", "mcp.call", "metrics.write",
   "host.metadata", "secret.use", "embedding.invoke", "result.write", "result.read"}

ASSUME ConsideredAssumption == Considered \subseteq Capability
ASSUME FutureAssumption == Future \notin Capability

VARIABLES
  stage,       \* "started", "environment", "injected"
  required,    \* Manifest.Capabilities
  optional,    \* Manifest.OptionalCapabilities
  envSet,      \* whether the Core set the environment variable
  envNames,    \* the names in it
  hostGrant,   \* what the Core's Host API allows this extension
  available,   \* Environment.Capabilities
  missing,     \* Environment.MissingCapabilities
  unsupported, \* Environment.UnsupportedCapabilities
  unknown,     \* Environment.UnknownCapabilities
  services,    \* the keys of HostContext.Services
  fields,      \* the capabilities of the HostContext fields that are not nil
  attempt      \* the latest operation and what came of it

manifest == <<required, optional>>
core     == <<envSet, envNames, hostGrant>>
env      == <<available, missing, unsupported, unknown>>
context  == <<services, fields>>
vars     == <<stage, manifest, core, env, context, attempt>>

requested == required \cup optional

-----------------------------------------------------------------------------
(***************************************************************************)
(* Operations of the services that two capabilities share, and of one that *)
(* is there for itself.  "needs" is the capability that names an           *)
(* operation; it may be tried on the service of either half of a pair.     *)
(***************************************************************************)
Operation ==
  {"ListTopics", "GetConfig", "SetConfig", "ListMCPTools", "CallMCPTool",
   "PutResult", "ReadResult", "ResolveSecret"}

Needs(op) ==
  CASE op = "ListTopics"    -> "kafka.read"
    [] op = "GetConfig"     -> "config.read"
    [] op = "SetConfig"     -> "config.write"
    [] op = "ListMCPTools"  -> "mcp.read"
    [] op = "CallMCPTool"   -> "mcp.call"
    [] op = "PutResult"     -> "result.write"
    [] op = "ReadResult"    -> "result.read"
    [] op = "ResolveSecret" -> "secret.ref"

\* Capabilities that come with one another's service.
Pair(c) ==
  CASE c \in {"config.read", "config.write"} -> {"config.read", "config.write"}
    [] c \in {"mcp.read", "mcp.call"}        -> {"mcp.read", "mcp.call"}
    [] c \in {"result.read", "result.write"} -> {"result.read", "result.write"}
    [] OTHER                                 -> {c}

\* RequireService asserts the type: the service of either half has the methods
\* of both, but for the writer that is found under config.write.
HasMethod(op, via) == ~(op = "GetConfig" /\ via = "config.write")

Outcome == {"none", "unavailable", "refused", "denied", "executed"}

TypeOK ==
  /\ stage \in {"started", "environment", "injected"}
  /\ required \subseteq Considered /\ optional \subseteq Considered
  /\ envSet \in BOOLEAN /\ envNames \subseteq Considered \cup {Future}
  /\ hostGrant \subseteq Considered
  /\ available \subseteq Considered /\ missing \subseteq Considered
  /\ unsupported \subseteq Considered /\ unknown \subseteq {Future}
  /\ services \subseteq Considered /\ fields \subseteq Considered \cup {"config.read"}
  /\ attempt \in [op : Operation \cup {"none"}, outcome : Outcome]

\* A Core that sets the variable puts there what its Host API allows; what an
\* older one allows is not known to the extension.
Init ==
  /\ stage = "started"
  /\ required \in SUBSET Considered
  /\ optional \in SUBSET (Considered \ required)
  /\ hostGrant \in SUBSET Considered
  /\ \/ envSet = TRUE /\ envNames \in {hostGrant, hostGrant \cup {Future}}
     \/ envSet = FALSE /\ envNames = {}
  /\ available = {} /\ missing = {} /\ unsupported = {} /\ unknown = {}
  /\ services = {} /\ fields = {}
  /\ attempt = [op |-> "none", outcome |-> "none"]

-----------------------------------------------------------------------------
(***************************************************************************)
(* loadEnvironment.                                                        *)
(***************************************************************************)
parseCapabilities == [caps |-> envNames \cap Capability, unknown |-> envNames \ Capability]

\* The capabilities the process protocol has a client for: all but secret.ref.
processCapabilityClients == Capability \ {"secret.ref"}

\* Fault: what the Core put in the variable is not looked at.
Offered_Requested == requested

\* What may be used if there is a client for it.  Without the variable it is
\* what the Manifest requires; an optional capability needs a Core that says so.
Offered == IF envSet THEN parseCapabilities.caps \cap requested ELSE required

\* Fault: the capabilities without a client are not reported.
Unsupported_Silent(offered) == {}

Unsupported(offered) == offered \ processCapabilityClients

LoadEnvironment ==
  /\ stage = "started" /\ stage' = "environment"
  /\ available' = Offered \cap processCapabilityClients
  /\ missing' = required \ (IF envSet THEN parseCapabilities.caps ELSE required)
  /\ unsupported' = Unsupported(Offered)
  /\ unknown' = parseCapabilities.unknown
  /\ UNCHANGED <<manifest, core, context, attempt>>

-----------------------------------------------------------------------------
(***************************************************************************)
(* newHostContext, LookupService.                                          *)
(***************************************************************************)

\* The resolver holds an entry for each available capability and no other.
Injected == available

\* The fields of the first version; Config is there for either capability.
LegacyFields ==
  (available \cap {"kafka.read", "cluster.read", "workflow.submit", "audit.write"})
    \cup (IF available \cap {"config.read", "config.write"} # {} THEN {"config.read"} ELSE {})

NewHostContext ==
  /\ stage = "environment" /\ stage' = "injected"
  /\ services' = Injected
  /\ fields' = LegacyFields
  /\ UNCHANGED <<manifest, core, env, attempt>>

\* The resolver first, then the fields.
LookupService(c) == c \in services \/ c \in fields

\* RequireService[T]: found, and of the type that has the operation.
RequireService(op, via) == LookupService(via) /\ HasMethod(op, via)

-----------------------------------------------------------------------------
(***************************************************************************)
(* One operation.                                                          *)
(***************************************************************************)

\* The checks the services make before a call: canWrite, canCall, canRead.
ServiceAllows(op) ==
  op \in {"SetConfig", "CallMCPTool", "PutResult", "ReadResult"} => Needs(op) \in available

\* Fault: the Host trusts the checks of the SDK.
HostAllows_Trusts(op) == TRUE

\* grantedCap, in each handler of the Host.
HostAllows(op) == Needs(op) \in hostGrant

OutcomeOf(op, via) ==
  CASE ~RequireService(op, via)                      -> "unavailable"
    [] RequireService(op, via) /\ ~ServiceAllows(op) -> "refused"
    [] RequireService(op, via) /\ ServiceAllows(op)  -> IF HostAllows(op) THEN "executed" ELSE "denied"

Use(op, via) ==
  /\ stage = "injected"
  /\ attempt' = [op |-> op, outcome |-> OutcomeOf(op, via)]
  /\ UNCHANGED <<stage, manifest, core, env, context>>

Next ==
  \/ LoadEnvironment
  \/ NewHostContext
  \/ \E op \in Operation : \E via \in Pair(Needs(op)) : Use(op, via)

Spec == Init /\ [][Next]_vars

-----------------------------------------------------------------------------
(***************************************************************************)
(* Properties.                                                             *)
(***************************************************************************)

(* Whichever service the extension got hold of, the Host executes an        *)
(* operation only under the capability that names it, granted by the Core:  *)
(* the read half of a pair never opens the other half.  And what the Core   *)
(* grants beyond the Manifest cannot be used, except for the other half of  *)
(* a pair the Manifest declares one half of.                                *)
OnlyGrantedIsExecuted ==
  attempt.outcome = "executed" =>
    /\ Needs(attempt.op) \in hostGrant
    /\ Pair(Needs(attempt.op)) \cap requested # {}

(* Every required capability is accounted for: usable, or reported as       *)
(* missing or as unsupported, for exactly one of these reasons.             *)
EveryRequirementAccounted ==
  stage # "started" => \A c \in required :
    /\ c \in available \cup missing \cup unsupported
    /\ c \in missing => c \notin available \cup unsupported
    /\ c \in unsupported => c \notin available

(* What loadEnvironment reports is what an extension then meets, in three   *)
(* later places.  An operation whose capability is reported as available is *)
(* carried out; only with an older Core, which does not say what it grants, *)
(* may the Host still deny it.  One whose capability is reported as missing *)
(* or unsupported is carried out by no service at all: neither that of the  *)
(* other half of a pair, which has the method, nor the Config field that a  *)
(* write-only extension gets (hostclient.go:688-692).                       *)
ReportsMatchOutcomes ==
  stage = "injected" => \A op \in Operation :
    /\ Needs(op) \in available =>
         OutcomeOf(op, Needs(op)) = "executed" \/ (~envSet /\ OutcomeOf(op, Needs(op)) = "denied")
    /\ Needs(op) \in missing \cup unsupported =>
         \A via \in Pair(Needs(op)) : OutcomeOf(op, via) # "executed"

=============================================================================
