------------------------------- MODULE TestHost -------------------------------
(***************************************************************************)
(* testkit.NewHost: the HostContext a unit test gives an extension.        *)
(* Options record fakes in any order and any number of times, and          *)
(* buildResolver makes the services of what was recorded.  Each fake of a  *)
(* service that two capabilities share is wrapped, or not, so that the     *)
(* other half is refused.  WithService puts in anything, WithIdentity and  *)
(* WithLogger no service: they are left out.                               *)
(***************************************************************************)
EXTENDS Capabilities

Options ==
  {"WithKafka", "WithConfig", "WithWritableConfig", "WithSecrets", "WithMCPRead",
   "WithMCPCall", "WithResultWrite", "WithResultRead"}

VARIABLES
  given,      \* history: the options applied
  config,     \* Host.Config: "none", "readOnly", "writable"
  fakes,      \* the other fakes and extra services recorded, by capability
  resolver    \* capability -> kind of service, or NotBuilt

testVars == <<given, config, fakes, resolver>>

Fakeable == {"kafka.read", "secret.ref", "mcp.read", "mcp.call", "result.write", "result.read"}
Served == Fakeable \cup {"config.read", "config.write"}

NotBuilt == [c \in Served |-> "notBuilt"]

TestInit ==
  given = {} /\ config = "none" /\ fakes = {} /\ resolver = NotBuilt

Records(option) ==
  CASE option = "WithKafka"       -> "kafka.read"
    [] option = "WithSecrets"     -> "secret.ref"
    [] option = "WithMCPRead"     -> "mcp.read"
    [] option = "WithMCPCall"     -> "mcp.call"
    [] option = "WithResultWrite" -> "result.write"
    [] option = "WithResultRead"  -> "result.read"

\* The later of the two options for the configuration decides.
Apply(option) ==
  /\ resolver = NotBuilt
  /\ given' = given \cup {option}
  /\ \/ option = "WithConfig" /\ config' = "readOnly" /\ UNCHANGED fakes
     \/ option = "WithWritableConfig" /\ config' = "writable" /\ UNCHANGED fakes
     \/ /\ option \notin {"WithConfig", "WithWritableConfig"}
        /\ fakes' = fakes \cup {Records(option)} /\ UNCHANGED config
  /\ UNCHANGED resolver

\* Fault: the results of a read-only test can be written.
ResultService_Whole(c) == IF c \in fakes THEN "whole" ELSE "none"

ResultService(c) ==
  IF c \notin fakes THEN "none"
  ELSE IF {"result.write", "result.read"} \subseteq fakes THEN "whole" ELSE "half"

\* The service recorded for mcp.read is replaced by that of mcp.call, if any.
MCPService(c) ==
  IF c \notin fakes THEN "none"
  ELSE IF c = "mcp.call" \/ "mcp.call" \in fakes THEN "whole" ELSE "half"

ConfigService(c) ==
  CASE config = "none"     -> "none"
    [] config = "writable" -> "whole"
    [] config = "readOnly" -> IF c = "config.read" THEN "half" ELSE "none"

buildResolver ==
  [c \in Served |->
     CASE c \in {"config.read", "config.write"}  -> ConfigService(c)
       [] c \in {"mcp.read", "mcp.call"}         -> MCPService(c)
       [] c \in {"result.write", "result.read"}  -> ResultService(c)
       [] OTHER -> IF c \in fakes THEN "whole" ELSE "none"]

NewHost ==
  /\ resolver = NotBuilt
  /\ resolver' = buildResolver
  /\ UNCHANGED <<given, config, fakes>>

TestNext == (\E option \in Options : Apply(option)) \/ NewHost

TestSpec == TestInit /\ [][TestNext]_testVars

-----------------------------------------------------------------------------
\* The capabilities a test says its extension has.
Grants ==
  fakes \cup (CASE config = "none" -> {} [] config = "readOnly" -> {"config.read"}
                [] config = "writable" -> {"config.read", "config.write"})

\* An extension process whose Manifest requires them and whose Core grants them.
Usable == Grants \ {"secret.ref"}

Process ==
  INSTANCE Capabilities WITH
    stage <- "injected", required <- Grants, optional <- {}, envSet <- TRUE, envNames <- Grants,
    hostGrant <- Grants, available <- Usable, missing <- {}, unsupported <- Grants \cap {"secret.ref"},
    unknown <- {}, services <- Usable,
    fields <- (Usable \cap {"kafka.read", "config.read"}) \cup
              (IF "config.write" \in Usable THEN {"config.read"} ELSE {}),
    attempt <- [op |-> "none", outcome |-> "none"]

\* A whole fake has every method of the pair under either name, also those the
\* process hides behind a narrower type; half of one answers for its own name.
TestOutcome(op, via) ==
  CASE resolver[via] = "none"                               -> "unavailable"
    [] resolver[via] = "whole"                              -> "executed"
    [] resolver[via] = "half" -> IF Process!Needs(op) = via THEN "executed" ELSE "refused"

(* What an extension can do in a unit test it can do once installed with    *)
(* the same capabilities, and the other way round, whatever the order of    *)
(* the options and however often each was given (testkit/host.go:52-54: a   *)
(* test must not pass on what would fail once installed).  The code makes   *)
(* three exceptions: secret.ref, which no process has a client for; listing *)
(* the MCP tools with mcp.call alone, which the fake allows and the Host    *)
(* denies; and Get on the service of config.write, which in a test is the   *)
(* whole FakeConfig (host.go:88-92) and in a process a writer without Get.  *)
TestHostAgrees ==
  resolver # NotBuilt =>
    \A op \in Process!Operation : \A via \in Process!Pair(Process!Needs(op)) :
      \/ op = "ResolveSecret"
      \/ op = "ListMCPTools" /\ via = "mcp.call" /\ "mcp.read" \notin Grants
      \/ op = "GetConfig" /\ via = "config.write" /\ config = "writable"
      \/ TestOutcome(op, via) = "executed" <=> Process!OutcomeOf(op, via) = "executed"

=============================================================================
