------------------------- MODULE Capabilities_proofs -------------------------
(***************************************************************************)
(* Proofs about Capabilities, for any choice of considered capabilities,   *)
(* any Manifest, any grant and either kind of Core.                        *)
(*                                                                         *)
(* The inductive invariant says what is known at each stage: the four      *)
(* lists of the environment are functions of the Manifest and of what the  *)
(* Core sent (Negotiated), the services and the fields are functions of    *)
(* the first of them (Provided), and an operation that was executed had    *)
(* passed the lookup and both checks, which still hold (Checked).  And the *)
(* variable that the Core sets tells what its Host API allows (Told).      *)
(*                                                                         *)
(* And about TestHost: the Host of a unit test agrees with the process.    *)
(***************************************************************************)
EXTENDS TestHost, TLAPS

Negotiated ==
  stage # "started" =>
    /\ available = Offered \cap processCapabilityClients
    /\ missing = required \ (IF envSet THEN parseCapabilities.caps ELSE required)
    /\ unsupported = Offered \ processCapabilityClients

Provided == stage = "injected" => services = available /\ fields = LegacyFields

Checked ==
  attempt.outcome = "executed" =>
    /\ stage = "injected" /\ attempt.op \in Operation
    /\ HostAllows(attempt.op)
    /\ \E via \in Pair(Needs(attempt.op)) : LookupService(via)

Told == envSet => envNames \cap Capability = hostGrant

IInv == TypeOK /\ Negotiated /\ Provided /\ Checked /\ Told

-----------------------------------------------------------------------------
(* What is offered was asked for and is considered here.                    *)
LEMMA OfferedIsRequested ==
  ASSUME TypeOK
  PROVE  /\ Offered \subseteq requested /\ requested \subseteq Considered
         /\ envNames \cap Capability \subseteq Considered
         /\ envNames \ Capability \subseteq {Future}
<1>1. envNames \subseteq Considered \cup {Future} /\ required \cup optional \subseteq Considered
  BY DEF TypeOK
<1>2. Considered \subseteq Capability /\ Future \notin Capability
  BY ConsideredAssumption, FutureAssumption
<1> QED
  BY <1>1, <1>2 DEF Offered, requested, parseCapabilities

LEMMA InitInv == Init => IInv
<1> SUFFICES ASSUME Init PROVE IInv
  OBVIOUS
<1>1. TypeOK
  BY DEF Init, TypeOK, Outcome
<1>2. Negotiated /\ Provided /\ Checked
  BY DEF Init, Negotiated, Provided, Checked
<1>3. Told
  <2>1. hostGrant \subseteq Capability /\ Future \notin Capability
    BY ConsideredAssumption, FutureAssumption DEF Init
  <2> QED
    BY <2>1 DEF Init, Told
<1> QED
  BY <1>1, <1>2, <1>3 DEF IInv

LEMMA LoadStep ==
  ASSUME IInv, LoadEnvironment
  PROVE  IInv'
<1>1. /\ stage = "started" /\ stage' = "environment"
      /\ UNCHANGED <<manifest, core, context, attempt>>
  BY DEF LoadEnvironment
<1>2. UNCHANGED <<required, optional, envSet, envNames, hostGrant, services, fields, attempt>>
  BY <1>1 DEF manifest, core, context
<1>3. Offered' = Offered /\ parseCapabilities' = parseCapabilities
  BY <1>2 DEF Offered, parseCapabilities, requested
<1>4. TypeOK'
  <2>1. available' \subseteq Considered /\ unsupported' \subseteq Considered
    BY OfferedIsRequested DEF IInv, LoadEnvironment, Unsupported
  <2>2. missing' \subseteq Considered /\ unknown' \subseteq {Future}
    BY OfferedIsRequested DEF IInv, LoadEnvironment, requested, parseCapabilities
  <2> QED
    BY <1>1, <1>2, <2>1, <2>2 DEF IInv, TypeOK
<1>5. Negotiated'
  BY <1>2, <1>3 DEF LoadEnvironment, Negotiated, Unsupported, processCapabilityClients
<1>6. Provided'
  BY <1>1 DEF Provided
<1>7. Checked' /\ Told'
  BY <1>1, <1>2 DEF IInv, Checked, Told
<1> QED
  BY <1>4, <1>5, <1>6, <1>7 DEF IInv

LEMMA InjectStep ==
  ASSUME IInv, NewHostContext
  PROVE  IInv'
<1>1. /\ stage = "environment" /\ stage' = "injected"
      /\ services' = available /\ fields' = LegacyFields
      /\ UNCHANGED <<required, optional, envSet, envNames, hostGrant, available, missing,
                     unsupported, unknown, attempt>>
  BY DEF NewHostContext, Injected, manifest, core, env
<1>2. Offered' = Offered /\ parseCapabilities' = parseCapabilities /\ LegacyFields' = LegacyFields
  BY <1>1 DEF Offered, parseCapabilities, requested, LegacyFields
<1>3. TypeOK'
  <2>1. LegacyFields \subseteq Considered \cup {"config.read"}
    BY DEF IInv, TypeOK, LegacyFields
  <2> QED
    BY <1>1, <2>1 DEF IInv, TypeOK
<1>4. Negotiated'
  BY <1>1, <1>2 DEF IInv, Negotiated, processCapabilityClients
<1>5. Provided'
  BY <1>1, <1>2 DEF Provided
<1>6. Checked' /\ Told'
  BY <1>1 DEF IInv, Checked, Told
<1> QED
  BY <1>3, <1>4, <1>5, <1>6 DEF IInv

LEMMA UseStep ==
  ASSUME IInv, NEW op \in Operation, NEW via \in Pair(Needs(op)), Use(op, via)
  PROVE  IInv'
<1>1. /\ stage = "injected"
      /\ attempt' = [op |-> op, outcome |-> OutcomeOf(op, via)]
      /\ UNCHANGED <<stage, required, optional, envSet, envNames, hostGrant, available, missing,
                     unsupported, unknown, services, fields>>
  BY DEF Use, manifest, core, env, context
<1>2. Offered' = Offered /\ parseCapabilities' = parseCapabilities /\ LegacyFields' = LegacyFields
  BY <1>1 DEF Offered, parseCapabilities, requested, LegacyFields
<1>3. OutcomeOf(op, via) \in Outcome
  BY DEF OutcomeOf, Outcome
<1>4. OutcomeOf(op, via) = "executed" => LookupService(via) /\ HostAllows(op)
  BY DEF OutcomeOf, RequireService
<1>5. TypeOK'
  BY <1>1, <1>3 DEF IInv, TypeOK
<1>6. Negotiated' /\ Provided' /\ Told'
  BY <1>1, <1>2 DEF IInv, Negotiated, Provided, Told, processCapabilityClients
<1>7. Checked'
  <2>1. attempt'.op = op /\ attempt'.outcome = OutcomeOf(op, via)
    BY <1>1
  <2>2. HostAllows(op)' = HostAllows(op) /\ LookupService(via)' = LookupService(via)
    BY <1>1 DEF HostAllows, LookupService
  <2>3. SUFFICES ASSUME attempt'.outcome = "executed"
                 PROVE  /\ stage' = "injected" /\ attempt'.op \in Operation
                        /\ Needs(attempt'.op) \in hostGrant'
                        /\ \E v \in Pair(Needs(attempt'.op)) : v \in services' \/ v \in fields'
    BY Zenon DEF Checked, HostAllows, LookupService
  <2>4. LookupService(via) /\ HostAllows(op)
    BY <1>4, <2>1, <2>3
  <2> QED
    BY <1>1, <2>1, <2>4, Zenon DEF HostAllows, LookupService
<1> QED
  BY <1>5, <1>6, <1>7 DEF IInv

LEMMA Invariance == Spec => []IInv
<1>1. IInv /\ [Next]_vars => IInv'
  <2>1. ASSUME IInv, UNCHANGED vars
        PROVE  IInv'
    <3>1. UNCHANGED <<stage, required, optional, envSet, envNames, hostGrant, available, missing,
                      unsupported, unknown, services, fields, attempt>>
      BY <2>1 DEF vars, manifest, core, env, context
    <3>2. TypeOK'
      BY <2>1, <3>1 DEF IInv, TypeOK
    <3>3. Negotiated' /\ Provided'
      BY <2>1, <3>1 DEF IInv, Negotiated, Provided, Offered, parseCapabilities, requested,
                        LegacyFields, processCapabilityClients
    <3>4. Checked' /\ Told'
      BY <2>1, <3>1 DEF IInv, Checked, Told, HostAllows, LookupService
    <3> QED
      BY <3>2, <3>3, <3>4 DEF IInv
  <2> QED
    BY <2>1, LoadStep, InjectStep, UseStep DEF Next
<1> QED
  BY <1>1, InitInv, PTL DEF Spec

(* Every list keeps to the capabilities there are, and Future stays unknown.*)
THEOREM TypeCorrect == Spec => []TypeOK
BY Invariance, PTL DEF IInv

-----------------------------------------------------------------------------
(* A service that is found is of the pair of a capability that was          *)
(* requested.                                                               *)
LEMMA FoundWasRequested ==
  ASSUME IInv, stage = "injected", NEW c, LookupService(c)
  PROVE  c \in available \/ (c = "config.read" /\ "config.write" \in available)
<1>1. services = available /\ fields = LegacyFields
  BY DEF IInv, Provided
<1> QED
  BY <1>1 DEF LookupService, LegacyFields

\* A pair is the same from either half.
LEMMA HalvesOfAPair ==
  ASSUME NEW op \in Operation, NEW via \in Pair(Needs(op)), via = "config.read"
  PROVE  "config.write" \in Pair(Needs(op))
BY DEF Operation, Needs, Pair

(* The Host executes an operation only under the granted capability that    *)
(* names it, and only if the Manifest declares it or the other half of its  *)
(* pair, whichever service the extension looked up.                         *)
THEOREM GrantIsNeeded == Spec => []OnlyGrantedIsExecuted
<1>1. ASSUME IInv
      PROVE  OnlyGrantedIsExecuted
  <2> SUFFICES ASSUME attempt.outcome = "executed"
               PROVE  /\ Needs(attempt.op) \in hostGrant
                      /\ Pair(Needs(attempt.op)) \cap requested # {}
    BY DEF OnlyGrantedIsExecuted
  <2>1. /\ stage = "injected" /\ Needs(attempt.op) \in hostGrant
        /\ attempt.op \in Operation
    BY <1>1 DEF IInv, Checked, HostAllows
  <2>2. PICK via \in Pair(Needs(attempt.op)) : LookupService(via)
    BY <1>1 DEF IInv, Checked
  <2>3. available \subseteq requested
    BY <1>1, <2>1, OfferedIsRequested DEF IInv, Negotiated
  <2>5. \E c \in Pair(Needs(attempt.op)) : c \in available
    <3>1. via \in available \/ (via = "config.read" /\ "config.write" \in available)
      BY <1>1, <2>1, <2>2, FoundWasRequested
    <3>2. via = "config.read" => "config.write" \in Pair(Needs(attempt.op))
      BY <2>1, <2>2, HalvesOfAPair
    <3> QED
      BY <2>2, <3>1, <3>2
  <2> QED
    BY <2>1, <2>3, <2>5
<1> QED
  BY <1>1, Invariance, PTL

(* Every required capability is usable, missing or unsupported, and only    *)
(* one of these.                                                            *)
THEOREM RequirementsAreAccounted == Spec => []EveryRequirementAccounted
<1>1. ASSUME IInv
      PROVE  EveryRequirementAccounted
  <2> SUFFICES ASSUME stage # "started", NEW c \in required
               PROVE  /\ c \in available \cup missing \cup unsupported
                      /\ c \in missing => c \notin available \cup unsupported
                      /\ c \in unsupported => c \notin available
    BY DEF EveryRequirementAccounted
  <2>1. /\ available = Offered \cap processCapabilityClients
        /\ missing = required \ (IF envSet THEN parseCapabilities.caps ELSE required)
        /\ unsupported = Offered \ processCapabilityClients
    BY <1>1 DEF IInv, Negotiated
  <2>2. c \in Offered <=> c \notin missing
    BY <2>1 DEF Offered, requested
  <2> QED
    BY <2>1, <2>2
<1> QED
  BY <1>1, Invariance, PTL

(* What was reported at the start is what an operation meets: available is  *)
(* carried out, or denied by a Core that did not tell its grant; missing or *)
(* unsupported is carried out by no service.                                *)
THEOREM ReportsAreTrue == Spec => []ReportsMatchOutcomes
<1>1. ASSUME IInv
      PROVE  ReportsMatchOutcomes
  <2> SUFFICES ASSUME stage = "injected", NEW op \in Operation
               PROVE  /\ Needs(op) \in available =>
                           \/ OutcomeOf(op, Needs(op)) = "executed"
                           \/ ~envSet /\ OutcomeOf(op, Needs(op)) = "denied"
                      /\ Needs(op) \in missing \cup unsupported =>
                           \A via \in Pair(Needs(op)) : OutcomeOf(op, via) # "executed"
    BY DEF ReportsMatchOutcomes
  <2>1. /\ available = Offered \cap processCapabilityClients
        /\ missing = required \ (IF envSet THEN parseCapabilities.caps ELSE required)
        /\ unsupported = Offered \ processCapabilityClients
        /\ services = available /\ fields = LegacyFields
    BY <1>1 DEF IInv, Negotiated, Provided
  <2>2. envSet => parseCapabilities.caps = hostGrant
    BY <1>1 DEF IInv, Told, parseCapabilities
  <2>3. ASSUME Needs(op) \in available
        PROVE  OutcomeOf(op, Needs(op)) = "executed" \/ (~envSet /\ OutcomeOf(op, Needs(op)) = "denied")
    <3>1. HasMethod(op, Needs(op))
      BY DEF HasMethod, Needs
    <3>2. LookupService(Needs(op)) /\ ServiceAllows(op)
      BY <2>1, <2>3 DEF LookupService, ServiceAllows
    <3>3. envSet => HostAllows(op)
      BY <2>1, <2>2, <2>3 DEF HostAllows, Offered
    <3>4. OutcomeOf(op, Needs(op)) = IF HostAllows(op) THEN "executed" ELSE "denied"
      BY <3>1, <3>2 DEF OutcomeOf, RequireService
    <3> QED
      BY <3>3, <3>4
  <2>4. ASSUME Needs(op) \in missing
        PROVE  ~HostAllows(op)
    BY <2>1, <2>2, <2>4 DEF HostAllows
  <2>5. ASSUME Needs(op) \in unsupported, NEW via \in Pair(Needs(op))
        PROVE  ~LookupService(via)
    <3>1. Needs(op) = "secret.ref" /\ "secret.ref" \notin available
      <4>1. Needs(op) \in Capability
        BY DEF Operation, Needs, Capability
      <4> QED
        BY <2>1, <2>5, <4>1 DEF processCapabilityClients
    <3>2. via = "secret.ref"
      BY <3>1 DEF Pair
    <3> QED
      BY <2>1, <3>1, <3>2 DEF LookupService, LegacyFields
  <2> QED
    BY <2>3, <2>4, <2>5 DEF OutcomeOf, RequireService
<1> QED
  BY <1>1, Invariance, PTL

-----------------------------------------------------------------------------
(***************************************************************************)
(* The Host of a unit test.  Once built, the resolver is the one that the  *)
(* options recorded so far give: no option is applied after that, and none *)
(* is lost before.                                                         *)
(***************************************************************************)
TestInv ==
  /\ config \in {"none", "readOnly", "writable"}
  /\ fakes \subseteq Fakeable
  /\ resolver \in {NotBuilt, buildResolver}

LEMMA TestInvInit == TestInit => TestInv
BY DEF TestInit, TestInv

LEMMA TestInvStep ==
  ASSUME TestInv, [TestNext]_testVars
  PROVE  TestInv'
<1>1. ASSUME NEW option \in Options, Apply(option)
      PROVE  TestInv'
  <2>1. resolver' = NotBuilt
    BY <1>1 DEF Apply
  <2>2. NotBuilt' = NotBuilt
    BY DEF NotBuilt
  <2>3. option \notin {"WithConfig", "WithWritableConfig"} => Records(option) \in Fakeable
    BY DEF Options, Records, Fakeable
  <2>4. config' \in {"none", "readOnly", "writable"} /\ fakes' \subseteq Fakeable
    BY <1>1, <2>3 DEF Apply, TestInv
  <2> QED
    BY <2>1, <2>2, <2>4 DEF TestInv
<1>2. CASE NewHost
  <2>1. resolver' = buildResolver /\ UNCHANGED <<config, fakes>>
    BY <1>2 DEF NewHost
  <2>2. buildResolver' = buildResolver
    BY <2>1 DEF buildResolver, ConfigService, MCPService, ResultService
  <2> QED
    BY <2>1, <2>2 DEF TestInv
<1>3. CASE UNCHANGED testVars
  <2>1. UNCHANGED <<config, fakes, resolver>>
    BY <1>3 DEF testVars
  <2>2. buildResolver' = buildResolver /\ NotBuilt' = NotBuilt
    BY <2>1 DEF buildResolver, ConfigService, MCPService, ResultService, NotBuilt
  <2> QED
    BY <2>1, <2>2 DEF TestInv
<1> QED
  BY <1>1, <1>2, <1>3 DEF TestNext

(* What the resolver of the test holds, capability by capability.           *)
LEMMA Resolved ==
  ASSUME TestInv, resolver = buildResolver
  PROVE  /\ resolver["kafka.read"] = IF "kafka.read" \in fakes THEN "whole" ELSE "none"
         /\ resolver["config.read"] =
              IF config = "none" THEN "none" ELSE IF config = "writable" THEN "whole" ELSE "half"
         /\ resolver["config.write"] = IF config = "writable" THEN "whole" ELSE "none"
         /\ resolver["mcp.read"] = MCPService("mcp.read")
         /\ resolver["mcp.call"] = MCPService("mcp.call")
         /\ resolver["result.write"] = ResultService("result.write")
         /\ resolver["result.read"] = ResultService("result.read")
<1>1. ASSUME NEW c \in Served
      PROVE  resolver[c] = CASE c \in {"config.read", "config.write"}  -> ConfigService(c)
                             [] c \in {"mcp.read", "mcp.call"}         -> MCPService(c)
                             [] c \in {"result.write", "result.read"}  -> ResultService(c)
                             [] OTHER -> IF c \in fakes THEN "whole" ELSE "none"
  BY DEF buildResolver
<1>2. {"kafka.read", "config.read", "config.write", "mcp.read", "mcp.call",
       "result.write", "result.read"} \subseteq Served
  BY DEF Served, Fakeable
<1>3. config \in {"none", "readOnly", "writable"}
  BY DEF TestInv
<1>4. ConfigService("config.read") =
        IF config = "none" THEN "none" ELSE IF config = "writable" THEN "whole" ELSE "half"
  BY <1>3 DEF ConfigService
<1>5. ConfigService("config.write") = IF config = "writable" THEN "whole" ELSE "none"
  BY <1>3 DEF ConfigService
<1> QED
  BY <1>1, <1>2, <1>4, <1>5

\* What the capabilities of a test come to in an extension process.
LEMMA Granted ==
  ASSUME TestInv
  PROVE  /\ "config.read" \in Grants <=> config # "none"
         /\ "config.write" \in Grants <=> config = "writable"
         /\ \A c \in Fakeable : c \in Grants <=> c \in fakes
<1>1. config \in {"none", "readOnly", "writable"} /\ fakes \subseteq Fakeable
  BY DEF TestInv
<1>2. CASE config = "none"
  BY <1>1, <1>2 DEF Grants, Fakeable
<1>3. CASE config = "readOnly"
  BY <1>1, <1>3 DEF Grants, Fakeable
<1>4. CASE config = "writable"
  BY <1>1, <1>4 DEF Grants, Fakeable
<1> QED
  BY <1>1, <1>2, <1>3, <1>4

\* There, an operation is executed if its service is found, has it, and it is
\* granted.
LEMMA ExecutedInProcess ==
  ASSUME NEW op \in Process!Operation, NEW via, op # "ResolveSecret"
  PROVE  Process!OutcomeOf(op, via) = "executed" <=>
           Process!LookupService(via) /\ Process!HasMethod(op, via) /\ Process!Needs(op) \in Grants
<1>1. Process!OutcomeOf(op, via) = "executed" <=>
        /\ Process!LookupService(via) /\ Process!HasMethod(op, via)
        /\ Process!ServiceAllows(op) /\ Process!HostAllows(op)
  BY DEF Process!OutcomeOf, Process!RequireService
<1>2. Process!Needs(op) # "secret.ref"
  BY DEF Process!Operation, Process!Needs
<1> QED
  BY <1>1, <1>2 DEF Process!ServiceAllows, Process!HostAllows, Usable

LEMMA FoundInProcess ==
  ASSUME NEW via
  PROVE  Process!LookupService(via) <=>
           \/ via \in Grants /\ via # "secret.ref"
           \/ via = "config.read" /\ "config.write" \in Grants
BY DEF Process!LookupService, Usable

LEMMA Agreement ==
  ASSUME TestInv, resolver = buildResolver,
         NEW op \in Process!Operation, NEW via \in Process!Pair(Process!Needs(op)),
         op # "ResolveSecret",
         ~(op = "ListMCPTools" /\ via = "mcp.call" /\ "mcp.read" \notin Grants),
         ~(op = "GetConfig" /\ via = "config.write" /\ config = "writable")
  PROVE  TestOutcome(op, via) = "executed" <=> Process!OutcomeOf(op, via) = "executed"
<1> DEFINE found == Process!LookupService(via)
           needs == Process!Needs(op)
           has == Process!HasMethod(op, via)
<1>1. Process!OutcomeOf(op, via) = "executed" <=> found /\ has /\ needs \in Grants
  BY ExecutedInProcess
<1>0. has <=> ~(op = "GetConfig" /\ via = "config.write")
  BY DEF Process!HasMethod
<1>2. found <=> \/ via \in Grants /\ via # "secret.ref"
                \/ via = "config.read" /\ "config.write" \in Grants
  BY FoundInProcess
<1>3. ASSUME resolver[via] \in {"none", "half", "whole"}
      PROVE  TestOutcome(op, via) = "executed" <=>
               resolver[via] = "whole" \/ (resolver[via] = "half" /\ needs = via)
  BY <1>3 DEF TestOutcome
<1> HIDE DEF found, needs, has
<1>4. CASE op = "ListTopics"
  <2>1. via = "kafka.read" /\ needs = "kafka.read"
    BY <1>4 DEF Process!Pair, Process!Needs, needs
  <2>2. resolver[via] = (IF "kafka.read" \in fakes THEN "whole" ELSE "none")
    BY <2>1, Resolved
  <2> QED
    BY <1>1, <1>2, <1>3, <1>4, <1>0, <2>1, <2>2, Granted DEF Fakeable
<1>5. CASE op = "GetConfig"
  <2>1. via \in {"config.read", "config.write"} /\ needs = "config.read"
    BY <1>5 DEF Process!Pair, Process!Needs, needs
  <2>2. CASE via = "config.read"
    <3>1. resolver[via] = IF config = "none" THEN "none" ELSE IF config = "writable" THEN "whole" ELSE "half"
      BY <2>2, Resolved
    <3> QED
      BY <1>1, <1>2, <1>3, <1>5, <1>0, <2>1, <2>2, <3>1, Granted
  <2>3. CASE via = "config.write"
    <3>1. config # "writable" /\ resolver[via] = "none"
      BY <1>5, <2>3, Resolved
    <3>2. ~has
      BY <1>5, <1>0, <2>3
    <3> QED
      BY <1>1, <1>3, <3>1, <3>2
  <2> QED
    BY <2>1, <2>2, <2>3
<1>6. CASE op = "SetConfig"
  <2>1. via \in {"config.read", "config.write"} /\ needs = "config.write"
    BY <1>6 DEF Process!Pair, Process!Needs, needs
  <2>2. CASE via = "config.read"
    <3>1. resolver[via] = IF config = "none" THEN "none" ELSE IF config = "writable" THEN "whole" ELSE "half"
      BY <2>2, Resolved
    <3> QED
      BY <1>1, <1>2, <1>3, <1>6, <1>0, <2>1, <2>2, <3>1, Granted
  <2>3. CASE via = "config.write"
    <3>1. resolver[via] = IF config = "writable" THEN "whole" ELSE "none"
      BY <2>3, Resolved
    <3> QED
      BY <1>1, <1>2, <1>3, <1>6, <1>0, <2>1, <2>3, <3>1, Granted
  <2> QED
    BY <2>1, <2>2, <2>3
<1>7. CASE op \in {"ListMCPTools", "CallMCPTool"}
  <2>1. via \in {"mcp.read", "mcp.call"}
        /\ needs = IF op = "CallMCPTool" THEN "mcp.call" ELSE "mcp.read"
    BY <1>7 DEF Process!Pair, Process!Needs, needs
  <2>2. resolver[via] = IF via \notin fakes THEN "none"
                        ELSE IF via = "mcp.call" \/ "mcp.call" \in fakes THEN "whole" ELSE "half"
    BY <2>1, Resolved DEF MCPService
  <2>3. \A c \in {"mcp.read", "mcp.call"} : c \in Grants <=> c \in fakes
    BY Granted DEF Fakeable
  <2> QED
    BY <1>1, <1>2, <1>3, <1>7, <1>0, <2>1, <2>2, <2>3
<1>8. CASE op \in {"PutResult", "ReadResult"}
  <2>1. via \in {"result.read", "result.write"}
        /\ needs = IF op = "PutResult" THEN "result.write" ELSE "result.read"
    BY <1>8 DEF Process!Pair, Process!Needs, needs
  <2>2. resolver[via] = IF via \notin fakes THEN "none"
                        ELSE IF {"result.write", "result.read"} \subseteq fakes THEN "whole" ELSE "half"
    BY <2>1, Resolved DEF ResultService
  <2>3. \A c \in {"result.write", "result.read"} : c \in Grants <=> c \in fakes
    BY Granted DEF Fakeable
  <2> QED
    BY <1>1, <1>2, <1>3, <1>8, <1>0, <2>1, <2>2, <2>3
<1> QED
  BY <1>4, <1>5, <1>6, <1>7, <1>8 DEF Process!Operation

(* Whatever options a test gave, in whatever order, its Host executes the   *)
(* operations that an installed extension with the same capabilities could  *)
(* have executed, and no others but for the three exceptions.               *)
THEOREM TestsAgree == TestSpec => []TestHostAgrees
<1>1. ASSUME TestInv
      PROVE  TestHostAgrees
  <2> SUFFICES ASSUME resolver # NotBuilt,
                      NEW op \in Process!Operation,
                      NEW via \in Process!Pair(Process!Needs(op)),
                      op # "ResolveSecret",
                      ~(op = "ListMCPTools" /\ via = "mcp.call" /\ "mcp.read" \notin Grants),
                      ~(op = "GetConfig" /\ via = "config.write" /\ config = "writable")
               PROVE  TestOutcome(op, via) = "executed" <=> Process!OutcomeOf(op, via) = "executed"
    BY DEF TestHostAgrees
  <2>1. resolver = buildResolver
    BY <1>1 DEF TestInv
  <2> QED
    BY <1>1, <2>1, Agreement
<1> QED
  BY <1>1, TestInvInit, TestInvStep, PTL DEF TestSpec
====
