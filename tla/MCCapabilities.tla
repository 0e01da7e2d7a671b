--------------------------- MODULE MCCapabilities ---------------------------
(***************************************************************************)
(* Model-checking instance of Capabilities: the two pairs of capabilities  *)
(* that share a service, and the one without a client.  Every Manifest,    *)
(* every grant and both kinds of Core over them are initial states, and    *)
(* one more from which a test assembles its own Host (TestHost).           *)
(***************************************************************************)
EXTENDS TestHost

VARIABLE testing

MCInit ==
  /\ TestInit
  /\ \/ testing = FALSE /\ Init
     \/ /\ testing = TRUE /\ stage = "started"
        /\ required = {} /\ optional = {} /\ hostGrant = {} /\ envSet = FALSE /\ envNames = {}
        /\ available = {} /\ missing = {} /\ unsupported = {} /\ unknown = {}
        /\ services = {} /\ fields = {} /\ attempt = [op |-> "none", outcome |-> "none"]

MCNext ==
  \/ ~testing /\ Next /\ UNCHANGED <<testVars, testing>>
  \/ testing /\ TestNext /\ UNCHANGED <<vars, testing>>
  \/ testing /\ resolver # NotBuilt /\ UNCHANGED <<vars, testVars, testing>>

MCSpec == MCInit /\ [][MCNext]_<<vars, testVars, testing>>
=============================================================================
