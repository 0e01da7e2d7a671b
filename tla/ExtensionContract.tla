------------------------- MODULE ExtensionContract -------------------------
(***************************************************************************)
(* What a process built with extserver.Run promises to the two parties     *)
(* that cannot see inside it.  The Host sees one line on stdout and a door *)
(* (a loopback address) that opens and closes; the extension sees Start    *)
(* and Stop.                                                               *)
(***************************************************************************)

VARIABLES
  line,   \* "empty", then at most one of "READY" and "INCOMPATIBLE"
  door,   \* "none", "open", "closed"
  life,   \* the extension: "fresh", "running" (Start succeeded), "stopped"
  over    \* the run has returned

vars == <<line, door, life, over>>

Init ==
  /\ line = "empty"
  /\ door = "none"
  /\ life = "fresh"
  /\ over = FALSE

\* An incompatible process says so and ends without starting the extension.
Refuse ==
  /\ ~over /\ life = "fresh"
  /\ line' = "INCOMPATIBLE"
  /\ over' = TRUE
  /\ UNCHANGED <<door, life>>

Begin ==
  /\ ~over /\ life = "fresh" /\ line = "empty"
  /\ life' = "running"
  /\ UNCHANGED <<line, door, over>>

Open ==
  /\ ~over /\ life = "running" /\ door = "none"
  /\ door' = "open"
  /\ UNCHANGED <<line, life, over>>

Announce ==
  /\ ~over /\ life = "running" /\ line = "empty" /\ door # "none"
  /\ line' = "READY"
  /\ UNCHANGED <<door, life, over>>

Shut ==
  /\ door = "open"
  /\ door' = "closed"
  /\ UNCHANGED <<line, life, over>>

Stop ==
  /\ ~over /\ life = "running"
  /\ life' = "stopped"
  /\ UNCHANGED <<line, door, over>>

\* A run never ends behind the back of an extension that is running.
End ==
  /\ ~over /\ life # "running"
  /\ over' = TRUE
  /\ UNCHANGED <<line, door, life>>

Next == Refuse \/ Begin \/ Open \/ Announce \/ Shut \/ Stop \/ End

Spec == Init /\ [][Next]_vars
=============================================================================
