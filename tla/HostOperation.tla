---------------------------- MODULE HostOperation ----------------------------
(***************************************************************************)
(* What a goroutine of an extension may rely on when it calls the Host API *)
(* (the interfaces of services.go and Host.Config, Audit and Workflow).    *)
(* Retries, lost answers and late copies do not show: a call with an       *)
(* effect takes it at one moment or never, and may still take it after the *)
(* caller was told of a failure; a read shows what the Host held at a      *)
(* moment during the call; and success is only told of a call that took    *)
(* its effect or was answered.                                             *)
(***************************************************************************)
CONSTANTS
  Call,       \* the calls made
  Initial     \* what the Host holds at first

VARIABLES
  form,       \* what each call is: it reads, writes, or has another effect
  phase,      \* "idle", "open", or what its caller was told
  took,       \* how often it took effect
  seen,       \* what it was shown: nothing, or one value
  value       \* what the Host holds: the write it comes from

vars == <<form, phase, took, seen, value>>

Init ==
  /\ form \in [Call -> {"read", "write", "effect"}]
  /\ phase = [k \in Call |-> "idle"]
  /\ took = [k \in Call |-> 0]
  /\ seen = [k \in Call |-> {}]
  /\ value = Initial

Open(k) ==
  /\ phase[k] = "idle"
  /\ \E f \in {"read", "write", "effect"} : form' = [form EXCEPT ![k] = f]
  /\ phase' = [phase EXCEPT ![k] = "open"]
  /\ UNCHANGED <<took, seen, value>>

TakeEffect(k) ==
  /\ phase[k] # "idle"
  /\ form[k] # "read"
  /\ took[k] = 0
  /\ took' = [took EXCEPT ![k] = 1]
  /\ value' = IF form[k] = "write" THEN k ELSE value
  /\ UNCHANGED <<form, phase, seen>>

Observe(k) ==
  /\ phase[k] = "open"
  /\ form[k] = "read"
  /\ seen' = [seen EXCEPT ![k] = {value}]
  /\ UNCHANGED <<form, phase, took, value>>

Succeed(k) ==
  /\ phase[k] = "open"
  /\ IF form[k] = "read" THEN seen[k] # {} ELSE took[k] = 1
  /\ phase' = [phase EXCEPT ![k] = "ok"]
  /\ UNCHANGED <<form, took, seen, value>>

\* The caller is told of an error, given the snapshot, or told nothing.
GiveUp(k) ==
  /\ phase[k] = "open"
  /\ phase' = [phase EXCEPT ![k] = "unsure"]
  /\ UNCHANGED <<form, took, seen, value>>

Next == \E k \in Call : Open(k) \/ TakeEffect(k) \/ Observe(k) \/ Succeed(k) \/ GiveUp(k)

Spec == Init /\ [][Next]_vars
=============================================================================
