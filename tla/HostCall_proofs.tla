--------------------------- MODULE HostCall_proofs ---------------------------
(***************************************************************************)
(* Proofs about HostCall, for any set of calls, any number of attempts and *)
(* any refusals: type correctness, at most one execution of a call with an *)
(* effect, no success that the Host does not know of, no attempt in vain,  *)
(* the order of settled writes and reads, and that the client implements   *)
(* HostOperation.                                                          *)
(*                                                                         *)
(* The inductive invariant adds to the type four facts.  EffectInv: a call *)
(* with an effect makes one attempt, whose request is either not sent yet, *)
(* or on its way and not executed, or gone and executed at most once.      *)
(* GoodInv: a good answer, on its way, received or told, comes from an     *)
(* execution.  ShownInv: a good answer to a read shows a value.  FinalInv: *)
(* a call that has heard a final refusal is over.                          *)
(***************************************************************************)
EXTENDS HostCall, TLAPS

EffectInv ==
  \A k \in Call : kind[k] \notin Getting =>
    /\ pc[k] # "backoff"
    /\ pc[k] = "sending" => tries[k] = 0
    /\ pc[k] = "waiting" => tries[k] = 1
    /\ tries[k] <= 1
    /\ wire[k] \subseteq {1}
    /\ tries[k] = 0 => wire[k] = {} /\ applied[k] = 0
    /\ wire[k] # {} => applied[k] = 0
    /\ applied[k] <= 1

\* A call that has not begun has left no trace, and an attempt beyond the last
\* is never made.
IdleInv ==
  \A k \in Call :
    /\ pc[k] = "idle" => tries[k] = 0 /\ wire[k] = {} /\ applied[k] = 0
    /\ pc[k] \in {"sending", "backoff"} => tries[k] < maxGetAttempts
    /\ wire[k] \subseteq 1 .. tries[k]

GoodInv ==
  \A k \in Call :
    /\ reply[k] = Good => applied[k] >= 1
    /\ result[k] = "ok" => applied[k] >= 1 /\ pc[k] = "done"

-----------------------------------------------------------------------------
(* The table from statuses to codes stays within the contract, and so does  *)
(* the refusal built from it.                                               *)
LEMMA CodeType ==
  ASSUME NEW s \in Nat
  PROVE  CodeForHTTPStatus(s) \in Code \cup {"none"}
BY SMTT(60) DEF CodeForHTTPStatus, Code

LEMMA RefusalType ==
  ASSUME NEW status \in Nat, NEW code \in Code \cup {"none"}
  PROVE  Refusal(status, code) \in Outcomes
BY CodeType DEF Refusal, Outcomes

LEMMA OutcomeTypes == /\ None \in Outcomes /\ Good \in Outcomes /\ Lost \in Outcomes
                      /\ Garbled \in Outcomes /\ Ended \in Outcomes
                      /\ Good \notin {None, Lost, Garbled, Ended}
BY DEF None, Good, Lost, Garbled, Ended, Outcome, Outcomes

-----------------------------------------------------------------------------
\* A reading call that has a good answer has been shown a value, and one that
\* has heard a final refusal is over.
ShownInv == \A k \in Call : kind[k] \in Getting /\ reply[k] = Good => seen[k] # {}

FinalInv == \A k \in Call : Final(last[k]) => pc[k] = "done"

IInv == TypeOK /\ IdleInv /\ EffectInv /\ GoodInv /\ ShownInv /\ FinalInv

LEMMA InitInv == Init => IInv
BY AttemptsAssumption, GrantsAssumption, SnapshotsAssumption, OutcomeTypes
   DEF Init, IInv, TypeOK, IdleInv, EffectInv, GoodInv, ShownInv, FinalInv, Final,
       None, Good, Outcome, Kind, Getting, Values

\* What Settle does to one call, without the text of the loop.
LEMMA SettleStep ==
  ASSUME TypeOK, NEW k \in Call, NEW o \in Outcomes, Settle(k, o),
         tries' \in [Call -> 0 .. maxGetAttempts]
  PROVE  /\ reply' \in [Call -> Outcomes] /\ last' \in [Call -> Outcomes]
         /\ pc' \in [Call -> {"idle", "sending", "waiting", "backoff", "done"}]
         /\ result' \in [Call -> {"none", "ok", "error", "snapshot", "logged"}]
         /\ \A c \in Call \ {k} : pc'[c] = pc[c] /\ reply'[c] = reply[c]
                                  /\ result'[c] = result[c]
         /\ pc'[k] \in {"backoff", "done"}
         /\ pc'[k] = "backoff" => tries'[k] < Attempts(k)
         /\ reply'[k] = None
         /\ result'[k] = "ok" => o = Good \/ result[k] = "ok"
         /\ pc'[k] = "done" /\ result'[k] = "ok" => o = Good
         /\ last' = [last EXCEPT ![k] = o]
         /\ pc'[k] = "backoff" => retryableHostError(o) /\ o # Good
         /\ UNCHANGED <<setUp, ctx, hostOwn>>
<1>1. ServiceResult(k, o) \in {"ok", "error", "snapshot", "logged"}
  BY DEF ServiceResult
<1>2. ServiceResult(k, o) = "ok" => o = Good
  BY DEF ServiceResult
<1> QED
  BY <1>1, <1>2, OutcomeTypes DEF Settle, Finish, TypeOK

LEMMA SettleType ==
  ASSUME TypeOK, NEW k \in Call, NEW o \in Outcomes, Settle(k, o),
         tries' \in [Call -> 0 .. maxGetAttempts], wire' = wire
  PROVE  TypeOK'
<1>1. /\ reply' \in [Call -> Outcomes] /\ last' \in [Call -> Outcomes]
      /\ pc' \in [Call -> {"idle", "sending", "waiting", "backoff", "done"}]
      /\ result' \in [Call -> {"none", "ok", "error", "snapshot", "logged"}]
  BY SettleStep
<1>2. UNCHANGED <<setUp, ctx, hostOwn>>
  BY DEF Settle
<1>3. UNCHANGED <<granted, snapshot, kind, limit, before, ctx, stored, applied, seen>>
  BY <1>2 DEF setUp, world, hostOwn
<1> QED
  BY <1>1, <1>3 DEF TypeOK

LEMMA TypeStep ==
  ASSUME IInv, [Next]_vars
  PROVE  TypeOK'
<1> USE DEF IInv
<1>1. ASSUME NEW k \in Call, NEW what \in Made, NEW d \in BOOLEAN, Begin(k, what, d)
      PROVE  TypeOK'
  BY <1>1, MadeAssumption DEF Begin, TypeOK, Limit, callContext, Kind, Succeeded, world, hostOwn
<1>2. ASSUME NEW k \in Call, Cancel(k)
      PROVE  TypeOK'
  BY <1>2 DEF Cancel, TypeOK, setUp, world, hostOwn
<1>3. ASSUME NEW k \in Call, Send(k)
      PROVE  TypeOK'
  <2>1. tries' \in [Call -> 0 .. maxGetAttempts] /\ tries'[k] \in 1 .. maxGetAttempts
    BY <1>3, AttemptsAssumption DEF Send, TypeOK, IdleInv
  <2>2. CASE (Settle(k, Ended) \/ Settle(k, Lost)) /\ UNCHANGED wire
    <3>1. PICK o \in Outcomes : Settle(k, o)
      BY <2>2, OutcomeTypes
    <3> QED
      BY <2>1, <2>2, <3>1, SettleType
  <2>3. CASE /\ wire' = [wire EXCEPT ![k] = @ \cup {tries'[k]}]
             /\ pc' = [pc EXCEPT ![k] = "waiting"]
             /\ UNCHANGED <<setUp, ctx, reply, last, result, hostOwn>>
    BY <2>1, <2>3 DEF TypeOK, setUp, world, hostOwn
  <2> QED
    BY <1>3, <2>2, <2>3, Zenon DEF Send
<1>4. ASSUME NEW k \in Call, Receive(k) \/ Break(k) \/ Expire(k)
      PROVE  TypeOK'
  <2>1. UNCHANGED <<tries, wire>>
    BY <1>4 DEF Receive, Break, Expire
  <2>2. PICK o \in Outcomes : Settle(k, o)
    BY <1>4, OutcomeTypes DEF Receive, Break, Expire, TypeOK
  <2>3. tries' \in [Call -> 0 .. maxGetAttempts]
    BY <2>1 DEF TypeOK
  <2> QED
    BY <2>1, <2>2, <2>3, SettleType
<1>5. ASSUME NEW k \in Call, Backoff(k)
      PROVE  TypeOK'
  <2>1. ServiceResult(k, Ended) \in {"ok", "error", "snapshot", "logged"}
    BY DEF ServiceResult
  <2> QED
    BY <1>5, <2>1, OutcomeTypes DEF Backoff, Finish, TypeOK, setUp, world, hostOwn
<1>6. ASSUME NEW k \in Call, NEW i \in 1 .. maxGetAttempts, Execute(k, i)
      PROVE  TypeOK'
  BY <1>6, OutcomeTypes DEF Execute, Arrives, Answer, TypeOK, Values, setUp, world
<1>7. ASSUME NEW k \in Call, NEW i \in 1 .. maxGetAttempts, Refuse(k, i)
      PROVE  TypeOK'
  <2>1. \E o \in Outcomes : Answer(k, i, o)
    <3>1. Refusal(403, "PERMISSION_DENIED") \in Outcomes
      <4>1. 403 \in Nat /\ "PERMISSION_DENIED" \in Code \cup {"none"}
        BY DEF Code
      <4> QED
        BY <4>1, RefusalType
    <3>2. ASSUME NEW a \in Answers
          PROVE  Refusal(a[1], a[2]) \in Outcomes
      <4>1. a[1] \in Nat /\ a[2] \in Code \cup {"none"}
        BY AnswersAssumption
      <4> QED
        BY <4>1, RefusalType
    <3> QED
      BY <1>7, <3>1, <3>2 DEF Refuse
  <2> QED
    BY <1>7, <2>1 DEF Refuse, Arrives, Answer, TypeOK, setUp, world, hostOwn
<1>8. ASSUME NEW k \in Call, NEW i \in 1 .. maxGetAttempts, Lose(k, i)
      PROVE  TypeOK'
  BY <1>8 DEF Lose, Arrives, TypeOK, setUp, world, hostOwn
<1>9. CASE UNCHANGED vars
  BY <1>9 DEF vars, TypeOK
<1> QED
  BY <1>1, <1>2, <1>3, <1>4, <1>5, <1>6, <1>7, <1>8, <1>9 DEF Next, Client

-----------------------------------------------------------------------------
(* Every step is the start of a call, an attempt that is sent, an attempt   *)
(* that ends without touching the network, the wait between two, or a move  *)
(* of the network: what each does to the fields the invariant is about.     *)
Untouched(k) ==
  \A c \in Call \ {k} :
    /\ pc'[c] = pc[c] /\ tries'[c] = tries[c] /\ wire'[c] = wire[c]
    /\ reply'[c] = reply[c] /\ result'[c] = result[c]
    /\ applied'[c] = applied[c] /\ kind'[c] = kind[c]

Starts(k) ==
  /\ pc[k] = "idle" /\ pc'[k] = "sending"
  /\ UNCHANGED <<tries, wire, reply, result, applied>>

Sends(k) ==
  /\ pc[k] = "sending" /\ pc'[k] = "waiting"
  /\ tries'[k] = tries[k] + 1
  /\ wire'[k] = wire[k] \cup {tries[k] + 1}
  /\ UNCHANGED <<reply, result, applied, kind>>

\* o is the outcome the attempt is settled with
Settles(k, o) ==
  /\ \/ pc[k] = "sending" /\ tries'[k] = tries[k] + 1
     \/ pc[k] = "waiting" /\ tries'[k] = tries[k]
  /\ o = Good => o = reply[k]
  /\ pc'[k] \in {"backoff", "done"}
  /\ pc'[k] = "backoff" => tries'[k] < Attempts(k) /\ o # Good
  /\ reply'[k] = None
  /\ result'[k] = "ok" => o = Good \/ result[k] = "ok"
  /\ UNCHANGED <<wire, applied, kind>>

Waits(k) ==
  /\ pc[k] = "backoff" /\ pc'[k] \in {"sending", "done"}
  /\ result'[k] = "ok" => result[k] = "ok"
  /\ UNCHANGED <<tries, wire, reply, applied, kind>>

Delivers(k, i) ==
  /\ i \in wire[k] /\ wire'[k] = wire[k] \ {i}
  /\ applied'[k] \in {applied[k], applied[k] + 1}
  /\ reply'[k] = Good => reply[k] = Good \/ applied'[k] = applied[k] + 1
  /\ UNCHANGED <<pc, tries, result, kind>>

Shape(k) ==
  \/ Starts(k) \/ Sends(k) \/ Waits(k)
  \/ \E o \in Outcomes : Settles(k, o)
  \/ \E i \in 1 .. maxGetAttempts : Delivers(k, i)

Still == UNCHANGED <<pc, tries, wire, reply, result, applied, kind>>

LEMMA StepShape ==
  ASSUME IInv, [Next]_vars
  PROVE  Still \/ \E k \in Call : Shape(k) /\ Untouched(k)
<1> USE DEF IInv, Untouched
<1>1. ASSUME NEW k \in Call, NEW what \in Made, NEW d \in BOOLEAN, Begin(k, what, d)
      PROVE  Shape(k) /\ Untouched(k)
  BY <1>1 DEF Begin, TypeOK, Starts, Shape, hostOwn
<1>2. ASSUME NEW k \in Call, Cancel(k)
      PROVE  Still
  BY <1>2 DEF Cancel, Still, setUp, hostOwn
<1>3. ASSUME NEW k \in Call, Send(k)
      PROVE  Shape(k) /\ Untouched(k)
  <2>1. /\ tries' \in [Call -> 0 .. maxGetAttempts]
        /\ pc[k] = "sending" /\ tries'[k] = tries[k] + 1
        /\ \A c \in Call \ {k} : tries'[c] = tries[c]
    BY <1>3, AttemptsAssumption DEF Send, TypeOK, IdleInv
  <2>2. CASE (Settle(k, Ended) \/ Settle(k, Lost)) /\ UNCHANGED wire
    <3>1. PICK o \in {Ended, Lost} : Settle(k, o)
      BY <2>2
    <3>2. o \in Outcomes /\ o # Good
      BY <3>1, OutcomeTypes
    <3> QED
      BY <2>1, <2>2, <3>1, <3>2, SettleStep DEF Settles, Shape, setUp, hostOwn
  <2>3. CASE /\ wire' = [wire EXCEPT ![k] = @ \cup {tries'[k]}]
             /\ pc' = [pc EXCEPT ![k] = "waiting"]
             /\ UNCHANGED <<setUp, ctx, reply, last, result, hostOwn>>
    BY <2>1, <2>3 DEF TypeOK, Sends, Shape, setUp, hostOwn
  <2> QED
    BY <1>3, <2>2, <2>3, Zenon DEF Send
<1>4. ASSUME NEW k \in Call, Receive(k) \/ Break(k) \/ Expire(k)
      PROVE  Shape(k) /\ Untouched(k)
  <2>1. PICK o \in Outcomes : Settle(k, o) /\ (o = Good => o = reply[k])
    BY <1>4, OutcomeTypes DEF Receive, Break, Expire, TypeOK
  <2>2. pc[k] = "waiting" /\ UNCHANGED <<tries, wire>>
    BY <1>4 DEF Receive, Break, Expire
  <2> QED
    BY <2>1, <2>2, SettleStep DEF Settles, Shape, TypeOK, setUp, hostOwn
<1>5. ASSUME NEW k \in Call, Backoff(k)
      PROVE  Shape(k) /\ Untouched(k)
  <2>1. ServiceResult(k, Ended) # "ok"
    BY OutcomeTypes DEF ServiceResult
  <2> QED
    BY <1>5, <2>1 DEF Backoff, Finish, TypeOK, Waits, Shape, setUp, hostOwn
<1>6. ASSUME NEW k \in Call, NEW i \in 1 .. maxGetAttempts, Execute(k, i)
      PROVE  Shape(k) /\ Untouched(k)
  BY <1>6 DEF Execute, Arrives, Answer, TypeOK, Delivers, Shape, setUp
<1>7. ASSUME NEW k \in Call, NEW i \in 1 .. maxGetAttempts, Refuse(k, i)
      PROVE  Shape(k) /\ Untouched(k)
  <2>1. \A s, c : Refusal(s, c) # Good
    BY DEF Refusal, Good, Outcome
  <2>2. PICK o : Answer(k, i, o) /\ o # Good
    BY <1>7, <2>1, Zenon DEF Refuse
  <2> QED
    BY <1>7, <2>2 DEF Refuse, Arrives, Answer, TypeOK, Delivers, Shape, setUp, hostOwn
<1>8. ASSUME NEW k \in Call, NEW i \in 1 .. maxGetAttempts, Lose(k, i)
      PROVE  Shape(k) /\ Untouched(k)
  BY <1>8 DEF Lose, Arrives, TypeOK, Delivers, Shape, setUp, hostOwn
<1>9. CASE UNCHANGED vars
  BY <1>9 DEF vars, Still
<1> QED
  BY <1>1, <1>2, <1>3, <1>4, <1>5, <1>6, <1>7, <1>8, <1>9, Zenon DEF Next, Client

LEMMA IdleStep ==
  ASSUME IInv, [Next]_vars
  PROVE  IdleInv'
<1>1. CASE Still
  BY <1>1 DEF Still, IInv, IdleInv
<1>2. ASSUME NEW k \in Call, Shape(k), Untouched(k), NEW c \in Call
      PROVE  /\ pc'[c] = "idle" => tries'[c] = 0 /\ wire'[c] = {} /\ applied'[c] = 0
             /\ pc'[c] \in {"sending", "backoff"} => tries'[c] < maxGetAttempts
             /\ wire'[c] \subseteq 1 .. tries'[c]
  <2>1. CASE c # k
    BY <1>2, <2>1 DEF Untouched, IInv, IdleInv
  <2>2. tries[k] \in Nat /\ Attempts(k) <= maxGetAttempts /\ Attempts(k) \in Nat
    BY AttemptsAssumption DEF IInv, TypeOK, Attempts
  <2>3. CASE c = k
    BY <1>2, <2>2, <2>3, AttemptsAssumption
       DEF Shape, Starts, Sends, Settles, Waits, Delivers, IInv, IdleInv, TypeOK
  <2> QED
    BY <2>1, <2>3
<1> QED
  BY <1>1, <1>2, StepShape DEF IdleInv

LEMMA EffectStep ==
  ASSUME IInv, [Next]_vars
  PROVE  EffectInv'
<1>1. CASE Still
  BY <1>1 DEF Still, IInv, EffectInv
<1>2. ASSUME NEW k \in Call, Shape(k), Untouched(k), NEW c \in Call, kind'[c] \notin Getting
      PROVE  /\ pc'[c] # "backoff"
             /\ pc'[c] = "sending" => tries'[c] = 0
             /\ pc'[c] = "waiting" => tries'[c] = 1
             /\ tries'[c] <= 1
             /\ wire'[c] \subseteq {1}
             /\ tries'[c] = 0 => wire'[c] = {} /\ applied'[c] = 0
             /\ wire'[c] # {} => applied'[c] = 0
             /\ applied'[c] <= 1
  <2>1. CASE c # k
    BY <1>2, <2>1 DEF Untouched, IInv, EffectInv
  <2>2. tries[k] \in Nat /\ applied[k] \in Nat
    BY DEF IInv, TypeOK
  <2>3. CASE c = k /\ Starts(k)
    BY <2>3, <2>2 DEF Starts, IInv, IdleInv
  <2>4. CASE c = k /\ ~Starts(k)
    <3>1. kind[k] \notin Getting /\ Attempts(k) = 1
      BY <1>2, <2>4 DEF Shape, Sends, Settles, Waits, Delivers, Attempts
    <3> QED
      BY <1>2, <2>2, <2>4, <3>1
         DEF Shape, Sends, Settles, Waits, Delivers, IInv, EffectInv
  <2> QED
    BY <2>1, <2>3, <2>4
<1> QED
  BY <1>1, <1>2, StepShape DEF EffectInv

LEMMA GoodStep ==
  ASSUME IInv, [Next]_vars
  PROVE  GoodInv'
<1>1. CASE Still
  BY <1>1 DEF Still, IInv, GoodInv
<1>2. ASSUME NEW k \in Call, Shape(k), Untouched(k), NEW c \in Call
      PROVE  /\ reply'[c] = Good => applied'[c] >= 1
             /\ result'[c] = "ok" => applied'[c] >= 1 /\ pc'[c] = "done"
  <2>1. CASE c # k
    BY <1>2, <2>1 DEF Untouched, IInv, GoodInv
  <2>2. applied[k] \in Nat
    BY DEF IInv, TypeOK
  <2>3. CASE c = k
    BY <1>2, <2>2, <2>3, OutcomeTypes
       DEF Shape, Starts, Sends, Settles, Waits, Delivers, IInv, GoodInv
  <2> QED
    BY <2>1, <2>3
<1> QED
  BY <1>1, <1>2, StepShape DEF GoodInv

LEMMA NotFinal ==
  /\ \A o : retryableHostError(o) => ~Final(o)
  /\ ~Final(Ended) /\ ~Final(None)
BY DEF retryableHostError, RetryableCode, Final, Ended, None, Outcome

LEMMA ShownStep ==
  ASSUME IInv, [Next]_vars
  PROVE  ShownInv'
<1> USE DEF IInv
<1>1. ASSUME NEW k \in Call, NEW what \in Made, NEW d \in BOOLEAN, Begin(k, what, d)
      PROVE  ShownInv'
  <2>1. reply[k] # Good
    BY <1>1 DEF Begin, IdleInv, GoodInv
  <2> QED
    BY <1>1, <2>1 DEF Begin, TypeOK, ShownInv, hostOwn
<1>2. ASSUME NEW k \in Call, Cancel(k)
      PROVE  ShownInv'
  BY <1>2 DEF Cancel, ShownInv, setUp, hostOwn
<1>3. ASSUME NEW k \in Call, Client(k) \/ Break(k)
      PROVE  ShownInv'
  <2>1. UNCHANGED <<kind, seen>> /\ (UNCHANGED reply \/ reply' = [reply EXCEPT ![k] = None])
    BY <1>3 DEF Client, Send, Receive, Expire, Break, Backoff, Settle, setUp, hostOwn
  <2> QED
    BY <2>1, OutcomeTypes DEF TypeOK, ShownInv, None, Good, Outcome
<1>4. ASSUME NEW k \in Call, NEW i \in 1 .. maxGetAttempts, Execute(k, i)
      PROVE  ShownInv'
  <2>1. UNCHANGED kind
    BY <1>4 DEF Execute, Arrives, setUp
  <2>2. CASE kind[k] \in Getting /\ pc[k] = "waiting" /\ tries[k] = i
    <3>1. /\ seen' = [seen EXCEPT ![k] = {stored}]
          /\ \A c \in Call \ {k} : reply'[c] = reply[c]
      BY <1>4, <2>2 DEF Execute, Answer, TypeOK
    <3> QED
      BY <2>1, <3>1 DEF TypeOK, ShownInv
  <2>3. CASE ~(kind[k] \in Getting /\ pc[k] = "waiting" /\ tries[k] = i)
    <3>1. \A c \in Call : seen'[c] = seen[c]
      BY <1>4, <2>3 DEF Execute, TypeOK
    <3>2. \A c \in Call : kind[c] \in Getting => reply'[c] = reply[c]
      BY <1>4, <2>3 DEF Execute, Answer, TypeOK
    <3> QED
      BY <2>1, <3>1, <3>2 DEF ShownInv
  <2> QED
    BY <2>2, <2>3
<1>5. ASSUME NEW k \in Call, NEW i \in 1 .. maxGetAttempts, Refuse(k, i) \/ Lose(k, i)
      PROVE  ShownInv'
  <2>1. \A s, c : Refusal(s, c) # Good
    BY DEF Refusal, Good, Outcome
  <2>2. UNCHANGED reply \/ \E o : Answer(k, i, o) /\ o # Good
    BY <1>5, <2>1, Zenon DEF Refuse, Lose
  <2>3. UNCHANGED <<kind, seen>>
    BY <1>5 DEF Refuse, Lose, Arrives, setUp, hostOwn
  <2> QED
    BY <2>2, <2>3 DEF Answer, TypeOK, ShownInv
<1>6. CASE UNCHANGED vars
  BY <1>6 DEF vars, ShownInv
<1> QED
  BY <1>1, <1>2, <1>3, <1>4, <1>5, <1>6, Zenon DEF Next

LEMMA FinalStep ==
  ASSUME IInv, [Next]_vars
  PROVE  FinalInv'
<1> USE DEF IInv
<1>1. ASSUME NEW k \in Call, NEW what \in Made, NEW d \in BOOLEAN, Begin(k, what, d)
      PROVE  FinalInv'
  BY <1>1 DEF Begin, TypeOK, FinalInv
<1>2. ASSUME NEW k \in Call, NEW o \in Outcomes, Settle(k, o), pc[k] # "done",
             tries' \in [Call -> 0 .. maxGetAttempts]
      PROVE  FinalInv'
  BY <1>2, SettleStep, NotFinal DEF TypeOK, FinalInv
<1>3. ASSUME NEW k \in Call, Send(k)
      PROVE  FinalInv'
  <2>1. tries' \in [Call -> 0 .. maxGetAttempts] /\ pc[k] = "sending"
    BY <1>3, AttemptsAssumption DEF Send, TypeOK, IdleInv
  <2>2. CASE Settle(k, Ended) \/ Settle(k, Lost)
    BY <1>2, <2>1, <2>2, OutcomeTypes
  <2>3. CASE pc' = [pc EXCEPT ![k] = "waiting"] /\ UNCHANGED last
    BY <2>1, <2>3 DEF TypeOK, FinalInv
  <2> QED
    BY <1>3, <2>2, <2>3, Zenon DEF Send
<1>4. ASSUME NEW k \in Call, Receive(k) \/ Break(k) \/ Expire(k)
      PROVE  FinalInv'
  <2>1. /\ pc[k] = "waiting" /\ tries' \in [Call -> 0 .. maxGetAttempts]
        /\ \E o \in Outcomes : Settle(k, o)
    BY <1>4, OutcomeTypes DEF Receive, Break, Expire, TypeOK
  <2> QED
    BY <1>2, <2>1
<1>5. ASSUME NEW k \in Call, Backoff(k)
      PROVE  FinalInv'
  BY <1>5, NotFinal DEF Backoff, Finish, TypeOK, FinalInv
<1>6. CASE UNCHANGED <<pc, last>>
  BY <1>6 DEF FinalInv
<1>7. ASSUME NEW k \in Call, NEW i \in 1 .. maxGetAttempts,
             Cancel(k) \/ Execute(k, i) \/ Refuse(k, i) \/ Lose(k, i)
      PROVE  UNCHANGED <<pc, last>>
  BY <1>7 DEF Cancel, Execute, Refuse, Lose, Arrives
<1>8. CASE UNCHANGED vars
  BY <1>8, <1>6 DEF vars
<1>9. maxGetAttempts \in 1 .. maxGetAttempts
  BY AttemptsAssumption
<1> QED
  BY <1>1, <1>3, <1>4, <1>5, <1>6, <1>7, <1>8, <1>9, Zenon DEF Next, Client

-----------------------------------------------------------------------------
(* The inductive invariant holds of every behaviour.                        *)
THEOREM Invariance == Spec => []IInv
<1>1. IInv /\ [Next]_vars => IInv'
  BY TypeStep, IdleStep, EffectStep, GoodStep, ShownStep, FinalStep DEF IInv
<1> QED
  BY <1>1, InitInv, PTL DEF Spec

(* Every variable keeps its type, in particular no call makes more attempts *)
(* than maxGetAttempts.                                                     *)
THEOREM TypeCorrect == Spec => []TypeOK
BY Invariance, PTL DEF IInv

(* A POST or a PUT is executed at most once: the client has one attempt for *)
(* it, and that attempt is on its way or executed, never both.              *)
THEOREM NeverTwice == Spec => []EffectAtMostOnce
<1>1. IInv => EffectAtMostOnce
  BY DEF IInv, EffectInv, EffectAtMostOnce
<1> QED
  BY <1>1, Invariance, PTL

(* A call that reports success was executed by the Host.                    *)
THEOREM SuccessIsReal == Spec => []OkMeansExecuted
<1>1. IInv => OkMeansExecuted
  BY DEF IInv, GoodInv, OkMeansExecuted
<1> QED
  BY <1>1, Invariance, PTL

(* A call sends nothing more once its context has ended or once it has      *)
(* heard a refusal that another attempt cannot change.                      *)
THEOREM NoVainAttempt == Spec => NothingSentInVain
<1>1. ASSUME IInv, [Next]_vars, NEW k \in Call, ctx[k] = "done" \/ Final(last[k])
      PROVE  wire'[k] \subseteq wire[k]
  <2>1. ASSUME NEW c \in Call, Send(c)
        PROVE  wire'[k] \subseteq wire[k]
    <3>1. CASE c = k
      <4>1. pc[k] = "sending" /\ (UNCHANGED wire \/ Sendable(k))
        BY <2>1, <3>1, Zenon DEF Send
      <4>2. ctx[k] = "done"
        BY <1>1, <4>1 DEF IInv, FinalInv
      <4> QED
        BY <4>1, <4>2 DEF Sendable
    <3>2. CASE c # k
      <4>1. UNCHANGED wire \/ \E i : wire' = [wire EXCEPT ![c] = @ \cup {i}]
        BY <2>1, Zenon DEF Send
      <4> QED
        BY <1>1, <3>2, <4>1 DEF IInv, TypeOK
    <3> QED
      BY <3>1, <3>2
  <2>2. ASSUME NEW c \in Call, NEW i \in 1 .. maxGetAttempts, Arrives(c, i)
        PROVE  wire'[k] \subseteq wire[k]
    BY <2>2 DEF Arrives, IInv, TypeOK
  <2>3. CASE UNCHANGED wire
    BY <2>3
  <2>4. ASSUME NEW c \in Call, Receive(c) \/ Expire(c) \/ Break(c) \/ Backoff(c) \/ Cancel(c)
        PROVE  UNCHANGED wire
    BY <2>4 DEF Receive, Expire, Break, Backoff, Cancel
  <2>5. ASSUME NEW c \in Call, NEW what \in Made, NEW d \in BOOLEAN, Begin(c, what, d)
        PROVE  UNCHANGED wire
    BY <2>5 DEF Begin
  <2>6. CASE UNCHANGED vars
    BY <2>3, <2>6 DEF vars
  <2> QED
    BY <1>1, <2>1, <2>2, <2>3, <2>4, <2>5, <2>6, Zenon
       DEF Next, Client, Execute, Refuse, Lose
<1>2. IInv /\ [Next]_vars
        => [\A k \in Call : ctx[k] = "done" \/ Final(last[k]) => wire'[k] \subseteq wire[k]]_vars
  BY <1>1
<1> QED
  BY <1>2, Invariance, PTL DEF Spec, NothingSentInVain

-----------------------------------------------------------------------------
(* The refinement.  One step of a call is one step of its abstract phase, or *)
(* none: an attempt, its wait and its late copies do not show.              *)
LEMMA PhaseStep ==
  ASSUME NEW k \in Call, NEW p, Phase'[k] = p, \A c \in Call \ {k} : pc'[c] = pc[c] /\ result'[c] = result[c]
  PROVE  Phase' = [Phase EXCEPT ![k] = p]
BY DEF Phase

LEMMA SettleRefines ==
  ASSUME IInv, NEW k \in Call, NEW o \in Outcomes, Settle(k, o), o = Good => reply[k] = Good,
         pc[k] \in {"sending", "waiting"}, tries' \in [Call -> 0 .. maxGetAttempts]
  PROVE  Operation!Succeed(k) \/ Operation!GiveUp(k) \/ UNCHANGED Operation!vars
<1>1. UNCHANGED <<Form, Took, seen, stored>>
  BY DEF Settle, setUp, hostOwn, Form, Took
<1>2. Phase[k] = "open"
  BY DEF Phase
<1>3. /\ pc'[k] \in {"backoff", "done"}
      /\ pc'[k] = "done" /\ result'[k] = "ok" => o = Good
      /\ \A c \in Call \ {k} : pc'[c] = pc[c] /\ result'[c] = result[c]
  BY SettleStep DEF IInv
<1>4. CASE pc'[k] = "backoff"
  <2>1. Phase'[k] = "open"
    BY <1>4 DEF Phase
  <2>2. Phase' = Phase
    BY <1>2, <1>3, <2>1 DEF Phase
  <2> QED
    BY <1>1, <2>2 DEF Operation!vars
<1>5. CASE pc'[k] = "done" /\ result'[k] = "ok"
  <2>1. Phase' = [Phase EXCEPT ![k] = "ok"]
    BY <1>3, <1>5, PhaseStep DEF Phase
  <2>2. IF Form[k] = "read" THEN seen[k] # {} ELSE Took[k] = 1
    <3>1. reply[k] = Good /\ applied[k] >= 1 /\ applied[k] \in Nat
      BY <1>3, <1>5 DEF IInv, GoodInv, TypeOK
    <3>2. CASE kind[k] \in Getting
      BY <3>1, <3>2 DEF IInv, ShownInv, Form
    <3>3. CASE kind[k] \notin Getting
      BY <3>1, <3>3 DEF IInv, EffectInv, Form, Took
    <3> QED
      BY <3>2, <3>3
  <2> QED
    BY <1>1, <1>2, <2>1, <2>2 DEF Operation!Succeed
<1>6. CASE pc'[k] = "done" /\ result'[k] # "ok"
  <2>1. Phase' = [Phase EXCEPT ![k] = "unsure"]
    BY <1>3, <1>6, PhaseStep DEF Phase
  <2> QED
    BY <1>1, <1>2, <2>1 DEF Operation!GiveUp
<1> QED
  BY <1>3, <1>4, <1>5, <1>6

LEMMA StepRefines ==
  ASSUME IInv, [Next]_vars
  PROVE  [Operation!Next]_(Operation!vars)
<1>1. ASSUME NEW k \in Call, NEW what \in Made, NEW d \in BOOLEAN, Begin(k, what, d)
      PROVE  Operation!Open(k)
  <2>1. /\ UNCHANGED <<seen, stored, applied>> /\ pc[k] = "idle" /\ pc'[k] = "sending"
        /\ \A c \in Call \ {k} : pc'[c] = pc[c] /\ kind'[c] = kind[c] /\ result'[c] = result[c]
    BY <1>1 DEF Begin, IInv, TypeOK, hostOwn
  <2>2. Phase[k] = "idle" /\ Phase' = [Phase EXCEPT ![k] = "open"]
    BY <2>1, PhaseStep DEF Phase
  <2>3. Took' = Took
    BY <2>1 DEF Took, IInv, IdleInv
  <2>4. Form' = [Form EXCEPT ![k] = Form'[k]] /\ Form'[k] \in {"read", "write", "effect"}
    BY <2>1 DEF Form
  <2> QED
    BY <2>1, <2>2, <2>3, <2>4 DEF Operation!Open
<1>2. ASSUME UNCHANGED <<kind, pc, result, hostOwn>>
      PROVE  UNCHANGED Operation!vars
  BY <1>2 DEF hostOwn, Form, Phase, Took, Operation!vars
<1>3. ASSUME NEW k \in Call, Send(k)
      PROVE  [Operation!Next]_(Operation!vars)
  <2>1. tries' \in [Call -> 0 .. maxGetAttempts] /\ pc[k] = "sending"
    BY <1>3, AttemptsAssumption DEF Send, IInv, TypeOK, IdleInv
  <2>2. CASE Settle(k, Ended) \/ Settle(k, Lost)
    BY <2>1, <2>2, SettleRefines, OutcomeTypes DEF Operation!Next
  <2>3. CASE /\ pc' = [pc EXCEPT ![k] = "waiting"]
             /\ UNCHANGED <<setUp, ctx, reply, last, result, hostOwn>>
    <3>1. Phase' = Phase
      BY <2>1, <2>3 DEF IInv, TypeOK, Phase
    <3> QED
      BY <2>3, <3>1 DEF setUp, hostOwn, Form, Took, Operation!vars
  <2> QED
    BY <1>3, <2>2, <2>3, Zenon DEF Send
<1>4. ASSUME NEW k \in Call, Receive(k) \/ Break(k) \/ Expire(k)
      PROVE  [Operation!Next]_(Operation!vars)
  <2>1. pc[k] = "waiting" /\ tries' \in [Call -> 0 .. maxGetAttempts]
    BY <1>4 DEF Receive, Break, Expire, IInv, TypeOK
  <2>2. PICK o \in Outcomes : Settle(k, o) /\ (o = Good => reply[k] = Good)
    BY <1>4, OutcomeTypes DEF Receive, Break, Expire, IInv, TypeOK
  <2> QED
    BY <2>1, <2>2, SettleRefines DEF Operation!Next
<1>5. ASSUME NEW k \in Call, Backoff(k)
      PROVE  [Operation!Next]_(Operation!vars)
  <2>1. UNCHANGED <<Form, Took, seen, stored>> /\ pc[k] = "backoff"
    BY <1>5 DEF Backoff, setUp, hostOwn, Form, Took
  <2>2. CASE pc' = [pc EXCEPT ![k] = "sending"] /\ UNCHANGED result
    <3>1. Phase' = Phase
      BY <1>5, <2>2 DEF Backoff, IInv, TypeOK, Phase
    <3> QED
      BY <2>1, <3>1 DEF Operation!vars
  <2>3. CASE Finish(k, Ended)
    <3>1. ServiceResult(k, Ended) # "ok"
      BY OutcomeTypes DEF ServiceResult
    <3>2. /\ pc'[k] = "done" /\ result'[k] # "ok"
          /\ \A c \in Call \ {k} : pc'[c] = pc[c] /\ result'[c] = result[c]
      BY <2>3, <3>1 DEF Finish, IInv, TypeOK
    <3>3. Phase[k] = "open" /\ Phase' = [Phase EXCEPT ![k] = "unsure"]
      BY <1>5, <3>2, PhaseStep DEF Backoff, Phase
    <3> QED
      BY <2>1, <3>3 DEF Operation!GiveUp, Operation!Next
  <2> QED
    BY <1>5, <2>2, <2>3 DEF Backoff
<1>6. ASSUME NEW k \in Call, NEW i \in 1 .. maxGetAttempts, Execute(k, i)
      PROVE  [Operation!Next]_(Operation!vars)
  <2>1. UNCHANGED <<Form, Phase>> /\ i \in wire[k]
    BY <1>6 DEF Execute, Arrives, setUp, Form, Phase
  <2>2. CASE kind[k] \in Getting
    <3>1. Took' = Took /\ UNCHANGED stored
      BY <1>6, <2>2 DEF Execute, Arrives, setUp, IInv, TypeOK, Took
    <3>2. CASE pc[k] = "waiting" /\ tries[k] = i
      <4>1. Phase[k] = "open" /\ Form[k] = "read"
        BY <2>2, <3>2 DEF Phase, Form
      <4>2. seen' = [seen EXCEPT ![k] = {stored}]
        BY <1>6, <2>2, <3>2 DEF Execute
      <4> QED
        BY <2>1, <3>1, <4>1, <4>2 DEF Operation!Observe, Operation!Next
    <3>3. CASE ~(pc[k] = "waiting" /\ tries[k] = i)
      <4>1. seen' = seen
        BY <1>6, <2>2, <3>3 DEF Execute, IInv, TypeOK
      <4> QED
        BY <2>1, <3>1, <4>1 DEF Operation!vars
    <3> QED
      BY <3>2, <3>3
  <2>3. CASE kind[k] \notin Getting
    <3>1. Form[k] # "read" /\ (Form[k] = "write" <=> kind[k] = "write")
      BY <2>3 DEF Form
    <3>2. applied[k] = 0 /\ Took[k] = 0 /\ Phase[k] # "idle"
      <4>1. wire[k] # {}
        BY <2>1
      <4>2. pc[k] # "idle" /\ applied[k] = 0
        BY <2>3, <4>1 DEF IInv, EffectInv, IdleInv
      <4> QED
        BY <2>3, <4>2 DEF Took, Phase
    <3>3. Took' = [Took EXCEPT ![k] = 1]
      <4>1. kind' = kind /\ applied' = [applied EXCEPT ![k] = @ + 1]
        BY <1>6 DEF Execute, Arrives, setUp
      <4>2. applied'[k] = 1 /\ \A c \in Call \ {k} : applied'[c] = applied[c]
        BY <3>2, <4>1 DEF IInv, TypeOK
      <4> QED
        BY <2>3, <4>1, <4>2 DEF Took
    <3>4. seen' = seen /\ stored' = IF kind[k] = "write" THEN k ELSE stored
      BY <1>6, <2>3, Zenon DEF Execute
    <3>5. stored' = IF Form[k] = "write" THEN k ELSE stored
      BY <3>1, <3>4
    <3> QED
      BY <2>1, <3>1, <3>2, <3>3, <3>4, <3>5 DEF Operation!TakeEffect, Operation!Next
  <2> QED
    BY <2>2, <2>3
<1>7. ASSUME NEW k \in Call, NEW i \in 1 .. maxGetAttempts,
             Cancel(k) \/ Refuse(k, i) \/ Lose(k, i)
      PROVE  UNCHANGED <<kind, pc, result, hostOwn>>
  BY <1>7 DEF Cancel, Refuse, Lose, Arrives, setUp, hostOwn
<1>8. CASE UNCHANGED vars
  BY <1>2, <1>8 DEF vars, hostOwn
<1>9. maxGetAttempts \in 1 .. maxGetAttempts
  BY AttemptsAssumption
<1>10. ASSUME NEW k \in Call, Operation!Open(k)
       PROVE  Operation!Next
  BY <1>10 DEF Operation!Next
<1> QED
  BY <1>1, <1>2, <1>3, <1>4, <1>5, <1>6, <1>7, <1>8, <1>9, <1>10, Zenon DEF Next, Client

LEMMA InitRefines == Init => Operation!Init
BY DEF Init, Operation!Init, Form, Phase, Took, Getting

(* To its callers the client, with its retries, its lost answers and the    *)
(* late copies of its requests, is a HostOperation: a call takes effect at  *)
(* one moment or never, and success is only told of one that did.           *)
THEOREM ImplementsHostOperation == Spec => ImplementsCall
<1>1. IInv /\ [Next]_vars => [Operation!Next]_(Operation!vars)
  BY StepRefines
<1> QED
  BY <1>1, InitRefines, Invariance, PTL DEF Spec, ImplementsCall, Operation!Spec

-----------------------------------------------------------------------------
(* The order of writes and reads.  The strengthening: the calls that had    *)
(* succeeded when a call began are over; a write that was executed has      *)
(* replaced the initial value and all it had found settled; and so has it   *)
(* for every value shown to a read that began after it had succeeded.       *)
BeforeInv ==
  \A k \in Call :
    /\ \A c \in before[k] : pc[c] = "done" /\ result[c] = "ok"
    /\ pc[k] = "idle" => seen[k] = {}

OrderInv ==
  \A b \in Call : kind[b] = "write" /\ applied[b] >= 1 => stored \notin {Initial} \cup before[b]

ReadInv ==
  \A a, r \in Call :
    kind[a] = "write" /\ a \in before[r] /\ kind[r] \in Getting
      => seen[r] \cap ({Initial} \cup before[a]) = {}

OInv == BeforeInv /\ OrderInv /\ ReadInv

\* A step that neither begins a call nor executes one.
Quiet ==
  /\ UNCHANGED <<kind, before, stored, applied, seen>>
  /\ \A c \in Call : /\ pc[c] = "done" => pc'[c] = "done" /\ result'[c] = result[c]
                     /\ pc'[c] = "idle" => pc[c] = "idle"

LEMMA QuietSettle ==
  ASSUME IInv, NEW k \in Call, NEW o \in Outcomes, Settle(k, o), pc[k] # "done",
         tries' \in [Call -> 0 .. maxGetAttempts]
  PROVE  Quiet
<1>1. UNCHANGED <<kind, before, stored, applied, seen>>
  BY DEF Settle, setUp, hostOwn
<1>2. /\ pc'[k] \in {"backoff", "done"}
      /\ \A c \in Call \ {k} : pc'[c] = pc[c] /\ result'[c] = result[c]
  BY SettleStep DEF IInv
<1> QED
  BY <1>1, <1>2 DEF Quiet

LEMMA QuietSteps ==
  ASSUME IInv, [Next]_vars
  PROVE  \/ Quiet
         \/ \E k \in Call, what \in Made, d \in BOOLEAN : Begin(k, what, d)
         \/ \E k \in Call, i \in 1 .. maxGetAttempts : Execute(k, i)
<1>1. ASSUME NEW k \in Call, Send(k)
      PROVE  Quiet
  <2>1. tries' \in [Call -> 0 .. maxGetAttempts] /\ pc[k] = "sending"
    BY <1>1, AttemptsAssumption DEF Send, IInv, TypeOK, IdleInv
  <2>2. CASE Settle(k, Ended) \/ Settle(k, Lost)
    BY <2>1, <2>2, QuietSettle, OutcomeTypes
  <2>3. CASE /\ pc' = [pc EXCEPT ![k] = "waiting"]
             /\ UNCHANGED <<setUp, ctx, reply, last, result, hostOwn>>
    BY <2>1, <2>3 DEF Quiet, setUp, hostOwn, IInv, TypeOK
  <2> QED
    BY <1>1, <2>2, <2>3, Zenon DEF Send
<1>2. ASSUME NEW k \in Call, Receive(k) \/ Break(k) \/ Expire(k)
      PROVE  Quiet
  <2>1. pc[k] = "waiting" /\ tries' \in [Call -> 0 .. maxGetAttempts]
    BY <1>2 DEF Receive, Break, Expire, IInv, TypeOK
  <2>2. PICK o \in Outcomes : Settle(k, o)
    BY <1>2, OutcomeTypes DEF Receive, Break, Expire, IInv, TypeOK
  <2> QED
    BY <2>1, <2>2, QuietSettle
<1>3. ASSUME NEW k \in Call, Backoff(k)
      PROVE  Quiet
  BY <1>3 DEF Backoff, Finish, Quiet, setUp, hostOwn, IInv, TypeOK
<1>4. ASSUME NEW k \in Call, NEW i \in 1 .. maxGetAttempts,
             Cancel(k) \/ Refuse(k, i) \/ Lose(k, i)
      PROVE  Quiet
  BY <1>4 DEF Cancel, Refuse, Lose, Arrives, Quiet, setUp, hostOwn
<1>5. CASE UNCHANGED vars
  BY <1>5 DEF vars, Quiet
<1>6. maxGetAttempts \in 1 .. maxGetAttempts
  BY AttemptsAssumption
<1> QED
  BY <1>1, <1>2, <1>3, <1>4, <1>5, <1>6, Zenon DEF Next, Client

LEMMA OrderStep ==
  ASSUME IInv, OInv, [Next]_vars
  PROVE  OInv'
<1>1. CASE Quiet
  <2>1. before \in [Call -> SUBSET Call]
    BY DEF IInv, TypeOK
  <2> QED
    BY <1>1, <2>1 DEF Quiet, OInv, BeforeInv, OrderInv, ReadInv
<1>2. ASSUME NEW k \in Call, NEW what \in Made, NEW d \in BOOLEAN, Begin(k, what, d)
      PROVE  OInv'
  <2>1. /\ UNCHANGED <<result, stored, applied, seen>>
        /\ pc[k] = "idle" /\ pc'[k] = "sending" /\ before'[k] = Succeeded
        /\ \A c \in Call \ {k} : pc'[c] = pc[c] /\ kind'[c] = kind[c] /\ before'[c] = before[c]
    BY <1>2 DEF Begin, hostOwn, IInv, TypeOK
  <2>2. applied[k] = 0 /\ seen[k] = {} /\ result[k] # "ok"
    <3>1. applied[k] = 0 /\ seen[k] = {}
      BY <2>1 DEF IInv, IdleInv, OInv, BeforeInv
    <3> QED
      BY <3>1 DEF IInv, GoodInv
  <2>3. \A c \in Succeeded : c \in Call /\ result[c] = "ok" /\ pc[c] = "done"
    BY DEF Succeeded, IInv, GoodInv
  <2>4. \A c \in Call : k \notin before[c]
    BY <2>1 DEF OInv, BeforeInv
  <2>5. before \in [Call -> SUBSET Call]
    BY DEF IInv, TypeOK
  <2>6. BeforeInv'
    BY <2>1, <2>2, <2>3, <2>5 DEF OInv, BeforeInv
  <2>7. OrderInv'
    BY <2>1, <2>2 DEF OInv, OrderInv
  <2>8. ReadInv'
    BY <2>1, <2>2, <2>3, <2>4 DEF OInv, ReadInv
  <2> QED
    BY <2>6, <2>7, <2>8 DEF OInv
<1>3. ASSUME NEW k \in Call, NEW i \in 1 .. maxGetAttempts, Execute(k, i)
      PROVE  OInv'
  <2>1. /\ UNCHANGED <<kind, before, pc, result>>
        /\ i \in wire[k]
        /\ applied'[k] = applied[k] + 1
        /\ \A c \in Call \ {k} : applied'[c] = applied[c] /\ seen'[c] = seen[c]
    BY <1>3 DEF Execute, Arrives, setUp, IInv, TypeOK
  <2>2. BeforeInv'
    <3>1. pc[k] # "idle"
      BY <2>1 DEF IInv, IdleInv
    <3> QED
      BY <2>1, <3>1 DEF OInv, BeforeInv
  <2>3. ASSUME NEW c \in Call, kind[k] \notin Getting
        PROVE  k \notin before[c]
    <3>1. applied[k] = 0
      BY <2>1, <2>3 DEF IInv, EffectInv
    <3>2. result[k] # "ok"
      BY <3>1 DEF IInv, GoodInv
    <3> QED
      BY <3>2 DEF OInv, BeforeInv
  <2>4. OrderInv'
    <3>1. CASE kind[k] = "write"
      <4>1. stored' = k /\ kind[k] \notin Getting
        BY <1>3, <3>1 DEF Execute, Getting
      <4> QED
        BY <2>1, <2>3, <4>1, InitialAssumption DEF OrderInv
    <3>2. CASE kind[k] # "write"
      <4>1. stored' = stored
        BY <1>3, <3>2 DEF Execute
      <4> QED
        BY <2>1, <3>2, <4>1 DEF OInv, OrderInv
    <3> QED
      BY <3>1, <3>2
  <2>5. ReadInv'
    <3>1. seen'[k] = seen[k] \/ seen'[k] = {stored}
      BY <1>3 DEF Execute, IInv, TypeOK
    <3>2. ASSUME NEW a \in Call, kind[a] = "write", a \in before[k]
          PROVE  stored \notin {Initial} \cup before[a]
      <4>1. applied[a] >= 1
        BY <3>2 DEF OInv, BeforeInv, IInv, GoodInv
      <4> QED
        BY <3>2, <4>1 DEF OInv, OrderInv
    <3> QED
      BY <2>1, <3>1, <3>2 DEF OInv, ReadInv
  <2> QED
    BY <2>2, <2>4, <2>5 DEF OInv
<1> QED
  BY <1>1, <1>2, <1>3, QuietSteps

LEMMA OrderInvariance == Spec => []OInv
<1>1. Init => OInv
  BY DEF Init, OInv, BeforeInv, OrderInv, ReadInv
<1>2. IInv /\ OInv /\ [Next]_vars => OInv'
  BY OrderStep
<1> QED
  BY <1>1, <1>2, Invariance, PTL DEF Spec

(* Once a later write has succeeded, no late copy of an earlier one brings  *)
(* its value back: for any number of calls, in flight in any order.         *)
THEOREM WritesKeepOrder == Spec => []SettledWritesKeepOrder
<1>1. IInv /\ OInv => SettledWritesKeepOrder
  BY DEF IInv, GoodInv, OInv, OrderInv, SettledWritesKeepOrder
<1> QED
  BY <1>1, Invariance, OrderInvariance, PTL

(* A read never misses a write that had succeeded when it began, nor brings *)
(* back what that write had replaced, whichever attempt was answered.       *)
THEOREM ReadsAreCurrent == Spec => []ReadsSeeSettledWrites
<1>1. OInv => ReadsSeeSettledWrites
  BY DEF OInv, ReadInv, ReadsSeeSettledWrites
<1> QED
  BY <1>1, OrderInvariance, PTL
=============================================================================
