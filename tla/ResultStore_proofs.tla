-------------------------- MODULE ResultStore_proofs --------------------------
(***************************************************************************)
(* Proofs about ResultStore, for any byte strings, references, bounds and  *)
(* answers, and for results of any number of chunks.                       *)
(*                                                                         *)
(* The inductive invariant has one part for each side.  StoreInv: what the *)
(* Host holds came from a valid put.  AskedInv: what is asked passed the   *)
(* client's checks.  KnownInv: a receipt names the digest of the data that *)
(* was sent.  ReaderInv: what the loop has is as long as it may be, so the *)
(* sum the client compares does not wrap when the loop reads on; it is     *)
(* empty before the first chunk; and once complete it has the length and,  *)
(* if one chunk was enough, the digest it was told.                        *)
(***************************************************************************)
EXTENDS ResultStore, SequenceTheorems, TLAPS

StoreInv ==
  /\ store \in [Ref -> [data : Seq(Byte), meta : Meta \cup {"none"}]]
  /\ \A r \in Ref : store[r] # Nothing => Len(store[r].data) \in 1 .. MaxResultBytes

AskedInv ==
  /\ asked.op = "put" => asked.data \in Seq(Byte) /\ asked.meta \in Meta /\ ValidPut(asked)
  /\ asked.op = "read" => /\ asked.ref \in Ref /\ asked.offset \in Nat
                          /\ asked.limit \in 1 .. MaxResultReadBytes
  /\ asked.op = "page" => asked.ref \in Ref /\ asked.limit \in 1 .. MaxResultPageItems
  /\ asked.op = "info" => asked.ref \in Ref

KnownInv ==
  /\ known \in [Ref -> [data : Seq(Byte), hash : Seq(Byte)]]
  /\ \A r \in Ref : known[r] # Unknown => known[r].hash = SHA256(known[r].data)

ReaderType ==
  /\ reader \in [ref : Ref \cup {NoRef}, bytes : Seq(Byte), total : Nat, hash : Seq(Byte),
                 chunks : 0 .. 2, complete : BOOLEAN]
  /\ Len(reader.bytes) <= MaxResultBytes

ReaderInv ==
  /\ ReaderType
  /\ reader.chunks = 0 => reader.bytes = <<>>
  /\ reader.complete => Len(reader.bytes) = reader.total
  /\ reader.complete /\ reader.chunks = 1 => SHA256(reader.bytes) = reader.hash

IInv == StoreInv /\ AskedInv /\ KnownInv /\ ReaderInv

-----------------------------------------------------------------------------
LEMMA Bounds ==
  /\ MaxResultBytes \in Nat /\ MaxResultReadBytes \in Nat /\ MaxResultPageItems \in Nat
  /\ MaxInt \in Nat /\ MaxResultBytes + MaxResultReadBytes <= MaxInt
BY BoundsAssumption

LEMMA NoWrap ==
  ASSUME NEW n \in Int, n <= MaxInt
  PROVE  Wrap(n) = n
<1>1. ~(n > MaxInt)
  BY BoundsAssumption
<1> QED
  BY <1>1, Zenon DEF Wrap

LEMMA SumFits ==
  ASSUME NEW have \in Nat, NEW more \in Nat, NEW asks \in 1 .. MaxResultReadBytes,
         have <= MaxResultBytes, more <= asks
  PROVE  have + more \in Nat /\ have + more <= MaxInt
BY Bounds

(* A chunk that is accepted continues the loop's bytes without a wrap, up   *)
(* to an end that lies in the result.                                       *)
LEMMA AcceptedChunk ==
  ASSUME AskedInv, ReaderType, NEW a, a.data \in Seq(Byte), asked.op = "read",
         Accepts(asked, a), asked.offset = Len(reader.bytes)
  PROVE  /\ Len(reader.bytes) + Len(a.data) <= MaxResultBytes
         /\ a.complete = (Len(reader.bytes) + Len(a.data) = a.info.length)
         /\ Len(reader.bytes) = 0 /\ a.complete => SHA256(a.data) = a.info.hash
         /\ a.info.length \in Nat
<1>1. ChunkMatches(asked, a) /\ a.info.length \in 1 .. MaxResultBytes
  BY DEF Accepts, validateResultInfo
<1> DEFINE n == Len(reader.bytes) + Len(a.data)
<1>2. a.offset = Len(reader.bytes) /\ Len(a.data) <= asked.limit
  BY <1>1 DEF ChunkMatches
<1>3. n \in Nat /\ n <= MaxInt
  <2>1. Len(reader.bytes) \in Nat /\ Len(a.data) \in Nat
    BY DEF ReaderType
  <2>2. Len(reader.bytes) <= MaxResultBytes /\ asked.limit \in 1 .. MaxResultReadBytes
    BY DEF AskedInv, ReaderType
  <2> QED
    BY <1>2, <2>1, <2>2, SumFits, Zenon
<1> HIDE DEF n
<1>4. Wrap(a.offset + Len(a.data)) = n
  <2>1. Wrap(n) = n
    BY <1>3, NoWrap
  <2> QED
    BY <1>2, <2>1, Zenon DEF n
<1>5. /\ n <= a.info.length
      /\ a.complete = (n = a.info.length)
      /\ a.offset = 0 /\ a.complete => SHA256(a.data) = a.info.hash
  BY <1>1, <1>4 DEF ChunkMatches
<1>6. n <= MaxResultBytes /\ a.info.length \in Nat
  BY <1>1, <1>3, <1>5, Bounds
<1>7. Len(reader.bytes) = 0 /\ a.complete => SHA256(a.data) = a.info.hash
  BY <1>2, <1>5
<1> QED
  BY <1>5, <1>6, <1>7, Zenon DEF n

LEMMA AppendedFields ==
  ASSUME ReaderType, NEW a, a.data \in Seq(Byte), a.info.hash \in Seq(Byte),
         a.complete \in BOOLEAN, a.info.length \in Nat
  PROVE  /\ Appended(a) \in [ref : Ref \cup {NoRef}, bytes : Seq(Byte), total : Nat,
                             hash : Seq(Byte), chunks : 0 .. 2, complete : BOOLEAN]
         /\ Appended(a).bytes = reader.bytes \o a.data
         /\ Appended(a).chunks = IF reader.chunks = 0 THEN 1 ELSE 2
         /\ Appended(a).complete = a.complete
         /\ a.complete => Appended(a).total = a.info.length
         /\ a.complete => Appended(a).hash = a.info.hash
<1>1. reader.bytes \o a.data \in Seq(Byte)
  BY ConcatProperties DEF ReaderType
<1>2. <<>> \in Seq(Byte)
  OBVIOUS
<1>3. Least(2, reader.chunks + 1) = IF reader.chunks = 0 THEN 1 ELSE 2
  BY DEF ReaderType, Least
<1>4. /\ reader.ref \in Ref \cup {NoRef} /\ Least(2, reader.chunks + 1) \in 0 .. 2
      /\ (IF a.complete THEN a.info.length ELSE 0) \in Nat
      /\ (IF a.complete THEN a.info.hash ELSE <<>>) \in Seq(Byte)
  BY <1>2, <1>3 DEF ReaderType
<1>5. Appended(a) \in [ref : Ref \cup {NoRef}, bytes : Seq(Byte), total : Nat,
                       hash : Seq(Byte), chunks : 0 .. 2, complete : BOOLEAN]
  BY <1>1, <1>4 DEF Appended
<1> QED
  BY <1>3, <1>5 DEF Appended

-----------------------------------------------------------------------------
\* What is known of any answer to a request, from a Host of either kind.
Shaped(a) ==
  /\ asked.op = "read" => a.data \in Seq(Byte) /\ a.info.hash \in Seq(Byte) /\ a.complete \in BOOLEAN
  /\ asked.op = "put" => a.info.ref \in Ref /\ a.info.hash \in Seq(Byte)

LEMMA ReaderStep ==
  ASSUME IInv, NEW a, Shaped(a), Accepts(asked, a), Extends(asked), reader' = Appended(a)
  PROVE  ReaderInv'
<1>1. asked.op = "read" /\ asked.offset = Len(reader.bytes) /\ ~reader.complete
  BY DEF Extends
<1>2. a.data \in Seq(Byte) /\ a.info.hash \in Seq(Byte) /\ a.complete \in BOOLEAN
  BY <1>1 DEF Shaped
<1>3. /\ Len(reader.bytes) + Len(a.data) <= MaxResultBytes
      /\ a.complete = (Len(reader.bytes) + Len(a.data) = a.info.length)
      /\ Len(reader.bytes) = 0 /\ a.complete => SHA256(a.data) = a.info.hash
      /\ a.info.length \in Nat
  BY <1>1, <1>2, AcceptedChunk DEF IInv, ReaderInv
<1>4. /\ reader' \in [ref : Ref \cup {NoRef}, bytes : Seq(Byte), total : Nat,
                      hash : Seq(Byte), chunks : 0 .. 2, complete : BOOLEAN]
      /\ reader'.bytes = reader.bytes \o a.data
      /\ reader'.chunks = IF reader.chunks = 0 THEN 1 ELSE 2
      /\ reader'.complete = a.complete
      /\ a.complete => reader'.total = a.info.length
      /\ a.complete => reader'.hash = a.info.hash
  BY <1>2, <1>3, AppendedFields DEF IInv, ReaderInv
<1>5. reader.bytes \in Seq(Byte)
  BY DEF IInv, ReaderInv, ReaderType
<1>6. Len(reader'.bytes) = Len(reader.bytes) + Len(a.data)
  BY <1>2, <1>4, <1>5, ConcatProperties
<1>7. ReaderType'
  BY <1>3, <1>4, <1>6, Zenon DEF ReaderType
<1>8. reader'.complete => Len(reader'.bytes) = reader'.total
  BY <1>3, <1>4, <1>6, Zenon
<1>9. ASSUME reader'.complete, reader'.chunks = 1
      PROVE  SHA256(reader'.bytes) = reader'.hash
  <2>1. reader.bytes = <<>> /\ Len(reader.bytes) = 0
    BY <1>4, <1>9 DEF IInv, ReaderInv
  <2>2. reader'.bytes = a.data
    BY <1>2, <1>4, <2>1, ConcatEmptySeq
  <2> QED
    BY <1>3, <1>4, <1>9, <2>1, <2>2, Zenon
<1>10. reader'.chunks # 0
  BY <1>4
<1> QED
  BY <1>7, <1>8, <1>9, <1>10 DEF ReaderInv

(* Whatever arrives, the client's side stays in order.                      *)
LEMMA ReceiveStep ==
  ASSUME IInv, NEW a, Shaped(a), Receive(a)
  PROVE  AskedInv' /\ KnownInv' /\ ReaderInv'
<1>1. AskedInv'
  BY DEF Receive, AskedInv, Idle
<1>2. KnownInv'
  <2>1. CASE Accepts(asked, a) /\ asked.op = "put"
    <3>1. ReceiptMatches(asked, a) /\ ValidPut(asked) /\ asked.data \in Seq(Byte)
      BY <2>1 DEF Accepts, IInv, AskedInv
    <3>2. a.info.hash = SHA256(asked.data) /\ a.info.hash \in Seq(Byte)
      BY <2>1, <3>1 DEF ReceiptMatches, ValidPut, Shaped
    <3>3. known' = [known EXCEPT ![a.info.ref] = [data |-> asked.data, hash |-> a.info.hash]]
      BY <2>1 DEF Receive
    <3> QED
      BY <3>1, <3>2, <3>3 DEF IInv, KnownInv
  <2>2. CASE ~(Accepts(asked, a) /\ asked.op = "put")
    <3>1. known' = known
      BY <2>2 DEF Receive
    <3> QED
      BY <3>1 DEF IInv, KnownInv
  <2> QED
    BY <2>1, <2>2
<1>3. ReaderInv'
  <2>1. CASE Accepts(asked, a) /\ Extends(asked)
    <3>1. reader' = Appended(a)
      BY <2>1 DEF Receive
    <3> QED
      BY <2>1, <3>1, ReaderStep
  <2>2. CASE ~(Accepts(asked, a) /\ Extends(asked))
    <3>1. reader' = reader
      BY <2>2 DEF Receive
    <3> QED
      BY <3>1 DEF IInv, ReaderInv, ReaderType
  <2> QED
    BY <2>1, <2>2
<1> QED
  BY <1>1, <1>2, <1>3

LEMMA ErrorStep ==
  ASSUME IInv, ReceiveError
  PROVE  AskedInv' /\ KnownInv' /\ ReaderInv'
<1>1. AskedInv'
  BY DEF ReceiveError, AskedInv, Idle
<1>2. UNCHANGED <<known, reader>>
  BY DEF ReceiveError
<1> QED
  BY <1>1, <1>2 DEF IInv, KnownInv, ReaderInv, ReaderType

LEMMA StoresStep ==
  ASSUME IInv, HostStores
  PROVE  IInv'
<1>1. PICK r \in Ref :
        /\ store' = [store EXCEPT ![r] = [data |-> asked.data, meta |-> asked.meta]]
        /\ \/ ReceiveError
           \/ Receive(Described([ref |-> r, length |-> Len(asked.data),
                                 hash |-> SHA256(asked.data), meta |-> asked.meta,
                                 wellFormed |-> TRUE]))
  BY DEF HostStores
<1>2. asked.data \in Seq(Byte) /\ asked.meta \in Meta /\ Len(asked.data) \in 1 .. MaxResultBytes
  BY DEF HostStores, IInv, AskedInv, ValidPut
<1>3. StoreInv'
  BY <1>1, <1>2 DEF IInv, StoreInv
<1>4. AskedInv' /\ KnownInv' /\ ReaderInv'
  <2>1. CASE ReceiveError
    BY <2>1, ErrorStep
  <2>2. CASE Receive(Described([ref |-> r, length |-> Len(asked.data),
                                hash |-> SHA256(asked.data), meta |-> asked.meta,
                                wellFormed |-> TRUE]))
    <3>1. Shaped(Described([ref |-> r, length |-> Len(asked.data),
                            hash |-> SHA256(asked.data), meta |-> asked.meta,
                            wellFormed |-> TRUE]))
      BY <1>2 DEF HostStores, Shaped, Described, SHA256
    <3> QED
      BY <2>2, <3>1, ReceiveStep
  <2> QED
    BY <1>1, <2>1, <2>2
<1> QED
  BY <1>3, <1>4 DEF IInv

LEMMA StoredIsBytes ==
  ASSUME StoreInv, NEW r \in Ref
  PROVE  store[r].data \in Seq(Byte)
BY DEF StoreInv

LEMMA ChunkShape ==
  ASSUME IInv, asked.op = "read", asked.offset < Len(store[asked.ref].data)
  PROVE  LET c == ChunkOf(asked)
             data == store[asked.ref].data
             end == Least(asked.offset + asked.limit, Len(data))
         IN  /\ c.data \in Seq(Byte) /\ Len(c.data) = end - asked.offset
             /\ c.data = SubSeq(data, asked.offset + 1, end)
             /\ end \in 1 .. Len(data) /\ asked.offset < end
             /\ end <= asked.offset + asked.limit
             /\ c.complete = (end = Len(data)) /\ c.complete \in BOOLEAN
             /\ c.info = InfoOf(asked.ref) /\ c.offset = asked.offset
<1> DEFINE data == store[asked.ref].data
           end == Least(asked.offset + asked.limit, Len(data))
<1>1. /\ asked.offset \in Nat /\ asked.limit \in Nat \ {0} /\ data \in Seq(Byte)
      /\ asked.offset < Len(data)
  BY StoredIsBytes, Bounds DEF IInv, AskedInv
<1>2. Len(data) \in Nat
  BY <1>1
<1>3. end \in 1 .. Len(data) /\ asked.offset < end /\ end <= asked.offset + asked.limit
  BY <1>1, <1>2 DEF Least
<1> HIDE DEF end, data
<1>4. /\ SubSeq(data, asked.offset + 1, end) \in Seq(Byte)
      /\ Len(SubSeq(data, asked.offset + 1, end)) = end - asked.offset
  BY <1>1, <1>2, <1>3, SubSeqProperties
<1>5. /\ ChunkOf(asked).data = SubSeq(data, asked.offset + 1, end)
      /\ ChunkOf(asked).complete = (end = Len(data))
      /\ ChunkOf(asked).info = InfoOf(asked.ref)
      /\ ChunkOf(asked).offset = asked.offset
  BY DEF ChunkOf, data, end
<1> QED
  BY <1>3, <1>4, <1>5 DEF data, end

LEMMA ReadsStep ==
  ASSUME IInv, HostReads
  PROVE  IInv'
<1>1. PICK a \in Proper(asked) : Receive(a)
  BY DEF HostReads
<1>2. Shaped(a)
  <2>1. asked.op # "put"
    BY DEF HostReads
  <2>2. ASSUME asked.op = "read"
        PROVE  a.data \in Seq(Byte) /\ a.info.hash \in Seq(Byte) /\ a.complete \in BOOLEAN
    <3>1. asked.offset < Len(store[asked.ref].data) /\ a = ChunkOf(asked)
      BY <2>2 DEF Proper
    <3>2. InfoOf(asked.ref).hash = store[asked.ref].data /\ asked.ref \in Ref
      BY <2>2 DEF InfoOf, SHA256, IInv, AskedInv
    <3> QED
      BY <2>2, <3>1, <3>2, ChunkShape, StoredIsBytes DEF IInv
  <2> QED
    BY <2>1, <2>2 DEF Shaped
<1>3. StoreInv'
  BY DEF HostReads, IInv, StoreInv
<1> QED
  BY <1>1, <1>2, <1>3, ReceiveStep DEF IInv

LEMMA StraysStep ==
  ASSUME IInv, HostStrays
  PROVE  IInv'
<1>1. PICK i \in Imagined(asked) :
        \E near \in NearlyRight(i) : \E a \in Stray(asked, near) : Receive(a)
  BY DEF HostStrays
<1>2. PICK near \in NearlyRight(i) : \E a \in Stray(asked, near) : Receive(a)
  BY <1>1
<1>3. PICK a \in Stray(asked, near) : Receive(a)
  BY <1>2
<1>4. Shaped(a)
  <2>1. ASSUME asked.op = "read"
        PROVE  a.data \in Seq(Byte) /\ a.info.hash \in Seq(Byte) /\ a.complete \in BOOLEAN
    <3>1. PICK d \in Contents, m \in Meta :
            i = [ref |-> asked.ref, length |-> Len(d), hash |-> SHA256(d), meta |-> m,
                 wellFormed |-> TRUE]
      BY <2>1 DEF Imagined
    <3>2. i.hash \in Contents
      BY <3>1 DEF SHA256
    <3>3. near.hash \in Contents
      BY <3>1, <3>2 DEF NearlyRight
    <3>4. a.info = near /\ a.data \in Chunks /\ a.complete \in BOOLEAN
      BY <2>1 DEF Stray
    <3> QED
      BY <3>3, <3>4, ContentsAssumption
  <2>2. ASSUME asked.op = "put"
        PROVE  a.info.ref \in Ref /\ a.info.hash \in Seq(Byte)
    <3>1. i \in [ref : Ref, length : {asked.length}, hash : {asked.hash}, meta : {asked.meta},
                 wellFormed : {TRUE}]
      <4>1. Imagined(asked) = [ref : Ref, length : {asked.length}, hash : {asked.hash},
                               meta : {asked.meta}, wellFormed : {TRUE}]
        BY <2>2 DEF Imagined
      <4> QED
        BY <4>1
    <3>2. asked.hash \in Seq(Byte)
      BY <2>2 DEF IInv, AskedInv, ValidPut, SHA256
    <3>3. near.ref \in Ref /\ near.hash \in {asked.hash} \cup Contents
      BY <3>1 DEF NearlyRight
    <3>4. a.info = near
      BY <2>2 DEF Stray, Described
    <3> QED
      BY <3>2, <3>3, <3>4, ContentsAssumption
  <2> QED
    BY <2>1, <2>2 DEF Shaped
<1>5. StoreInv'
  BY DEF HostStrays, IInv, StoreInv
<1> QED
  BY <1>3, <1>4, <1>5, ReceiveStep DEF IInv

-----------------------------------------------------------------------------
LEMMA AskStep ==
  ASSUME IInv, NEW q, Ask(q),
         \/ q \in Requests
         \/ q.op = "read" /\ q.ref \in Ref \cup {NoRef} /\ q.offset \in Nat /\ q.limit \in Nat
  PROVE  IInv'
<1>1. asked' = q /\ Valid(q) /\ UNCHANGED <<store, known, reader>>
  BY DEF Ask
<1>2. AskedInv'
  <2>1. CASE q.op = "read"
    <3>1. ValidRead(q)
      BY <1>1, <2>1 DEF Valid
    <3>2. q.offset \in Int /\ q.ref \in Ref \cup {NoRef}
      <4>1. CASE q \in Requests
        <5>1. q \in ReadRequests
          BY <2>1, <4>1 DEF Requests, PutRequests, PageRequests, InfoRequests
        <5>2. q.offset \in Offsets /\ q.ref \in Ref \cup {NoRef}
          BY <5>1 DEF ReadRequests
        <5>3. Offsets \subseteq Int
          BY Bounds, OffsetsAssumption
        <5> QED
          BY <5>2, <5>3
      <4>2. CASE q \notin Requests
        BY <4>2
      <4> QED
        BY <4>1, <4>2
    <3> QED
      BY <1>1, <2>1, <3>1, <3>2 DEF ValidRead, ValidRef, AskedInv
  <2>2. CASE q.op # "read"
    <3>1. q \in PutRequests \cup PageRequests \cup InfoRequests
      BY <2>2 DEF Requests, ReadRequests
    <3> QED
      BY <1>1, <3>1, ContentsAssumption
         DEF Valid, ValidPage, ValidRef, AskedInv, PutRequests, PageRequests, InfoRequests
  <2> QED
    BY <2>1, <2>2
<1> QED
  BY <1>1, <1>2 DEF IInv, StoreInv, KnownInv, ReaderInv, ReaderType

LEMMA InitInv == Init => IInv
<1> SUFFICES ASSUME Init PROVE IInv
  OBVIOUS
<1>1. StoreInv
  BY DEF Init, StoreInv, Nothing
<1>2. AskedInv /\ KnownInv
  BY DEF Init, AskedInv, KnownInv, Idle, Unknown
<1>3. ReaderInv
  BY Bounds DEF Init, ReaderInv, ReaderType, NewReader
<1> QED
  BY <1>1, <1>2, <1>3 DEF IInv

LEMMA Invariance == Spec => []IInv
<1>1. ASSUME IInv, [Next]_vars
      PROVE  IInv'
  <2>1. ASSUME NEW q \in Requests, Ask(q)
        PROVE  IInv'
    BY <1>1, <2>1, AskStep
  <2>2. ASSUME ReadOn
        PROVE  IInv'
    <3>1. PICK limit \in 1 .. MaxResultReadBytes : Ask(NextChunk(limit))
      BY <2>2 DEF ReadOn
    <3>2. /\ NextChunk(limit).op = "read" /\ NextChunk(limit).ref \in Ref \cup {NoRef}
          /\ NextChunk(limit).offset \in Nat /\ NextChunk(limit).limit \in Nat
      BY <1>1, Bounds DEF NextChunk, IInv, ReaderInv, ReaderType
    <3> QED
      BY <1>1, <3>1, <3>2, AskStep
  <2>3. ASSUME NEW r \in Ref, StartReading(r)
        PROVE  IInv'
    <3>1. ReaderInv'
      BY <2>3, Bounds DEF StartReading, ReaderInv, ReaderType, NewReader
    <3> QED
      BY <1>1, <2>3, <3>1 DEF StartReading, IInv, StoreInv, AskedInv, KnownInv
  <2>4. ASSUME Refuses
        PROVE  IInv'
    BY <1>1, <2>4, ErrorStep DEF Refuses, IInv, StoreInv
  <2>5. CASE UNCHANGED <<store, asked, known, reader>>
    BY <1>1, <2>5 DEF IInv, StoreInv, AskedInv, ValidPut, KnownInv, ReaderInv, ReaderType
  <2>6. LeaseEnds \/ UNCHANGED vars => UNCHANGED <<store, asked, known, reader>>
    BY DEF LeaseEnds, vars
  <2> QED
    BY <1>1, <2>1, <2>2, <2>3, <2>4, <2>5, <2>6, StoresStep, ReadsStep, StraysStep
       DEF Next, Host
<1> QED
  BY <1>1, InitInv, PTL DEF Spec

-----------------------------------------------------------------------------
(* With any Host, a result that was read to its end has the length that was *)
(* told and, read in one chunk, the digest.                                 *)
THEOREM CompleteResultsAreConsistent == Spec => []CompleteIsConsistent
<1>1. IInv => CompleteIsConsistent
  BY DEF IInv, ReaderInv, CompleteIsConsistent
<1> QED
  BY <1>1, Invariance, PTL

(* With any Host, what is read in one chunk under the digest of a receipt   *)
(* is what was put.                                                         *)
THEOREM DigestsPin == Spec => []DigestPinsContents
<1>1. IInv => DigestPinsContents
  BY DEF IInv, KnownInv, ReaderInv, DigestPinsContents, SHA256
<1> QED
  BY <1>1, Invariance, PTL

(* A store that keeps to the contract is never turned down: whatever part   *)
(* of a result of at most MaxResultBytes is asked for.                      *)
THEOREM ContractIsAccepted == Spec => []HonestIsAccepted
<1>1. ASSUME IInv
      PROVE  HonestIsAccepted
  <2> SUFFICES ASSUME asked.op \in {"read", "page", "info"}, store[asked.ref] # Nothing,
                      NEW a \in Proper(asked)
               PROVE  Accepts(asked, a)
    BY DEF HonestIsAccepted
  <2> DEFINE data == store[asked.ref].data
  <2>1. asked.ref \in Ref
    BY <1>1 DEF IInv, AskedInv
  <2>2. data \in Seq(Byte) /\ Len(data) \in 1 .. MaxResultBytes
    BY <1>1, <2>1 DEF IInv, StoreInv
  <2>3. /\ InfoOf(asked.ref).ref = asked.ref /\ InfoOf(asked.ref).length = Len(data)
        /\ InfoOf(asked.ref).hash = data /\ validateResultInfo(InfoOf(asked.ref))
    BY <2>2 DEF InfoOf, SHA256, validateResultInfo
  <2>4. CASE asked.op = "info"
    BY <2>3, <2>4 DEF Proper, Described, Accepts
  <2>5. CASE asked.op = "page"
    <3>1. PICK n \in 0 .. asked.limit : a = Page(InfoOf(asked.ref), n, TRUE)
      BY <2>5 DEF Proper
    <3>2. a.info = InfoOf(asked.ref) /\ a.items <= asked.limit /\ a.fits
      BY <3>1 DEF Page
    <3> QED
      BY <2>3, <2>5, <3>2 DEF Accepts, PageMatches
  <2>6. CASE asked.op = "read"
    <3>1. asked.offset < Len(data) /\ a = ChunkOf(asked)
      BY <2>6 DEF Proper
    <3> DEFINE end == Least(asked.offset + asked.limit, Len(data))
    <3>2. /\ a.data \in Seq(Byte) /\ Len(a.data) = end - asked.offset
          /\ a.data = SubSeq(data, asked.offset + 1, end)
          /\ end \in 1 .. Len(data) /\ asked.offset < end
          /\ end <= asked.offset + asked.limit
          /\ a.complete = (end = Len(data))
          /\ a.info = InfoOf(asked.ref) /\ a.offset = asked.offset
      BY <1>1, <2>6, <3>1, ChunkShape
    <3> HIDE DEF end
    <3>3. asked.offset \in Nat /\ asked.limit \in Nat
      BY <1>1, <2>6, Bounds DEF IInv, AskedInv
    <3>4. Len(a.data) <= asked.limit /\ asked.offset + Len(a.data) = end
          /\ end <= Len(data) /\ end <= MaxInt /\ end \in Int
      <4>1. Len(data) \in Nat /\ Len(data) <= MaxInt
        BY <2>2, Bounds
      <4> HIDE DEF data
      <4>2. Len(data) \in Nat /\ end \in 1 .. Len(data)
        BY <3>2, <4>1 DEF data
      <4>3. end \in Int /\ end <= Len(data) /\ end <= MaxInt
        BY <4>1, <4>2, Bounds
      <4>4. Len(a.data) = end - asked.offset /\ end <= asked.offset + asked.limit
        BY <3>2
      <4>5. asked.offset \in Int /\ asked.limit \in Int
        BY <3>3
      <4>6. asked.offset + Len(a.data) = end /\ Len(a.data) <= asked.limit
        BY <4>3, <4>4, <4>5
      <4> QED
        BY <4>3, <4>6
    <3>5. Wrap(a.offset + Len(a.data)) = end
      <4>1. Wrap(end) = end
        BY <3>4, NoWrap
      <4> QED
        BY <3>2, <3>4, <4>1, Zenon
    <3>6. a.offset = 0 /\ a.complete => SHA256(a.data) = a.info.hash
      <4>1. ASSUME asked.offset = 0, end = Len(data)
            PROVE  a.data = data
        BY <2>2, <3>2, <4>1
      <4> QED
        BY <2>3, <3>2, <4>1 DEF SHA256
    <3>7. ChunkMatches(asked, a)
      BY <2>3, <3>2, <3>4, <3>5, <3>6, Zenon DEF ChunkMatches
    <3> QED
      BY <2>3, <2>6, <3>2, <3>7, Zenon DEF Accepts
  <2> QED
    BY <2>4, <2>5, <2>6
<1> QED
  BY <1>1, Invariance, PTL
=============================================================================
