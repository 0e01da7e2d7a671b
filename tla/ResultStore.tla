----------------------------- MODULE ResultStore -----------------------------
(***************************************************************************)
(* The result store as an extension sees it: resultStoreService validates  *)
(* a request, sends it once, and validates what comes back before handing  *)
(* it on; serveResults in the Host checks the capability and the principal *)
(* and asks the store.  The Host is any Host: each answer may be the       *)
(* contract's or an arbitrary one.                                         *)
(*                                                                         *)
(* A byte string is a short sequence, its SHA-256 the string itself (no    *)
(* two collide), and what a result says of its MIME type and source one    *)
(* value.  Offsets are signed integers of IntWidth bits, and so is the sum *)
(* the client compares with the length.  The reader that asks for the next *)
(* chunk where the last one ended is the extension's own loop.             *)
(***************************************************************************)
EXTENDS Integers, Sequences

CONSTANTS
  Byte,
  Ref, NoRef,      \* references the Host may hand out, and a malformed one
  Contents,        \* the byte strings an extension stores
  Chunks,          \* the byte strings an arbitrary answer may carry
  Meta,            \* MIME type and source, as one value
  MaxResultBytes, MaxResultReadBytes, MaxResultPageItems,
  IntWidth,        \* bits of an offset (64 in the code)
  Offsets          \* the offsets asked for

MaxInt == 2 ^ (IntWidth - 1) - 1

ASSUME NoRefAssumption == NoRef \notin Ref
ASSUME ContentsAssumption == Contents \subseteq Seq(Byte) /\ Chunks \subseteq Seq(Byte)
ASSUME BoundsAssumption ==
  /\ {MaxResultBytes, MaxResultReadBytes, MaxResultPageItems, IntWidth} \subseteq Nat \ {0}
  /\ MaxResultReadBytes <= MaxResultBytes
  /\ MaxInt \in Nat /\ MaxResultBytes + MaxResultReadBytes <= MaxInt
ASSUME OffsetsAssumption == Offsets \subseteq -1 .. MaxInt

VARIABLES
  honest,    \* whether the Host keeps to the contract
  granted,   \* the capabilities the extension was granted
  lease,     \* the user's request: "none", "live", "ended"
  store,     \* the Host's results: what each reference holds, or Nothing
  asked,     \* the request being served, or Idle
  known,     \* history: for each accepted receipt, the data sent and the digest told
  reader     \* the reading loop, as far as it has come

vars == <<honest, granted, lease, store, asked, known, reader>>

Nothing == [data |-> <<>>, meta |-> "none"]
Unknown == [data |-> <<>>, hash |-> <<>>]
Idle    == [op |-> "none"]

SHA256(data) == data

PutRequests ==
  [op : {"put"}, data : Contents, length : 0 .. MaxResultBytes + 1, hash : Contents, meta : Meta]
ReadRequests ==
  [op : {"read"}, ref : Ref \cup {NoRef}, offset : Offsets, limit : 0 .. MaxResultReadBytes + 1]
PageRequests ==
  [op : {"page"}, ref : Ref, limit : 0 .. MaxResultPageItems + 1, wellFormed : BOOLEAN]
InfoRequests == [op : {"info"}, ref : Ref \cup {NoRef}]
Requests == PutRequests \cup ReadRequests \cup PageRequests \cup InfoRequests

\* "wellFormed" stands for the status, the digests' form and the timestamps.
Info == [ref : Ref, length : 0 .. MaxResultBytes + 1, hash : Seq(Byte), meta : Meta,
         wellFormed : BOOLEAN]

TypeOK ==
  /\ honest \in BOOLEAN
  /\ granted \subseteq {"result.write", "result.read"}
  /\ lease \in {"none", "live", "ended"}
  /\ store \in [Ref -> [data : Contents, meta : Meta] \cup {Nothing}]
  /\ asked \in Requests \cup {Idle}
  /\ known \in [Ref -> [data : Contents, hash : Contents] \cup {Unknown}]
  /\ reader.ref \in Ref \cup {NoRef}
  /\ reader.bytes \in Seq(Byte) /\ Len(reader.bytes) <= MaxResultBytes
  /\ reader.total \in 0 .. MaxResultBytes
  /\ reader.hash \in Seq(Byte)
  /\ reader.chunks \in 0 .. 2
  /\ reader.complete \in BOOLEAN

NewReader(r) == [ref |-> r, bytes |-> <<>>, total |-> 0, hash |-> <<>>,
                 chunks |-> 0, complete |-> FALSE]

Init ==
  /\ honest \in BOOLEAN
  /\ granted \in SUBSET {"result.write", "result.read"}
  /\ lease \in {"none", "live"}
  /\ store = [r \in Ref |-> Nothing]
  /\ asked = Idle
  /\ known = [r \in Ref |-> Unknown]
  /\ reader = NewReader(NoRef)

-----------------------------------------------------------------------------
(***************************************************************************)
(* What the client checks before it sends.                                 *)
(***************************************************************************)
Need(q) == IF q.op = "put" THEN "result.write" ELSE "result.read"

ValidRef(r) == r # NoRef

ValidPut(q) ==
  /\ Len(q.data) \in 1 .. MaxResultBytes
  /\ q.length = Len(q.data)
  /\ q.hash = SHA256(q.data)

\* Fault: an offset of zero is taken for one that was not set.
ValidRead_FromOne(q) ==
  /\ ValidRef(q.ref)
  /\ q.offset >= 1
  /\ q.limit \in 1 .. MaxResultReadBytes

ValidRead(q) ==
  /\ ValidRef(q.ref)
  /\ q.offset >= 0
  /\ q.limit \in 1 .. MaxResultReadBytes

ValidPage(q) ==
  /\ ValidRef(q.ref)
  /\ q.limit \in 1 .. MaxResultPageItems
  /\ q.wellFormed

Valid(q) ==
  \/ q.op = "put" /\ ValidPut(q)
  \/ q.op = "read" /\ ValidRead(q)
  \/ q.op = "page" /\ ValidPage(q)
  \/ q.op = "info" /\ ValidRef(q.ref)

Least(m, n) == IF m <= n THEN m ELSE n

semanticRequestScoped == lease # "none"

\* A call refused here changes nothing; one that is not is sent, once.
Ask(q) ==
  /\ asked = Idle
  /\ Need(q) \in granted
  /\ Valid(q)
  /\ semanticRequestScoped
  /\ asked' = q
  /\ UNCHANGED <<honest, granted, lease, store, known, reader>>

\* The extension's loop starts over, or asks for the chunk after the last one.
StartReading(r) ==
  /\ asked = Idle
  /\ reader' = NewReader(r)
  /\ UNCHANGED <<honest, granted, lease, store, asked, known>>

NextChunk(limit) ==
  [op |-> "read", ref |-> reader.ref, offset |-> Len(reader.bytes), limit |-> limit]

-----------------------------------------------------------------------------
(***************************************************************************)
(* What the client checks in the answer.                                   *)
(***************************************************************************)
\* Two's complement: the sum of two int64 values.
Wrap(n) == IF n > MaxInt THEN n - 2 ^ IntWidth ELSE n

validateResultInfo(i) == i.wellFormed /\ i.length \in 1 .. MaxResultBytes

\* Fault: only the length is compared.
ReceiptMatches_LengthOnly(q, a) == a.info.length = q.length

ReceiptMatches(q, a) ==
  /\ a.info.length = q.length
  /\ a.info.hash = q.hash
  /\ a.info.meta = q.meta

\* Fault: the mark of the last chunk is believed.
ChunkMatches_BelievesComplete(q, a) ==
  LET end == Wrap(a.offset + Len(a.data))
  IN /\ a.info.ref = q.ref
     /\ a.offset = q.offset
     /\ Len(a.data) <= q.limit
     /\ end <= a.info.length

\* Fault: the digest of every last chunk is compared, not that of a whole result.
ChunkMatches_HashesLast(q, a) ==
  LET end == Wrap(a.offset + Len(a.data))
  IN /\ a.info.ref = q.ref
     /\ a.offset = q.offset
     /\ Len(a.data) <= q.limit
     /\ end <= a.info.length
     /\ a.complete = (end = a.info.length)
     /\ a.complete => SHA256(a.data) = a.info.hash

ChunkMatches(q, a) ==
  LET end == Wrap(a.offset + Len(a.data))
  IN /\ a.info.ref = q.ref
     /\ a.offset = q.offset
     /\ Len(a.data) <= q.limit
     /\ end <= a.info.length
     /\ a.complete = (end = a.info.length)
     /\ a.offset = 0 /\ a.complete => SHA256(a.data) = a.info.hash

PageMatches(q, a) ==
  /\ a.info.ref = q.ref
  /\ a.items <= q.limit
  /\ a.fits

Accepts(q, a) ==
  /\ validateResultInfo(a.info)
  /\ \/ q.op = "put" /\ ReceiptMatches(q, a)
     \/ q.op = "read" /\ ChunkMatches(q, a)
     \/ q.op = "page" /\ PageMatches(q, a)
     \/ q.op = "info" /\ a.info.ref = q.ref

\* The loop takes a chunk that continues what it has.
Extends(q) == q.op = "read" /\ q.ref = reader.ref /\ ~reader.complete
              /\ q.offset = Len(reader.bytes)

Appended(a) ==
  [ref |-> reader.ref, bytes |-> reader.bytes \o a.data,
   chunks |-> Least(2, reader.chunks + 1), complete |-> a.complete,
   total |-> IF a.complete THEN a.info.length ELSE 0,
   hash |-> IF a.complete THEN a.info.hash ELSE <<>>]

\* The answer arrives: it is handed on if it passes, an error otherwise.
Receive(a) ==
  /\ asked' = Idle
  /\ known' = IF Accepts(asked, a) /\ asked.op = "put"
              THEN [known EXCEPT ![a.info.ref] = [data |-> asked.data, hash |-> a.info.hash]]
              ELSE known
  /\ reader' = IF Accepts(asked, a) /\ Extends(asked) THEN Appended(a) ELSE reader
  /\ UNCHANGED <<honest, granted, lease>>

\* The call ends in an error: a refusal of the Host's, or an answer that is lost.
ReceiveError ==
  /\ asked' = Idle
  /\ UNCHANGED <<honest, granted, lease, known, reader>>

-----------------------------------------------------------------------------
(***************************************************************************)
(* The Host.                                                               *)
(***************************************************************************)
InfoOf(r) == [ref |-> r, length |-> Len(store[r].data), hash |-> SHA256(store[r].data),
              meta |-> store[r].meta, wellFormed |-> TRUE]

\* The chunk of a result the contract asks for.
ChunkOf(q) ==
  LET data == store[q.ref].data
      end  == Least(q.offset + q.limit, Len(data))
  IN [info |-> InfoOf(q.ref), offset |-> q.offset,
      data |-> SubSeq(data, q.offset + 1, end), complete |-> end = Len(data)]

Described(i)          == [info |-> i]
Page(i, items, fits)  == [info |-> i, items |-> items, fits |-> fits]

\* A refusal - serveResults denies a principal that is no longer live, the
\* store a reference it does not know - or the loss of the connection.
Refuses ==
  /\ asked # Idle
  /\ ReceiveError
  /\ UNCHANGED store

\* The new result's receipt may be lost on its way, and is not sent again.
HostStores ==
  /\ asked.op = "put" /\ lease = "live"
  /\ \E r \in Ref :
       /\ store[r] = Nothing
       /\ store' = [store EXCEPT ![r] = [data |-> asked.data, meta |-> asked.meta]]
       /\ \/ ReceiveError
          \/ Receive(Described([ref |-> r, length |-> Len(asked.data),
                                hash |-> SHA256(asked.data), meta |-> asked.meta,
                                wellFormed |-> TRUE]))

\* The answers of a store that keeps to the contract.
Proper(q) ==
  CASE q.op = "read" -> IF q.offset < Len(store[q.ref].data) THEN {ChunkOf(q)} ELSE {}
    [] q.op = "page" -> {Page(InfoOf(q.ref), n, TRUE) : n \in 0 .. q.limit}
    [] q.op = "info" -> {Described(InfoOf(q.ref))}

HostReads ==
  /\ asked.op \in {"read", "page", "info"} /\ lease = "live"
  /\ store[asked.ref] # Nothing
  /\ \E a \in Proper(asked) : Receive(a)
  /\ UNCHANGED store

\* Information that differs from the right one in one respect.
NearlyRight(i) ==
  {i} \cup {[i EXCEPT !.ref = r] : r \in Ref}
      \cup {[i EXCEPT !.length = n] : n \in 0 .. MaxResultBytes + 1}
      \cup {[i EXCEPT !.hash = h] : h \in Contents}
      \cup {[i EXCEPT !.meta = m] : m \in Meta}
      \cup {[i EXCEPT !.wellFormed = FALSE]}

Imagined(q) ==
  IF q.op = "put"
  THEN [ref : Ref, length : {q.length}, hash : {q.hash}, meta : {q.meta}, wellFormed : {TRUE}]
  ELSE {[ref |-> q.ref, length |-> Len(d), hash |-> SHA256(d), meta |-> m, wellFormed |-> TRUE] :
          d \in Contents, m \in Meta}

Stray(q, i) ==
  CASE q.op \in {"put", "info"} -> {Described(i)}
    [] q.op = "page" -> {Page(i, n, fits) : n \in 0 .. q.limit + 1, fits \in BOOLEAN}
    [] q.op = "read" -> [info : {i}, offset : {0, q.offset}, data : Chunks, complete : BOOLEAN]

\* Any answer at all to the request: a Host that breaks the contract.
HostStrays ==
  /\ asked # Idle /\ ~honest
  /\ \E near \in UNION {NearlyRight(i) : i \in Imagined(asked)} :
       \E a \in Stray(asked, near) : Receive(a)
  /\ UNCHANGED store

LeaseEnds ==
  /\ lease = "live"
  /\ lease' = "ended"
  /\ UNCHANGED <<honest, granted, store, asked, known, reader>>

Host == Refuses \/ HostStores \/ HostReads \/ HostStrays

ReadOn ==
  /\ reader.ref # NoRef /\ ~reader.complete
  /\ \E limit \in 1 .. MaxResultReadBytes : Ask(NextChunk(limit))

Next ==
  \/ \E q \in Requests : Ask(q)
  \/ ReadOn
  \/ \E r \in Ref : StartReading(r)
  \/ Host \/ LeaseEnds

\* Every call ends (each has a deadline); the loop is not kept from reading on
\* for ever, nor does the connection fail each time it does.
Fairness ==
  /\ WF_vars(Refuses)
  /\ SF_vars(ReadOn)
  /\ SF_vars(Extends(asked) /\ HostReads)

Spec == Init /\ [][Next]_vars /\ Fairness

-----------------------------------------------------------------------------
(***************************************************************************)
(* Properties.                                                             *)
(***************************************************************************)
\* With any Host, the loop ends with as many bytes as the length it was told,
\* and with the very bytes of the digest when one chunk was enough.
CompleteIsConsistent ==
  reader.complete =>
    /\ Len(reader.bytes) = reader.total
    /\ reader.chunks = 1 => SHA256(reader.bytes) = reader.hash

\* An answer that keeps to the contract is never turned down, whatever a part
\* of a result it is.
HonestIsAccepted ==
  asked.op \in {"read", "page", "info"} /\ store[asked.ref] # Nothing
    => \A a \in Proper(asked) : Accepts(asked, a)

\* With any Host, a result that is read in one chunk under the digest of its
\* receipt is the data that was put: neither a receipt for other data nor other
\* data under the right digest gets past the client.
DigestPinsContents ==
  \A r \in Ref :
    known[r] # Unknown /\ reader.complete /\ reader.chunks = 1 /\ reader.hash = known[r].hash
      => reader.bytes = known[r].data

\* With a Host that keeps to the contract, a loop that reads a stored result on
\* under a live request comes to its end: no chunk is turned down, accepted
\* without progress, or asked for in vain, for ever, whatever else the extension
\* asks in between and however many calls are lost.
ReadingEnds ==
  /\ <>[](/\ honest /\ lease = "live" /\ "result.read" \in granted
          /\ reader.ref # NoRef /\ store[reader.ref] # Nothing)
  /\ <>[][\A r \in Ref : reader' # NewReader(r)]_vars
  => <>[](reader.complete)

\* With any Host, a chunk that is accepted lies inside the result it is said to
\* be part of (semantic_services.go: "exceeds or contradicts the requested
\* bounds" is refused).
ChunkWithinResult ==
  asked.op = "read" =>
    \A near \in UNION {NearlyRight(i) : i \in Imagined(asked)} :
      \A a \in Stray(asked, near) :
        Accepts(asked, a) => a.offset + Len(a.data) \in 0 .. a.info.length
=============================================================================
