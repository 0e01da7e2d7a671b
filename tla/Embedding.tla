------------------------------- MODULE Embedding -------------------------------
(***************************************************************************)
(* embedding.go and embeddingService.Embed: the request the client checks  *)
(* before it sends it, and the answer of any Host it checks before it      *)
(* hands it on.  Everything that pins a model but its dimensions and its   *)
(* normalisation is one value; a text is its number of bytes and whether   *)
(* it is proper (not blank, valid UTF-8); a component of a vector is a     *)
(* small integer or NonFinite, and a vector is normalised if the sum of    *)
(* its squares is 1 (the tolerance of 1e-3 is left out).                   *)
(***************************************************************************)
EXTENDS Integers, Sequences, FiniteSetsExt

CONSTANTS
  MaxEmbeddingInputs, MaxEmbeddingInputBytes, MaxEmbeddingTotalInputBytes,
  MaxEmbeddingDimensions,
  NonFinite,   \* a component that is NaN or infinite
  Exchanges    \* [request, response : ..., scoped : BOOLEAN]

ASSUME ExchangesAssumption == \A x \in Exchanges :
  /\ x.request.inputs \in Seq([index : Int, proper : BOOLEAN, bytes : Nat])
  /\ x.response.vectors \in Seq([index : Int, values : Seq({NonFinite} \cup Int)])

VARIABLE exchange   \* a request, the Host's answer, and whether a user's request is handled

EmbeddingInit == exchange \in Exchanges
EmbeddingNext == UNCHANGED exchange
EmbeddingSpec == EmbeddingInit /\ [][EmbeddingNext]_exchange

-----------------------------------------------------------------------------
ValidModel(m) ==
  /\ m.identity # "invalid"
  /\ m.dimensions \in 1 .. MaxEmbeddingDimensions
  /\ m.pooling \in {"l2", "none"}

Bytes(inputs) == MapThenSumSet(LAMBDA i : inputs[i].bytes, DOMAIN inputs)

\* EmbeddingRequest.Validate.  Indexes count from 0.
ValidRequest(r) ==
  /\ ValidModel(r.model)
  /\ Len(r.inputs) \in 1 .. MaxEmbeddingInputs
  /\ \A i \in DOMAIN r.inputs :
       /\ r.inputs[i].index = i - 1
       /\ r.inputs[i].proper
       /\ r.inputs[i].bytes <= MaxEmbeddingInputBytes
  /\ Bytes(r.inputs) <= MaxEmbeddingTotalInputBytes

Norm2(values) == MapThenSumSet(LAMBDA i : values[i] * values[i], DOMAIN values)

ValidVector(v, m) ==
  /\ Len(v.values) = m.dimensions
  /\ \A i \in DOMAIN v.values : v.values[i] # NonFinite
  /\ Norm2(v.values) # 0
  /\ m.pooling = "l2" => Norm2(v.values) = 1

\* Fault: the vectors may come in any order.
ValidateFor_AnyOrder(response, r) ==
  /\ response.model = r.model
  /\ Len(response.vectors) = Len(r.inputs)
  /\ \A i \in DOMAIN response.vectors :
       /\ \E j \in DOMAIN r.inputs : response.vectors[i].index = r.inputs[j].index
       /\ ValidVector(response.vectors[i], r.model)

\* EmbeddingResponse.ValidateFor.
ValidateFor(response, r) ==
  /\ response.model = r.model
  /\ Len(response.vectors) = Len(r.inputs)
  /\ \A i \in DOMAIN response.vectors :
       /\ response.vectors[i].index = r.inputs[i].index
       /\ ValidVector(response.vectors[i], r.model)

\* embeddingService.Embed: nothing is sent for a request that is not valid or has no user.
Sent(x) == ValidRequest(x.request) /\ x.scoped
HandedOn(x) == Sent(x) /\ ValidateFor(x.response, x.request)

-----------------------------------------------------------------------------
\* Reference: the vector an extension would look up for the input at a place.
VectorOf(x, i) == CHOOSE v \in {x.response.vectors[j] : j \in DOMAIN x.response.vectors} :
                    v.index = i - 1

(* However the Host shuffles, repeats, drops or mixes up what it answers:   *)
(* an extension that is handed an answer can read it by position or by      *)
(* index with the same result, finds one vector per input, and none it      *)
(* would divide by zero with, and every vector is of the model it asked     *)
(* for.                                                                     *)
EmbeddingsAnswerInputs ==
  HandedOn(exchange) =>
    LET x == exchange
        vectors == x.response.vectors
    IN /\ {vectors[j].index : j \in DOMAIN vectors} = {i - 1 : i \in DOMAIN x.request.inputs}
       /\ \A i \in DOMAIN x.request.inputs : vectors[i] = VectorOf(x, i)
       /\ \A v \in {vectors[j] : j \in DOMAIN vectors} :
            Len(v.values) = x.request.model.dimensions /\ \E k \in DOMAIN v.values : v.values[k] # 0
       /\ x.response.model = x.request.model
       /\ Len(x.request.inputs) <= MaxEmbeddingInputs
=============================================================================
