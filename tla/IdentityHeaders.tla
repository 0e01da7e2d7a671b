---------------------------- MODULE IdentityHeaders ----------------------------
(***************************************************************************)
(* extserver/identity.go: a user's identity in the headers of a proxied    *)
(* request, what the extension's middleware makes of them, and the user    *)
(* named in the calls the handler makes back to the Host.                  *)
(*                                                                         *)
(* A text is a sequence of characters: letters, the four that matter to    *)
(* the encodings (blank, plus, percent, comma) and the others that         *)
(* url.QueryEscape escapes.  Escaped is the pair of hexadecimal digits     *)
(* of each of the characters it escapes, as one more character.            *)
(* Headers carry the text as it is, less the blanks at its ends            *)
(* (net/textproto).  Department goes the way of Name and is left out.      *)
(***************************************************************************)
EXTENDS Integers, Sequences, SequencesExt

CONSTANTS
  Letter,      \* characters sent as they are
  Escaped,     \* escaped character -> its digits
  Identities   \* [user, name, requestID : texts, permissions : Seq(texts)]

Character == Letter \cup DOMAIN Escaped \cup {" "}

Identity ==
  [user : Seq(Character), name : Seq(Character), permissions : Seq(Seq(Character)),
   requestID : Seq(Character)]

ASSUME EscapedAssumption ==
  /\ {"+", "%", ","} \subseteq DOMAIN Escaped /\ " " \notin DOMAIN Escaped \cup Letter
  /\ \A c, d \in DOMAIN Escaped : c # d => Escaped[c] # Escaped[d]
  /\ \A c \in DOMAIN Escaped : Escaped[c] \notin DOMAIN Escaped \cup {" "}
  /\ DOMAIN Escaped \cap Letter = {}

ASSUME IdentitiesAssumption == Identities \subseteq Identity

VARIABLE identity   \* the identity the Host vouches for

IdentityInit == identity \in Identities
IdentityNext == UNCHANGED identity
IdentitySpec == IdentityInit /\ [][IdentityNext]_identity

-----------------------------------------------------------------------------
Blank(text) == \A i \in DOMAIN text : text[i] = " "

\* strings.TrimSpace, and what HTTP does to the value of a header.
TrimSpace(text) ==
  LET ink == {i \in DOMAIN text : text[i] # " "}
      first == CHOOSE i \in ink : \A j \in ink : i <= j
      last == CHOOSE i \in ink : \A j \in ink : j <= i
  IN IF ink = {} THEN <<>> ELSE SubSeq(text, first, last)

Transported(value) == TrimSpace(value)

\* url.QueryEscape.
Spelling(c) ==
  CASE c = " " -> <<"+">>
    [] c \in DOMAIN Escaped -> <<"%", Escaped[c]>>
    [] OTHER -> <<c>>

EncodeHeaderValue(text) == FlattenSeq([i \in DOMAIN text |-> Spelling(text[i])])

Unescapable(value) ==
  \A i \in DOMAIN value :
    value[i] = "%" => i < Len(value) /\ \E c \in DOMAIN Escaped : Escaped[c] = value[i + 1]

CharacterOf(digits) == CHOOSE c \in DOMAIN Escaped : Escaped[c] = digits

\* url.QueryUnescape of a value it can decode: what each character stands for.
Meaning(value, i) ==
  IF value[i] = "%" THEN <<>>
  ELSE IF i > 1 /\ value[i - 1] = "%" THEN <<CharacterOf(value[i])>>
  ELSE IF value[i] = "+" THEN <<" ">> ELSE <<value[i]>>

Unescape(value) == FlattenSeq([i \in DOMAIN value |-> Meaning(value, i)])

\* A value that cannot be decoded is taken as it is.
DecodeHeaderValue(value) == IF Unescapable(value) THEN Unescape(value) ELSE value

Unless(drop, text) == IF drop THEN <<>> ELSE <<text>>

WithoutBlank(texts) == FlattenSeq([k \in DOMAIN texts |-> Unless(Blank(texts[k]), texts[k])])

\* strings.Join and strings.Split, with commas.
Join(pieces) ==
  FlattenSeq([k \in DOMAIN pieces |-> (IF k = 1 THEN <<>> ELSE <<",">>) \o pieces[k]])

Commas(value) == FlattenSeq([i \in DOMAIN value |-> Unless(value[i] # ",", i)])

Split(value) ==
  LET cuts == <<0>> \o Commas(value) \o <<Len(value) + 1>>
  IN [k \in 1 .. Len(cuts) - 1 |-> SubSeq(value, cuts[k] + 1, cuts[k + 1] - 1)]

\* joinList: blank entries are dropped, the others encoded and joined.
joinList(texts) ==
  LET kept == WithoutBlank(texts) IN Join([k \in DOMAIN kept |-> EncodeHeaderValue(kept[k])])

\* Fault: the whole header is decoded before it is split.
splitList_DecodesFirst(value) ==
  LET pieces == Split(DecodeHeaderValue(value))
  IN FlattenSeq([k \in DOMAIN pieces |-> Unless(Blank(pieces[k]), TrimSpace(pieces[k]))])

\* splitList: each piece is trimmed, then decoded; empty ones are dropped.
splitList(value) ==
  LET pieces == Split(value)
      decoded == [k \in DOMAIN pieces |-> DecodeHeaderValue(TrimSpace(pieces[k]))]
  IN FlattenSeq([k \in DOMAIN pieces |-> Unless(decoded[k] = <<>>, decoded[k])])

\* SetIdentityHeaders, in the Host.
SetIdentityHeaders(id) ==
  [user |-> EncodeHeaderValue(id.user), name |-> EncodeHeaderValue(id.name),
   permissions |-> joinList(id.permissions), requestID |-> id.requestID]

\* identityFromRequest, in the extension.
identityFromRequest(h) ==
  [user |-> DecodeHeaderValue(TrimSpace(h.user)), name |-> DecodeHeaderValue(TrimSpace(h.name)),
   permissions |-> splitList(h.permissions), requestID |-> TrimSpace(h.requestID)]

\* What the extension receives.
Received(id) ==
  LET h == SetIdentityHeaders(id)
  IN identityFromRequest([field \in DOMAIN h |-> Transported(h[field])])

\* HeaderOnBehalfOf of a call the handler makes: the user as received, not encoded.
OnBehalfOf(id) == Transported(Received(id).user)

\* Host.principal compares it with the identity of the lease (Invoke has
\* turned down a blank user).
VouchedFor(id) == ~Blank(id.user) /\ OnBehalfOf(id) = id.user

-----------------------------------------------------------------------------
(* The handler sees the very user, name and permissions the Host vouched    *)
(* for: no comma, blank, plus or percent in one splits a permission in two, *)
(* joins two, or lets one user pass for another; of the lists only blank    *)
(* entries are lost, of the request's id only blanks at its ends.  And a    *)
(* call made back in the user's name is recognised, unless the user's id    *)
(* begins or ends with a blank, which the header that is not encoded loses. *)
IdentitySurvivesHeaders ==
  LET got == Received(identity)
  IN /\ got.user = identity.user
     /\ got.name = identity.name
     /\ got.permissions = WithoutBlank(identity.permissions)
     /\ got.requestID = TrimSpace(identity.requestID)
     /\ VouchedFor(identity) <=> ~Blank(identity.user) /\ TrimSpace(identity.user) = identity.user
=============================================================================
