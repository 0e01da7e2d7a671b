------------------------------- MODULE MCPackage -------------------------------
(***************************************************************************)
(* Model-checking instance of what an extension's package is judged by:    *)
(* Manifest, Versions, Lifecycle and ContractCheck, and of two pure parts  *)
(* of the process protocol, IdentityHeaders and Embedding.  Nothing is     *)
(* shared between them but the Manifest of the contract's check: an        *)
(* initial state varies one of them, its subject, and leaves the others    *)
(* at a default.                                                           *)
(***************************************************************************)
EXTENDS ContractCheck, Versions, Lifecycle, IdentityHeaders, Embedding

VARIABLE subject

allVars == <<contractVars, versionVars, lifecycleVars, identity, exchange, subject>>

UpTo(n, S) == UNION {[1 .. k -> S] : k \in 0 .. n}

-----------------------------------------------------------------------------
\* Versions.
Asked  == [1 .. 3 -> {0, 1}] \cup {<<1, 0, 2>>, <<0, 2, 0>>, <<2, 0, 1>>, <<>>, <<1>>, <<0, 2>>, <<1, -1, 0>>, <<1, 1, 1, 1>>}
Bounds == {<<1>>, <<0, 2>>, <<1, 0, 2>>, <<1, 1, 1>>, <<-1>>}
OddBounds == {<<>>, <<1, 1>>, <<1, 1, 1, 0>>}
AllTexts == Asked \cup Bounds \cup OddBounds
AllOperators == {">=", ">", "<=", "<", "=", "==", "none", "~"}
Tokens(texts) == [op : AllOperators, text : texts]
AllConstraints ==
  [blank : {FALSE}, tokens : UpTo(2, Tokens(Bounds)) \cup UpTo(1, Tokens(OddBounds))]
    \cup {[blank |-> TRUE, tokens |-> <<>>]}

-----------------------------------------------------------------------------
\* Identities: the letter 2C stands for the digits of an escaped comma in a text.
Letters == {"a", "2C"}
Digits == [c \in {"+", "%", ","} |-> CASE c = "+" -> "2B" [] c = "%" -> "25" [] OTHER -> "2C"]
Short == UpTo(2, Letters \cup {" ", "+", "%", ","})
Plain == <<"a">>
SomeIdentities ==
  [user : UpTo(3, Letters \cup {" ", "+", "%", ","}), name : {Plain},
   permissions : {<<>>}, requestID : {Plain}]
  \cup [user : {Plain}, name : Short, permissions : {<<>>, <<Plain>>}, requestID : {Plain}]
  \cup [user : {Plain}, name : {Plain}, permissions : {<<>>}, requestID : Short]
  \cup [user : {Plain}, name : {Plain}, permissions : UpTo(2, Short), requestID : {Plain}]

-----------------------------------------------------------------------------
\* Embeddings: two inputs at most, of two bytes each and three together.
Models == [identity : {"m", "invalid"}, dimensions : {0, 1, 2, 3}, pooling : {"l2", "none", "sum"}]
Chosen == {m \in Models : m.identity = "m" /\ m.dimensions \in {1, 2} /\ m.pooling \in {"l2", "none"}}
Inputs == [index : {0, 1}, proper : BOOLEAN, bytes : {1, 2, 3}]
Vectors == [index : {0, 1}, values : UNION {[1 .. k -> {0, 1, 2}] : k \in 1 .. 2} \cup {<<>>, <<NonFinite>>}]
Asking(inputs) == [i \in 1 .. inputs |-> [index |-> i - 1, proper |-> TRUE, bytes |-> 1]]
Answer(m, vectors) == [model |-> m, vectors |-> vectors]
Exchanging ==
  {[request |-> [model |-> m, inputs |-> Asking(1)], scoped |-> b,
    response |-> Answer(m, <<[index |-> 0, values |-> <<1>>]>>)] : m \in Models, b \in BOOLEAN}
  \cup {[request |-> [model |-> m, inputs |-> i], scoped |-> TRUE,
    response |-> Answer(n, <<[index |-> 0, values |-> <<1>>]>>)] :
      m, n \in Chosen, i \in UpTo(2, Inputs) \cup {Asking(3)}}
  \cup {[request |-> [model |-> m, inputs |-> Asking(i)], scoped |-> TRUE, response |-> Answer(m, v)] :
      m \in Chosen, i \in 1 .. 2, v \in UpTo(2, Vectors)}

-----------------------------------------------------------------------------
\* Manifests: one with everything in it, and all that differ from it in one part.
Words ==
  {Empty, "sample", "other", "sample-other", "Bad!", "catalog", "kafka.read", "new", "builtin",
   "process", "odd", "none", "down", "trusted-module", "isolated-frame", "GET", "POST",
   "api", "extensions", "jobs", "health", "m1", "m2", "m3", "m4", "m5", "core",
   "limit", "apiKey", "text", "select", "secretRef", "v", "w"}
T(word) == [word |-> word, padded |-> FALSE]
Either(words) == [word : words, padded : BOOLEAN]
NoKey == [kind |-> "none", id |-> Empty, wellFormed |-> FALSE, padded |-> FALSE]
Keys == [kind : {"ext"}, id : {"sample", "other", Empty}, wellFormed : BOOLEAN, padded : BOOLEAN]
          \cup {NoKey, [NoKey EXCEPT !.kind = "core"]}
P(segments) == [segments |-> segments, padded |-> FALSE]
Paths(root) ==
  [segments : {root \o <<"sample">> \o rest : rest \in {<<>>, <<"jobs">>, <<"health">>, <<"jobs", "health">>}}
                \cup {root \o <<"sample-other">>, root, <<"sample">>},
   padded : BOOLEAN]
Api == <<"api", "extensions">>
Own1 == [kind |-> "ext", id |-> "sample", wellFormed |-> TRUE, padded |-> FALSE]
Menu(key, parent) ==
  [key |-> key, parent |-> parent, path |-> P(<<"extensions", "sample">>), permission |-> NoKey,
   presentable |-> TRUE]
Field == [key |-> T("limit"), secret |-> FALSE, type |-> "text", default |-> Empty, options |-> <<>>]

Base ==
  [proper |-> TRUE, id |-> T("sample"), required |-> <<T("kafka.read")>>, optional |-> <<>>,
   permissions |-> <<Own1>>, backend |-> [kind |-> "process", rollback |-> Empty, enabled |-> TRUE],
   frontend |-> Empty,
   routes |-> <<[path |-> P(Api \o <<"sample">>), permission |-> Own1, methods |-> <<"GET">>]>>,
   menus |-> <<Menu(T("m1"), T(Empty))>>, config |-> <<Field>>]

Five == <<"m1", "m2", "m3", "m4", "m5">>
\* Two menus of any kind; three, with or without a repeated key; chains and
\* cycles of five; and one menu with any path and permission.
MenuLists ==
  UpTo(2, {Menu(k, p) : k \in Either({"m1", "m2"}), p \in Either({"m1", "m2", "core", Empty})})
  \cup {<<Menu(T("m1"), p), Menu(T("m2"), q), Menu(k, r)>> :
     k \in {T("m1"), T("m3")}, p, q, r \in {T(w) : w \in {"m1", "m2", "m3", "core", Empty}}}
  \cup {[i \in 1 .. 5 |-> Menu(T(Five[i]), T(IF up[i] = 0 THEN Empty ELSE Five[((i + up[i] - 1) % 5) + 1]))] :
     up \in [1 .. 5 -> {0, 1, 4}]}
  \cup {<<[Menu(T("m1"), T(Empty)) EXCEPT !.path = p, !.permission = q]>> : p \in Paths(<<"extensions">>), q \in Keys}
  \cup {<<[Menu(k, T(Empty)) EXCEPT !.presentable = b]>> : k \in {T("m1"), T(Empty)}, b \in BOOLEAN}

Fields ==
  [key : Either({"limit", "apiKey", Empty}), secret : BOOLEAN, type : {"text", "select", "secretRef"},
   default : {Empty, "v", "w"}, options : {<<>>, <<"v">>, <<"v", "w">>, <<"v", "v">>, <<Empty>>}]

SomeManifests ==
  {[Base EXCEPT !.menus = l] : l \in MenuLists}
  \cup {[Base EXCEPT !.proper = b, !.id = i] : b \in BOOLEAN, i \in Either({"sample", "other", "Bad!", "catalog"})}
  \cup {[Base EXCEPT !.required = r, !.optional = o] :
            r \in UpTo(2, Either({"kafka.read", "new"})), o \in UpTo(2, Either({"kafka.read", "new", Empty}))}
  \cup {[Base EXCEPT !.permissions = l] : l \in UpTo(2, Keys)}
  \cup {[Base EXCEPT !.backend = b, !.frontend = f] :
            b \in [kind : {Empty, "builtin", "process", "odd"}, rollback : {Empty, "none", "down", "odd"},
                   enabled : BOOLEAN],
            f \in {Empty, "trusted-module", "isolated-frame"}}
  \cup {[Base EXCEPT !.routes = <<[path |-> p, permission |-> q, methods |-> <<>>]>>] : p \in Paths(Api), q \in Keys}
  \cup {[Base EXCEPT !.routes = @ \o <<[path |-> P(Api \o <<"sample", "jobs">>), permission |-> NoKey, methods |-> l]>>] :
            l \in UpTo(2, {"GET", "POST", "other"})}
  \cup {[Base EXCEPT !.config = l] : l \in UpTo(1, Fields)}
  \cup {[Base EXCEPT !.config = <<Field, f>>] : f \in Fields}

\* Routes() of an extension.
SomeHandlers ==
  UpTo(2, [nil : {FALSE}, method : {Empty, "GET", "POST"}, pattern : [rooted : {TRUE}, path : {"jobs"}],
           permission : {NoKey, [Own1 EXCEPT !.id = "other"]}])
  \cup {<<[nil |-> n, method |-> Empty, pattern |-> [rooted |-> r, path |-> "undeclared"], permission |-> Own1]>> :
            n, r \in BOOLEAN}

-----------------------------------------------------------------------------
NothingAsked ==
  [request |-> [model |-> CHOOSE m \in Chosen : TRUE, inputs |-> <<>>], scoped |-> FALSE,
   response |-> [model |-> CHOOSE m \in Chosen : TRUE, vectors |-> <<>>]]

AtRest ==
  /\ handlers = <<>> /\ pc = "done" /\ issues = {"manifest"} /\ start = "none" /\ stops = <<>>
  /\ health = "none" /\ clock = 0

Default(s) ==
  CASE s = "contract" -> manifest = Base /\ AtRest
    [] s = "version" -> version = <<1>> /\ constraint = [blank |-> TRUE, tokens |-> <<>>]
    [] s = "identity" -> identity = [user |-> Plain, name |-> Plain, permissions |-> <<>>, requestID |-> Plain]
    [] s = "exchange" -> exchange = NothingAsked

MCInit ==
  /\ LifecycleInit
  /\ \/ subject = "manifest" /\ ManifestInit /\ AtRest
          /\ Default("version") /\ Default("identity") /\ Default("exchange")
     \/ subject = "contract" /\ manifest \in {Base, [Base EXCEPT !.id = T("catalog")]} /\ ContractInit
          /\ Default("version") /\ Default("identity") /\ Default("exchange")
     \/ subject = "version" /\ version \in Asked /\ constraint \in AllConstraints
          /\ Default("contract") /\ Default("identity") /\ Default("exchange")
     \/ subject = "identity" /\ IdentityInit
          /\ Default("version") /\ Default("contract") /\ Default("exchange")
     \/ subject = "exchange" /\ EmbeddingInit
          /\ Default("version") /\ Default("identity") /\ Default("contract")
     \/ subject = "lifecycle"
          /\ Default("version") /\ Default("identity") /\ Default("contract") /\ Default("exchange")

MCNext ==
  \/ ContractNext /\ UNCHANGED <<versionVars, lifecycleVars, identity, exchange, subject>>
  \/ /\ subject = "lifecycle" /\ LifecycleNext
     /\ UNCHANGED <<contractVars, versionVars, identity, exchange, subject>>
  \/ /\ ManifestNext /\ VersionNext /\ IdentityNext /\ EmbeddingNext
     /\ pc \in {"done", "crashed"} /\ UNCHANGED <<contractVars, lifecycleVars, subject>>

MCSpec == MCInit /\ [][MCNext]_allVars /\ ContractFairness
=============================================================================
