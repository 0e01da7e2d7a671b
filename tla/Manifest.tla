-------------------------------- MODULE Manifest --------------------------------
(***************************************************************************)
(* manifest.go, permission.go, ui.go and the Manifest's half of            *)
(* reliability.go and testkit/contract.go: what an extension declares, how *)
(* it is read (ParseManifest and its normalize), what Validate and         *)
(* CheckManifest let through, and what Sanitized shows of it.              *)
(*                                                                         *)
(* A text is a word and whether blanks surround it; a word is a model      *)
(* value or string, Empty for none.  A path is the sequence of its         *)
(* segments.  A permission key is "ext" with the id in it and whether its  *)
(* action is well-formed, "core" for one without the prefix, or "none".    *)
(* YAML is external: a raw Manifest is what yaml.Unmarshal filled in.      *)
(***************************************************************************)
EXTENDS Integers, Sequences, SequencesExt

CONSTANTS
  Word,               \* the words of texts, paths and choices
  Empty,              \* the word with no characters
  ValidIDs,           \* words of the form of an id
  KnownCapabilities,  \* the capabilities of this SDK
  SecretHints,        \* words with password, secret, token or key in them
  reservedExtensionIDs, reservedSubPaths,
  Manifests           \* raw Manifests, as read from YAML

Text == [word : Word, padded : BOOLEAN]
PathText == [segments : Seq(Word), padded : BOOLEAN]
PermissionKey ==
  [kind : {"ext", "core", "none"}, id : Word, wellFormed : BOOLEAN, padded : BOOLEAN]

Route == [path : PathText, permission : PermissionKey, methods : Seq(Word)]
MenuItem ==
  [key : Text, parent : Text, path : PathText, permission : PermissionKey, presentable : BOOLEAN]
ConfigField == [key : Text, secret : BOOLEAN, type : Word, default : Word, options : Seq(Word)]

RawManifest ==
  [proper : BOOLEAN, id : Text, required : Seq(Text), optional : Seq(Text),
   permissions : Seq(PermissionKey),
   backend : [kind : Word, rollback : Word, enabled : BOOLEAN], frontend : Word,
   routes : Seq(Route), menus : Seq(MenuItem), config : Seq(ConfigField)]

ASSUME ManifestsAssumption == Manifests \subseteq RawManifest
ASSUME EmptyAssumption ==
  Empty \notin ValidIDs \cup KnownCapabilities \cup SecretHints \cup reservedSubPaths

VARIABLE manifest   \* a raw Manifest

ManifestInit == manifest \in Manifests
\* TLC looks at every Manifest as an initial state.
ManifestNext == UNCHANGED manifest
ManifestSpec == ManifestInit /\ [][ManifestNext]_manifest

maxMenuDepth == 2

-----------------------------------------------------------------------------
(***************************************************************************)
(* Reading.                                                                *)
(***************************************************************************)
Trim(text) == [text EXCEPT !.padded = FALSE]

TrimAll(texts) == [i \in DOMAIN texts |-> Trim(texts[i])]

TrimRoute(r) == [r EXCEPT !.path = Trim(@), !.permission = Trim(@)]

\* Fault: the parents of menus are left as they are.
TrimMenu_NotParents(mi) == [mi EXCEPT !.key = Trim(@), !.path = Trim(@), !.permission = Trim(@)]

TrimMenu(mi) ==
  [mi EXCEPT !.key = Trim(@), !.parent = Trim(@), !.path = Trim(@), !.permission = Trim(@)]

TrimField(field) == [field EXCEPT !.key = Trim(@)]

\* normalize: blanks go, upper and lower case stay.
normalize(m) ==
  [m EXCEPT
     !.id = Trim(@), !.required = TrimAll(@), !.optional = TrimAll(@), !.permissions = TrimAll(@),
     !.routes = [i \in DOMAIN @ |-> TrimRoute(@[i])],
     !.menus = [i \in DOMAIN @ |-> TrimMenu(@[i])],
     !.config = [i \in DOMAIN @ |-> TrimField(@[i])]]

\* ParseManifest, of a file that is not empty and is YAML.
ParseManifest(raw) == normalize(raw)

-----------------------------------------------------------------------------
(***************************************************************************)
(* Validate.  It reports every fault it finds; a Manifest is accepted if   *)
(* there is none.                                                          *)
(***************************************************************************)
Distinct(s) == \A i, j \in DOMAIN s : s[i] = s[j] => i = j

ValidExtensionID(word) == word \in ValidIDs

\* ParsePermissionKey trims the key, and compares the id within with the trimmed id.
ValidPermissionKey(id, key) ==
  key.kind = "ext" /\ ValidExtensionID(key.id) /\ key.id = id.word /\ key.wellFormed

\* A reference to a key of another extension; with a blank before it, it is
\* not recognised as one.
checkExtPermissionRef(id, key) ==
  key.kind = "ext" /\ ~key.padded => ValidPermissionKey(id, key)

\* Fault: the boundary between segments is not kept.
hasPathPrefix_InSegment(path, prefix) ==
  Len(path.segments) >= Len(prefix) /\ SubSeq(path.segments, 1, Len(prefix) - 1) = Front(prefix)

hasPathPrefix(path, prefix) == ~path.padded /\ IsPrefix(prefix, path.segments)

\* Required and optional ones, duplicates within and across.
CapabilitiesOK(m) ==
  /\ Distinct(m.required \o m.optional)
  /\ \A i \in DOMAIN m.optional : m.optional[i].word # Empty
  /\ \A i \in DOMAIN m.required : m.required[i].word \in KnownCapabilities /\ ~m.required[i].padded

PermissionsOK(m) ==
  /\ \A i \in DOMAIN m.permissions : ValidPermissionKey(m.id, m.permissions[i])
  /\ Distinct(m.permissions)

KindsOK(m) ==
  /\ m.backend.kind \in {Empty, "builtin", "process"}
  /\ m.backend.rollback \in {Empty, "none", "down"}
  /\ m.frontend \in {Empty, "trusted-module"}

\* In validateReliability: the methods of a route are those of HTTP, each once.
MethodsOK(route) == Distinct(route.methods) /\ "other" \notin ToSet(route.methods)

\* The path of every route and its permission.
RoutesOK(m) ==
  \A i \in DOMAIN m.routes :
    LET r == m.routes[i]
    IN /\ hasPathPrefix(r.path, <<"api", "extensions", m.id.word>>)
       /\ checkExtPermissionRef(m.id, r.permission)
       /\ MethodsOK(r)

\* byKey, where the first of several with the same key wins.
byKey(m) ==
  [k \in {m.menus[i].key : i \in DOMAIN m.menus} |->
     LET first == CHOOSE i \in DOMAIN m.menus :
                    m.menus[i].key = k /\ \A j \in DOMAIN m.menus : m.menus[j].key = k => i <= j
     IN m.menus[first]]

\* menuDepth: one level for the menu and for each parent; a parent outside the
\* Manifest is a group of the Core and the last level; -1 for a cycle.
menuDepth(mi, by) ==
  LET up[n \in 0 .. maxMenuDepth + 1] == IF n = 0 THEN mi ELSE by[up[n - 1].parent]
      Top(n) == up[n].parent.word = Empty
      Core(n) == up[n].parent \notin DOMAIN by
      Cycle(n) == up[n].parent \in {up[j].key : j \in 0 .. n}
      Ends(n) == Top(n) \/ Core(n) \/ Cycle(n) \/ n = maxMenuDepth + 1
      n == CHOOSE k \in 0 .. maxMenuDepth + 1 : Ends(k) /\ \A j \in 0 .. k - 1 : ~Ends(j)
  IN IF Top(n) THEN n + 1 ELSE IF ~Core(n) /\ Cycle(n) THEN -1 ELSE n + 2

\* "presentable" stands for the label and the form of the icon.
MenusOK(m) ==
  /\ Distinct([i \in DOMAIN m.menus |-> m.menus[i].key])
  /\ \A i \in DOMAIN m.menus :
       LET mi == m.menus[i]
       IN /\ mi.key # [word |-> Empty, padded |-> FALSE]
          /\ mi.presentable
          /\ hasPathPrefix(mi.path, <<"extensions", m.id.word>>)
          /\ checkExtPermissionRef(m.id, mi.permission)
          /\ menuDepth(mi, byKey(m)) \in 1 .. maxMenuDepth

isSecretKey(field) == field.secret \/ field.key.word \in SecretHints

\* The keys, and the config half of validateReliability.  A default is Empty or a value.
ConfigOK(m) ==
  /\ Distinct([i \in DOMAIN m.config |-> m.config[i].key])
  /\ \A i \in DOMAIN m.config :
       LET f == m.config[i]
       IN /\ f.key # [word |-> Empty, padded |-> FALSE]
          /\ f.type = "secretRef" => ~f.secret /\ f.default = Empty
          /\ f.options # <<>> =>
               /\ ~isSecretKey(f) /\ f.type = "select"
               /\ Distinct(f.options) /\ Empty \notin ToSet(f.options)
               /\ f.default \in ToSet(f.options) \cup {Empty}

\* "proper" stands for the API version, the name and the version (ParseSemver).
Validate(m) ==
  /\ m.proper /\ ValidExtensionID(m.id.word)
  /\ CapabilitiesOK(m) /\ PermissionsOK(m) /\ KindsOK(m)
  /\ RoutesOK(m) /\ MenusOK(m) /\ ConfigOK(m)

RequestedCapabilities(m) == ToSet(m.required) \cup ToSet(m.optional)

\* CheckManifest: the names the Core keeps to itself, and a backend for what is requested.
CheckManifest(m) ==
  /\ Validate(m)
  /\ m.id.padded \/ m.id.word \notin reservedExtensionIDs
  /\ \A i \in DOMAIN m.routes :
       LET s == m.routes[i].path.segments
       IN Len(s) > 3 /\ ~m.id.padded => s[4] \notin reservedSubPaths
  /\ RequestedCapabilities(m) # {} => m.backend.enabled

Masked(field) ==
  [field EXCEPT !.options = <<>>, !.default = IF @ = Empty THEN Empty ELSE "***"]

\* Fault: only what is declared secret is masked.
Sanitized_DeclaredOnly(m) ==
  [m EXCEPT !.config = [i \in DOMAIN @ |-> IF @[i].secret THEN Masked(@[i]) ELSE @[i]]]

\* Sanitized: a copy with the defaults and options of secret fields masked.
Sanitized(m) ==
  [m EXCEPT !.config = [i \in DOMAIN @ |-> IF isSecretKey(@[i]) THEN Masked(@[i]) ELSE @[i]]]

-----------------------------------------------------------------------------
(***************************************************************************)
(* Properties of what is read from a file and accepted.                    *)
(***************************************************************************)
Parsed == ParseManifest(manifest)

ParentOf(m, mi) == {m.menus[i] : i \in {j \in DOMAIN m.menus : m.menus[j].key.word = mi.parent.word}}

Grouped(m, mi) ==
  \/ mi.parent.word = Empty
  \/ ParentOf(m, mi) = {}
  \/ \A g \in ParentOf(m, mi) : g.parent.word = Empty

(* Accepted menus are groups and items: whatever their order, blanks in     *)
(* their names and references to groups of the Core, none is a grandchild   *)
(* (which the Core's menu would silently drop) or below itself.  And such   *)
(* menus are not turned down for their shape (ui.go: two levels).           *)
MenusStayShallow ==
  LET m == Parsed
      menus == ToSet(m.menus)
      shaped == \A mi \in menus : Grouped(m, mi) /\ mi.parent # mi.key
  IN /\ Validate(m) => shaped
     /\ ~Validate(m) /\ shaped /\ Distinct([i \in DOMAIN m.menus |-> m.menus[i].key])
          => \A mi \in menus : menuDepth(mi, byKey(m)) \in 1 .. maxMenuDepth

Own(m, key) == key.kind = "ext" => key.id = m.id.word

(* An accepted Manifest stays in its own name space: it declares no         *)
(* permission of another extension or of the Core and none twice, refers to *)
(* none of another extension, and every path it claims is under its own id, *)
(* not beside it ("sample" does not get "sample-other"), nor, once it has   *)
(* passed CheckManifest, where the Core has its own routes.                 *)
StaysInNamespace ==
  LET m == Parsed
  IN Validate(m) =>
       /\ \A i, j \in DOMAIN m.permissions :
            /\ m.permissions[i].kind = "ext" /\ Own(m, m.permissions[i])
            /\ m.permissions[i] = m.permissions[j] => i = j
       /\ \A r \in ToSet(m.routes) :
            /\ Own(m, r.permission)
            /\ \E rest \in {SubSeq(r.path.segments, 4, Len(r.path.segments))} :
                 /\ r.path.segments = <<"api", "extensions", m.id.word>> \o rest
                 /\ CheckManifest(m) /\ rest # <<>> => Head(rest) \notin reservedSubPaths
       /\ \A mi \in ToSet(m.menus) :
            Own(m, mi.permission) /\ SubSeq(mi.path.segments, 1, 2) = <<"extensions", m.id.word>>

(* What Sanitized shows of an accepted Manifest has no secret in it: not    *)
(* the default of a field that is secret by declaration, by its name or by  *)
(* its type (which Validate keeps empty), and no options of one; and it     *)
(* hides nothing else: the copy is accepted wherever the original is.       *)
SanitizedHidesSecrets ==
  LET m == Parsed
      shown == Sanitized(m)
  IN Validate(m) =>
       /\ \A f \in ToSet(shown.config) :
            f.secret \/ f.key.word \in SecretHints \/ f.type = "secretRef"
              => f.default \in {Empty, "***"} /\ f.options = <<>>
       /\ \A i \in DOMAIN m.config :
            shown.config[i] = m.config[i]
              \/ m.config[i].secret \/ m.config[i].key.word \in SecretHints
       /\ Validate(shown)
=============================================================================
