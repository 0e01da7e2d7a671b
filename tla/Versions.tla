------------------------------- MODULE Versions -------------------------------
(***************************************************************************)
(* version.go: does a version satisfy the constraint a Manifest puts on    *)
(* the Core?  A version text is the sequence of its dotted components,     *)
(* without what stripSemverMeta takes off (a leading v, a pre-release, a   *)
(* build); a component is a number, or negative where strconv.Atoi fails   *)
(* or the number is.  A constraint is blank, or a sequence of tokens       *)
(* (which commas alone leave empty).                                       *)
(***************************************************************************)
EXTENDS Integers, Sequences

CONSTANTS
  Texts,       \* version texts
  Operators,   \* what a token may begin with, "none" for nothing
  Constraints  \* [blank : BOOLEAN, tokens : Seq([op : Operators, text : Texts])]

ASSUME TextsAssumption == Texts \subseteq Seq(Int)
ASSUME ConstraintsAssumption ==
  /\ Constraints \subseteq [blank : BOOLEAN, tokens : Seq([op : Operators, text : Texts])]
  /\ \A c \in Constraints : c.blank => c.tokens = <<>>

VARIABLES version, constraint   \* the question asked of SatisfiesRange

versionVars == <<version, constraint>>

VersionInit == version \in Texts /\ constraint \in Constraints

\* The question is put once: TLC looks at every one as an initial state.
VersionNext == UNCHANGED versionVars

VersionSpec == VersionInit /\ [][VersionNext]_versionVars

-----------------------------------------------------------------------------
\* parseVersionParts, after stripSemverMeta: something is left, all of it numbers.
Numeric(text) == text # <<>> /\ \A i \in DOMAIN text : text[i] >= 0

\* ParseSemver: all three components.
ParseSemver(text) == Len(text) = 3 /\ Numeric(text)

\* parseVersionLoose: one to three components, the missing ones zero.
Loose(text) == Len(text) <= 3 /\ Numeric(text)
parseVersionLoose(text) == [i \in 1 .. 3 |-> IF i <= Len(text) THEN text[i] ELSE 0]

\* The first component that differs decides.
compareVersion(a, b) ==
  LET differ == {i \in 1 .. 3 : a[i] # b[i]}
  IN IF differ = {} THEN 0
     ELSE LET i == CHOOSE i \in differ : \A j \in differ : i <= j
          IN IF a[i] < b[i] THEN -1 ELSE 1

Supported == {">=", ">", "<=", "<", "=", "==", "none"}

\* satisfiesToken with splitConstraintOp: a token without an operator is "=".
satisfiesToken(target, token) ==
  LET cmp == compareVersion(target, parseVersionLoose(token.text))
      holds == \/ token.op \in {">=", ">"} /\ cmp > 0
               \/ token.op \in {"<=", "<"} /\ cmp < 0
               \/ token.op \in {">=", "<=", "=", "==", "none"} /\ cmp = 0
  IN IF ~Loose(token.text) \/ token.op \notin Supported THEN "error"
     ELSE IF holds THEN "yes" ELSE "no"

\* Fault: the last token that says anything but yes is ignored.
SatisfiesRange_SkipsLast(v, c) ==
  LET target == parseVersionLoose(v)
      stops == {i \in DOMAIN c.tokens : satisfiesToken(target, c.tokens[i]) # "yes"} \ {Len(c.tokens)}
  IN IF c.blank THEN "yes" ELSE IF ~Loose(v) THEN "error" ELSE
     IF stops = {} THEN "yes"
     ELSE satisfiesToken(target, c.tokens[CHOOSE i \in stops : \A j \in stops : i <= j])

\* SatisfiesRange: the first token that does not say yes decides.
SatisfiesRange(v, c) ==
  LET target == parseVersionLoose(v)
      stops == {i \in DOMAIN c.tokens : satisfiesToken(target, c.tokens[i]) # "yes"}
  IN IF c.blank THEN "yes" ELSE IF ~Loose(v) THEN "error" ELSE
     IF stops = {} THEN "yes"
     ELSE satisfiesToken(target, c.tokens[CHOOSE i \in stops : \A j \in stops : i <= j])

-----------------------------------------------------------------------------
(***************************************************************************)
(* Reference: the order of versions, and what a token says, in words.      *)
(***************************************************************************)
At(text, i) == IF i <= Len(text) THEN text[i] ELSE 0

Older(a, b) ==
  \/ At(a, 1) < At(b, 1)
  \/ At(a, 1) = At(b, 1) /\ At(a, 2) < At(b, 2)
  \/ At(a, 1) = At(b, 1) /\ At(a, 2) = At(b, 2) /\ At(a, 3) < At(b, 3)

Meets(v, token) ==
  /\ Loose(token.text)
  /\ CASE token.op = ">=" -> ~Older(v, token.text)
       [] token.op = ">"  -> Older(token.text, v)
       [] token.op = "<=" -> ~Older(token.text, v)
       [] token.op = "<"  -> Older(v, token.text)
       [] token.op \in {"=", "==", "none"} -> ~Older(v, token.text) /\ ~Older(token.text, v)
       [] OTHER -> FALSE

(* A version is in a range exactly if it is well-formed and meets every     *)
(* token: no order of the tokens, no operator the SDK does not know and no  *)
(* malformed bound lets a Core through that another token excludes          *)
(* (version.go:104-109: AND, and nothing unparsable passes silently).       *)
RangeIsConjunction ==
  SatisfiesRange(version, constraint) = "yes" <=>
    \/ constraint.blank
    \/ Loose(version) /\ \A i \in DOMAIN constraint.tokens : Meets(version, constraint.tokens[i])
=============================================================================
