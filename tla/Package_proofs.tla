---------------------------- MODULE Package_proofs ----------------------------
(***************************************************************************)
(* For every extension: what the contract's check reports can be relied    *)
(* on, the table of lifecycle states lets nothing run that has not been    *)
(* verified, a constraint on versions is the conjunction of its tokens, an *)
(* accepted Manifest keeps to its name space, to two levels of menus and   *)
(* to itself what is secret, and an embedding that is handed on answers    *)
(* its inputs.                                                             *)
(***************************************************************************)
EXTENDS ContractCheck, Lifecycle, Versions, Embedding, IdentityHeaders, SequenceTheorems,
        FiniteSetTheorems, WellFoundedInduction, TLAPS

-----------------------------------------------------------------------------
(***************************************************************************)
(* Lifecycle.  What is stored is the state or unreadable, so a restart     *)
(* finds the state it left or "FAILED".                                    *)
(***************************************************************************)
LifecycleInv ==
  /\ state \in AllStates
  /\ stored \in {state} \cup Garbage
  /\ verified \in BOOLEAN
  /\ state \in Moving \cup Serving => verified

\* An extension at rest cannot be reported as serving.
LEMMA RestIsNotLeftForService ==
  ASSUME NEW from \in AllStates, NEW to \in Serving, CanTransition(from, to)
  PROVE  from \in Moving \cup Serving
<1>1. from = to \/ to \in allowedTransitions(from)
  BY DEF CanTransition
<1>2. CASE from = to
  BY <1>2
<1>3. CASE to \in allowedTransitions(from)
  BY <1>3 DEF AllStates, Serving, Moving, allowedTransitions
<1> QED
  BY <1>1, <1>2, <1>3

LEMMA LifecycleStep ==
  ASSUME LifecycleInv, [LifecycleNext]_lifecycleVars
  PROVE  LifecycleInv'
<1>1. ASSUME NEW to \in AllStates, Transition(to)
      PROVE  LifecycleInv'
  <2>1. to \in Serving => verified
    BY <1>1, RestIsNotLeftForService DEF LifecycleInv, Transition
  <2> QED
    BY <1>1, <2>1 DEF LifecycleInv, Transition, Enter, Serving, Moving
<1>2. CASE Corrupt
  BY <1>2 DEF LifecycleInv, Corrupt
<1>3. CASE Restart
  <2>1. NormalizeState(stored) \in {state, "FAILED"}
    BY GarbageAssumption DEF LifecycleInv, NormalizeState
  <2> QED
    BY <1>3, <2>1 DEF LifecycleInv, Restart, Enter, Serving, Moving, AllStates, NormalizeState
<1>4. CASE UNCHANGED lifecycleVars
  BY <1>4 DEF LifecycleInv, lifecycleVars
<1> QED
  BY <1>1, <1>2, <1>3, <1>4 DEF LifecycleNext

(* No path of reports, damage and restarts makes an extension healthy that  *)
(* has not been started or updated since it was at rest (lifecycle.go).     *)
THEOREM VerifiedWhileRunning == LifecycleSpec => []RunningWasVerified
<1>1. LifecycleInit => LifecycleInv
  BY DEF LifecycleInit, LifecycleInv, AllStates, Serving, Moving
<1>2. LifecycleInv /\ [LifecycleNext]_lifecycleVars => LifecycleInv'
  BY LifecycleStep
<1>3. LifecycleInv => RunningWasVerified
  BY DEF LifecycleInv, RunningWasVerified, IsHealthy, Serving
<1> QED
  BY <1>1, <1>2, <1>3, PTL DEF LifecycleSpec

-----------------------------------------------------------------------------
(***************************************************************************)
(* The contract's check.  The report is honest because every way past a    *)
(* call that went wrong leaves its issue behind, and issues are never      *)
(* taken back: PlaceInv says which calls can be under way at each place,   *)
(* StartInv, StopInv and HealthInv what the issues say of those made.      *)
(***************************************************************************)
Before == {"manifest", "routes", "lifecycle"}
After  == {"health", "awaitHealth", "done"}

PlaceInv ==
  /\ pc \in Before \cup {"awaitStart", "stop", "crashed"} \cup After
  /\ start \in {"none", "running", "ok", "failed"}
  /\ pc \in Before => start = "none"
  /\ pc = "awaitStart" => start # "none"
  /\ pc = "stop" => start = "ok"
  /\ pc \in Before \cup {"awaitStart", "stop", "health"} => health = "none"

ManifestInv == pc \notin {"manifest", "crashed"} /\ "manifest" \notin issues => CheckManifest(manifest)

StopInv ==
  /\ stops \in Seq({"ok", "failed"})
  /\ pc \in Before \cup {"awaitStart"} => stops = <<>>
  /\ pc = "stop" => Len(stops) \in {0, 1}
  /\ Len(stops) \in {0, 1, 2}
  /\ "stopFailed" \notin issues => \A i \in 1 .. Len(stops) : stops[i] = "ok"

StartInv ==
  pc \in After =>
    \/ Len(stops) = 2 /\ start = "ok"
    \/ stops = <<>> /\ start = "failed" /\ "startFailed" \in issues
    \/ stops = <<>> /\ start # "none" /\ "slowStart" \in issues

HealthInv ==
  pc = "done" => health = "fine" \/ {"undated", "unexplained", "hungHealth"} \cap issues # {}

ContractInv == PlaceInv /\ ManifestInv /\ StopInv /\ StartInv /\ HealthInv

LEMMA AppendOne ==
  ASSUME NEW S, NEW s \in Seq(S), NEW x \in S
  PROVE  /\ Append(s, x) \in Seq(S)
         /\ Len(Append(s, x)) = Len(s) + 1
         /\ \A i \in 1 .. Len(s) : Append(s, x)[i] = s[i]
         /\ Append(s, x)[Len(s) + 1] = x
  OBVIOUS

LEMMA TwoAtMost == \A n \in {0, 1, 2} : n <= 2
  OBVIOUS

LEMMA ContractStep ==
  ASSUME ContractInv, [ContractNext]_contractVars
  PROVE  ContractInv'
<1> USE DEF ContractInv, PlaceInv, ManifestInv, StopInv, StartInv, HealthInv, Before, After
<1>1. CASE UNCHANGED manifest /\ ManifestStep
  BY <1>1 DEF ManifestStep, Report
<1>2. CASE UNCHANGED manifest /\ RoutesStep
  BY <1>2 DEF RoutesStep, Report
<1>3. CASE UNCHANGED manifest /\ GoStart
  BY <1>3 DEF GoStart
<1>4. CASE UNCHANGED manifest /\ StartReturns
  BY <1>4 DEF StartReturns
<1>5. CASE UNCHANGED manifest /\ StartDone
  BY <1>5 DEF StartDone, Report
<1>6. CASE UNCHANGED manifest /\ StartTimedOut
  BY <1>6 DEF StartTimedOut, Report
<1>7. CASE UNCHANGED manifest /\ StopReturns
  <2>1. CASE pc' = "crashed" /\ UNCHANGED <<stops, issues>>
    BY <1>7, <2>1 DEF StopReturns
  <2>2. ASSUME NEW result \in {"ok", "failed"}, stops' = Append(stops, result),
               Report(IF result = "ok" THEN {} ELSE {"stopFailed"}),
               pc' = IF Len(stops) = 0 THEN "stop" ELSE "health"
        PROVE  ContractInv'
    <3>1. /\ stops' \in Seq({"ok", "failed"})
          /\ Len(stops') = Len(stops) + 1
          /\ \A i \in 1 .. Len(stops) : stops'[i] = stops[i]
          /\ stops'[Len(stops) + 1] = result
      BY <2>2, AppendOne
    <3>2. Len(stops) \in {0, 1} /\ start = "ok" /\ health = "none"
      BY <1>7 DEF StopReturns
    <3>3. "stopFailed" \notin issues' => \A i \in 1 .. Len(stops') : stops'[i] = "ok"
      BY <2>2, <3>1, <3>2 DEF Report
    <3> QED
      BY <1>7, <2>2, <3>1, <3>2, <3>3 DEF StopReturns, Report
  <2> QED
    BY <1>7, <2>1, <2>2 DEF StopReturns
<1>8. CASE UNCHANGED manifest /\ GoHealth
  BY <1>8 DEF GoHealth
<1>9. CASE UNCHANGED manifest /\ HealthReturns
  BY <1>9 DEF HealthReturns, HealthAnswers
<1>10. CASE UNCHANGED manifest /\ HealthDone
  BY <1>10 DEF HealthDone, HealthAnswers, Report
<1>11. CASE UNCHANGED manifest /\ HealthTimedOut
  BY <1>11 DEF HealthTimedOut, Report
<1>12. CASE UNCHANGED manifest /\ Second
  BY <1>12 DEF Second
<1>13. CASE UNCHANGED contractVars
  BY <1>13 DEF contractVars
<1> QED
  BY <1>1, <1>2, <1>3, <1>4, <1>5, <1>6, <1>7, <1>8, <1>9, <1>10, <1>11, <1>12, <1>13, Zenon
     DEF ContractNext, Checker

THEOREM ContractInvariance == ContractSpec => []ContractInv
<1>1. ManifestInit /\ ContractInit => ContractInv
  BY DEF ContractInit, ContractInv, PlaceInv, ManifestInv, StopInv, StartInv, HealthInv, Before, After
<1>2. ContractInv /\ [ContractNext]_contractVars => ContractInv'
  BY ContractStep
<1> QED
  BY <1>1, <1>2, PTL DEF ContractSpec

(* Whatever the extension, however its Start and Health dally, fail or      *)
(* panic: no issues means that the Manifest is good and that Start, both    *)
(* Stops and Health came back well, and what is left running was reported.  *)
THEOREM ReportsAreHonest == ContractSpec => []ReportIsHonest
<1>1. ContractInv => ReportIsHonest
  <2> SUFFICES ASSUME ContractInv, pc = "done"
               PROVE  /\ issues = {} => /\ CheckManifest(manifest)
                                        /\ start = "ok" /\ stops = <<"ok", "ok">>
                                        /\ health = "fine"
                      /\ start \in {"running", "ok"} /\ stops = <<>> => "slowStart" \in issues
    BY DEF ReportIsHonest
  <2>1. ASSUME issues = {}
        PROVE  CheckManifest(manifest) /\ health = "fine"
    BY <2>1 DEF ContractInv, ManifestInv, HealthInv
  <2>2. ASSUME issues = {}
        PROVE  start = "ok" /\ stops = <<"ok", "ok">>
    <3>1. start = "ok" /\ Len(stops) = 2
      BY <2>2 DEF ContractInv, StartInv, After
    <3>2. stops \in Seq({"ok", "failed"}) /\ stops[1] = "ok" /\ stops[2] = "ok"
      BY <2>2, <3>1 DEF ContractInv, StopInv
    <3> QED
      BY <3>1, <3>2
  <2>3. start \in {"running", "ok"} /\ stops = <<>> => "slowStart" \in issues
    BY DEF ContractInv, StartInv, After
  <2> QED
    BY <2>1, <2>2, <2>3
<1> QED
  BY <1>1, ContractInvariance, PTL

(* Stop is only called on an extension whose Start came through in time.    *)
THEOREM StoppedIfStarted == ContractSpec => StopsWhatStarted
<1>1. ContractInv /\ [ContractNext]_contractVars =>
        (stops' # stops => start = "ok" /\ health = "none" /\ Len(stops') <= 2)
  <2> SUFFICES ASSUME ContractInv, [ContractNext]_contractVars, stops' # stops
               PROVE  start = "ok" /\ health = "none" /\ Len(stops') <= 2
    OBVIOUS
  <2>1. StopReturns
    BY DEF ContractNext, Checker, contractVars, ManifestStep, RoutesStep, GoStart, StartDone,
           StartTimedOut, GoHealth, HealthDone, HealthTimedOut, Second, StartReturns, HealthReturns
  <2>2. start = "ok" /\ health = "none"
    BY <2>1 DEF StopReturns, ContractInv, PlaceInv
  <2>3. Len(stops') \in {0, 1, 2}
    BY ContractStep DEF ContractInv, StopInv
  <2>4. Len(stops') <= 2
    BY <2>3, TwoAtMost, Zenon
  <2> QED
    BY <2>2, <2>4, Zenon
<1> QED
  BY <1>1, ContractInvariance, PTL DEF ContractSpec, StopsWhatStarted

-----------------------------------------------------------------------------
(***************************************************************************)
(* Versions.  SatisfiesRange is the conjunction of its tokens, for         *)
(* versions and constraints of any length.  The code decides by the first  *)
(* component that differs and by the first token that does not say yes;    *)
(* that both exist whenever they are looked for is the least-number        *)
(* principle (LeastOf).                                                    *)
(***************************************************************************)
LEMMA LeastOf ==
  ASSUME NEW S \in SUBSET Nat, S # {}
  PROVE  \E m \in S : \A k \in S : m <= k
<1>1. IsWellFoundedOn(OpToRel(<, Nat), Nat)
  BY NatLessThanWellFounded
<1>2. \A x, y \in Nat : y < x => <<y, x>> \in OpToRel(<, Nat)
  BY DEF OpToRel
<1>3. PICK R : IsWellFoundedOn(R, Nat) /\ \A x, y \in Nat : y < x => <<y, x>> \in R
  BY <1>1, <1>2, Zenon
<1>4. PICK m \in S : \A k \in S : ~(<<k, m>> \in R)
  BY <1>3, WFMin
<1>5. \A k \in S : ~(k < m)
  BY <1>3, <1>4
<1>6. \A k \in S : m <= k
  BY <1>5
<1> QED
  BY <1>6

-----------------------------------------------------------------------------
Three == 1 .. 3

LEMMA PartsType ==
  ASSUME NEW text \in Seq(Int)
  PROVE  /\ parseVersionLoose(text) \in [Three -> Int]
         /\ \A i \in Three : parseVersionLoose(text)[i] = At(text, i)
BY DEF parseVersionLoose, At, Three

(* compareVersion is the lexicographic order of the three components.       *)
LEMMA CompareIsLexicographic ==
  ASSUME NEW a \in [Three -> Int], NEW b \in [Three -> Int]
  PROVE  LET less(x, y) == \/ x[1] < y[1]
                           \/ x[1] = y[1] /\ x[2] < y[2]
                           \/ x[1] = y[1] /\ x[2] = y[2] /\ x[3] < y[3]
         IN  /\ compareVersion(a, b) \in Int
             /\ compareVersion(a, b) < 0 <=> less(a, b)
             /\ compareVersion(a, b) > 0 <=> less(b, a)
<1> DEFINE differ == {i \in 1 .. 3 : a[i] # b[i]}
           first  == CHOOSE i \in differ : \A j \in differ : i <= j
<1>1. CASE differ = {}
  <2>1. compareVersion(a, b) = 0
    BY <1>1 DEF compareVersion
  <2>2. a[1] = b[1] /\ a[2] = b[2] /\ a[3] = b[3]
    BY <1>1
  <2> QED
    BY <2>1, <2>2 DEF Three
<1>2. CASE differ # {}
  <2>1. first \in differ /\ \A j \in differ : first <= j
    <3>1. \E m \in differ : \A j \in differ : m <= j
      BY <1>2, LeastOf
    <3> HIDE DEF differ
    <3> QED
      BY <3>1
  <2>2. compareVersion(a, b) = IF a[first] < b[first] THEN -1 ELSE 1
    BY <1>2 DEF compareVersion
  <2> HIDE DEF first
  <2>3. first \in 1 .. 3 /\ a[first] # b[first] /\ \A j \in 1 .. 3 : j < first => a[j] = b[j]
    BY <2>1
  <2>4. CASE first = 1
    BY <2>2, <2>3, <2>4 DEF Three
  <2>5. CASE first = 2
    BY <2>2, <2>3, <2>5 DEF Three
  <2>6. CASE first = 3
    BY <2>2, <2>3, <2>6 DEF Three
  <2> QED
    BY <2>3, <2>4, <2>5, <2>6
<1> QED
  BY <1>1, <1>2

LEMMA CompareIsAge ==
  ASSUME NEW v \in Seq(Int), NEW w \in Seq(Int)
  PROVE  LET cmp == compareVersion(parseVersionLoose(v), parseVersionLoose(w))
         IN  cmp \in Int /\ (cmp < 0 <=> Older(v, w)) /\ (cmp > 0 <=> Older(w, v))
<1> DEFINE a == parseVersionLoose(v)
           b == parseVersionLoose(w)
<1>1. /\ a \in [Three -> Int] /\ b \in [Three -> Int]
      /\ a[1] = At(v, 1) /\ a[2] = At(v, 2) /\ a[3] = At(v, 3)
      /\ b[1] = At(w, 1) /\ b[2] = At(w, 2) /\ b[3] = At(w, 3)
  BY PartsType DEF Three
<1> HIDE DEF a, b
<1>2. /\ compareVersion(a, b) \in Int
      /\ compareVersion(a, b) < 0 <=> Older(v, w)
      /\ compareVersion(a, b) > 0 <=> Older(w, v)
  BY <1>1, CompareIsLexicographic DEF Older
<1> QED
  BY <1>2 DEF a, b

(* One token says yes exactly if the version meets it.                      *)
LEMMA TokenSaysMeets ==
  ASSUME NEW v \in Seq(Int), NEW token, token.text \in Seq(Int)
  PROVE  satisfiesToken(parseVersionLoose(v), token) = "yes" <=> Meets(v, token)
<1> DEFINE cmp == compareVersion(parseVersionLoose(v), parseVersionLoose(token.text))
           holds == \/ token.op \in {">=", ">"} /\ cmp > 0
                    \/ token.op \in {"<=", "<"} /\ cmp < 0
                    \/ token.op \in {">=", "<=", "=", "==", "none"} /\ cmp = 0
<1>1. cmp \in Int /\ (cmp < 0 <=> Older(v, token.text)) /\ (cmp > 0 <=> Older(token.text, v))
  BY CompareIsAge
<1>2. satisfiesToken(parseVersionLoose(v), token) = "yes"
        <=> Loose(token.text) /\ token.op \in Supported /\ holds
  BY DEF satisfiesToken
<1> HIDE DEF cmp
<1>3. token.op \in Supported =>
        (holds <=> CASE token.op = ">=" -> ~Older(v, token.text)
                     [] token.op = ">"  -> Older(token.text, v)
                     [] token.op = "<=" -> ~Older(token.text, v)
                     [] token.op = "<"  -> Older(v, token.text)
                     [] token.op \in {"=", "==", "none"} ->
                          ~Older(v, token.text) /\ ~Older(token.text, v)
                     [] OTHER -> FALSE)
  BY <1>1, SMTT(60) DEF Supported
<1>4. token.op \notin Supported => ~Meets(v, token)
  BY DEF Supported, Meets
<1> HIDE DEF holds
<1> QED
  BY <1>2, <1>3, <1>4, Zenon DEF Meets

-----------------------------------------------------------------------------
(* The first token that does not say yes is one that does not, if there is  *)
(* any: SatisfiesRange says yes exactly if all do.                          *)
LEMMA RangeIsEveryToken ==
  ASSUME NEW v \in Seq(Int), NEW c, DOMAIN c.tokens \in SUBSET Nat,
         \A i \in DOMAIN c.tokens : c.tokens[i].text \in Seq(Int)
  PROVE  SatisfiesRange(v, c) = "yes" <=>
           c.blank \/ (Loose(v) /\ \A i \in DOMAIN c.tokens : Meets(v, c.tokens[i]))
<1> DEFINE says(i) == satisfiesToken(parseVersionLoose(v), c.tokens[i])
           refusing == {i \in DOMAIN c.tokens : says(i) # "yes"}
           first    == CHOOSE i \in refusing : \A j \in refusing : i <= j
<1>1. SatisfiesRange(v, c) = IF c.blank THEN "yes" ELSE IF ~Loose(v) THEN "error" ELSE
                             IF refusing = {} THEN "yes" ELSE says(first)
  BY DEF SatisfiesRange
<1>2. refusing # {} => says(first) # "yes"
  <2> SUFFICES ASSUME refusing # {} PROVE says(first) # "yes"
    OBVIOUS
  <2>1. refusing \in SUBSET Nat
    OBVIOUS
  <2>2. \E m \in refusing : \A j \in refusing : m <= j
    BY <2>1, LeastOf
  <2> HIDE DEF refusing
  <2>3. first \in refusing
    BY <2>2
  <2> HIDE DEF first
  <2> QED
    BY <2>3 DEF refusing
<1>3. refusing = {} <=> \A i \in DOMAIN c.tokens : says(i) = "yes"
  OBVIOUS
<1>4. \A i \in DOMAIN c.tokens : says(i) = "yes" <=> Meets(v, c.tokens[i])
  BY TokenSaysMeets
<1> HIDE DEF says, refusing, first
<1> QED
  BY <1>1, <1>2, <1>3, <1>4

(* A version is in a range exactly if it is well-formed and meets every     *)
(* token, for versions and constraints of any length.                       *)
THEOREM RangesAreConjunctions == VersionSpec => []RangeIsConjunction
<1> DEFINE Asked == version \in Texts /\ constraint \in Constraints
<1>1. VersionInit => Asked
  BY DEF VersionInit
<1>2. Asked /\ [VersionNext]_versionVars => Asked'
  BY DEF VersionNext, versionVars
<1>3. Asked => RangeIsConjunction
  <2> SUFFICES ASSUME Asked PROVE RangeIsConjunction
    OBVIOUS
  <2>1. version \in Seq(Int)
    BY TextsAssumption
  <2>2. constraint.tokens \in Seq([op : Operators, text : Texts])
    BY ConstraintsAssumption
  <2>3. DOMAIN constraint.tokens \in SUBSET Nat
    BY <2>2
  <2>4. ASSUME NEW i \in DOMAIN constraint.tokens
        PROVE  constraint.tokens[i].text \in Seq(Int)
    <3>1. constraint.tokens[i] \in [op : Operators, text : Texts]
      <4>1. i \in 1 .. Len(constraint.tokens)
        BY <2>2
      <4> HIDE DEF Asked
      <4> QED
        BY <2>2, <4>1, ElementOfSeq
    <3>2. constraint.tokens[i].text \in Texts
      BY <3>1
    <3> QED
      BY <3>2, TextsAssumption
  <2>5. SatisfiesRange(version, constraint) = "yes" <=>
          constraint.blank \/ (Loose(version) /\
            \A i \in DOMAIN constraint.tokens : Meets(version, constraint.tokens[i]))
    BY <2>1, <2>3, <2>4, RangeIsEveryToken
  <2> QED
    BY <2>5, Zenon DEF RangeIsConjunction
<1> HIDE DEF Asked
<1> QED
  BY <1>1, <1>2, <1>3, PTL DEF VersionSpec

-----------------------------------------------------------------------------
(***************************************************************************)
(* Manifest.  A Manifest that has been read has no blanks around its texts *)
(* (Normal), which is what makes comparing keys and paths the same as      *)
(* comparing their words; the climb through the menus is followed step by  *)
(* step as far as it goes.                                                 *)
(***************************************************************************)

(* What ParseManifest returns has the form of what it was given, and no     *)
(* blanks around any text.                                                  *)
Normal(m) ==
  /\ m \in RawManifest
  /\ m.id.padded = FALSE
  /\ \A i \in DOMAIN m.permissions : m.permissions[i].padded = FALSE
  /\ \A i \in DOMAIN m.routes : ~m.routes[i].path.padded /\ ~m.routes[i].permission.padded
  /\ \A i \in DOMAIN m.menus :
       /\ ~m.menus[i].key.padded /\ ~m.menus[i].parent.padded
       /\ ~m.menus[i].path.padded /\ ~m.menus[i].permission.padded

LEMMA MappedSequence ==
  ASSUME NEW S, NEW T, NEW s \in Seq(S), NEW t,
         t = [i \in DOMAIN s |-> t[i]], \A i \in DOMAIN s : t[i] \in T
  PROVE  t \in Seq(T)
<1>1. DOMAIN s = 1 .. Len(s) /\ Len(s) \in Nat
  OBVIOUS
<1> QED
  BY <1>1

\* Trimming keeps the form of what it trims.
LEMMA TrimmedForms ==
  /\ \A x \in Text : Trim(x) \in Text /\ Trim(x).padded = FALSE
  /\ \A x \in PathText : Trim(x) \in PathText /\ Trim(x).padded = FALSE
  /\ \A x \in PermissionKey : Trim(x) \in PermissionKey /\ Trim(x).padded = FALSE
BY DEF Trim, Text, PathText, PermissionKey

LEMMA TrimmedParts ==
  /\ \A r \in Route :
       TrimRoute(r) \in Route /\ ~TrimRoute(r).path.padded /\ ~TrimRoute(r).permission.padded
  /\ \A mi \in MenuItem :
       /\ TrimMenu(mi) \in MenuItem
       /\ ~TrimMenu(mi).key.padded /\ ~TrimMenu(mi).parent.padded
       /\ ~TrimMenu(mi).path.padded /\ ~TrimMenu(mi).permission.padded
  /\ \A f \in ConfigField : TrimField(f) \in ConfigField
<1>1. ASSUME NEW r \in Route
      PROVE  TrimRoute(r) \in Route /\ ~TrimRoute(r).path.padded /\ ~TrimRoute(r).permission.padded
  BY TrimmedForms DEF TrimRoute, Route
<1>2. ASSUME NEW mi \in MenuItem
      PROVE  /\ TrimMenu(mi) \in MenuItem
             /\ ~TrimMenu(mi).key.padded /\ ~TrimMenu(mi).parent.padded
             /\ ~TrimMenu(mi).path.padded /\ ~TrimMenu(mi).permission.padded
  BY TrimmedForms DEF TrimMenu, MenuItem
<1>3. ASSUME NEW f \in ConfigField
      PROVE  TrimField(f) \in ConfigField
  BY TrimmedForms DEF TrimField, ConfigField
<1> QED
  BY <1>1, <1>2, <1>3

LEMMA ParsedIsNormal ==
  ASSUME NEW raw \in RawManifest
  PROVE  Normal(ParseManifest(raw))
<1> DEFINE m == ParseManifest(raw)
<1>1. /\ m.proper = raw.proper /\ m.id = Trim(raw.id)
      /\ m.required = TrimAll(raw.required) /\ m.optional = TrimAll(raw.optional)
      /\ m.permissions = TrimAll(raw.permissions)
      /\ m.backend = raw.backend /\ m.frontend = raw.frontend
      /\ m.routes = [i \in DOMAIN raw.routes |-> TrimRoute(raw.routes[i])]
      /\ m.menus = [i \in DOMAIN raw.menus |-> TrimMenu(raw.menus[i])]
      /\ m.config = [i \in DOMAIN raw.config |-> TrimField(raw.config[i])]
  <2>1. /\ m.proper = raw.proper /\ m.id = Trim(raw.id)
        /\ m.required = TrimAll(raw.required) /\ m.optional = TrimAll(raw.optional)
        /\ m.permissions = TrimAll(raw.permissions)
        /\ m.backend = raw.backend /\ m.frontend = raw.frontend
    BY DEF ParseManifest, normalize, RawManifest
  <2>2. m.routes = [i \in DOMAIN raw.routes |-> TrimRoute(raw.routes[i])]
    BY DEF ParseManifest, normalize, RawManifest
  <2>3. m.menus = [i \in DOMAIN raw.menus |-> TrimMenu(raw.menus[i])]
    BY DEF ParseManifest, normalize, RawManifest
  <2>4. m.config = [i \in DOMAIN raw.config |-> TrimField(raw.config[i])]
    BY DEF ParseManifest, normalize, RawManifest
  <2> HIDE DEF m
  <2> QED
    BY <2>1, <2>2, <2>3, <2>4
<1>2. m = [proper |-> m.proper, id |-> m.id, required |-> m.required, optional |-> m.optional,
              permissions |-> m.permissions, backend |-> m.backend, frontend |-> m.frontend,
              routes |-> m.routes, menus |-> m.menus, config |-> m.config]
  <2>1. DOMAIN raw = {"proper", "id", "required", "optional", "permissions", "backend",
                      "frontend", "routes", "menus", "config"}
    BY DEF RawManifest
  <2>2. DOMAIN m = DOMAIN raw /\ m = [x \in DOMAIN m |-> m[x]]
    BY <2>1 DEF ParseManifest, normalize
  <2>3. m = [x \in DOMAIN raw |-> m[x]]
    BY <2>2
  <2> HIDE DEF m
  <2> QED
    BY <2>1, <2>3
<1>3. /\ raw.proper \in BOOLEAN /\ raw.id \in Text
      /\ raw.required \in Seq(Text) /\ raw.optional \in Seq(Text)
      /\ raw.permissions \in Seq(PermissionKey)
      /\ raw.backend \in [kind : Word, rollback : Word, enabled : BOOLEAN]
      /\ raw.frontend \in Word
      /\ raw.routes \in Seq(Route) /\ raw.menus \in Seq(MenuItem) /\ raw.config \in Seq(ConfigField)
  BY DEF RawManifest, Route, MenuItem, ConfigField
<1>4. /\ TrimAll(raw.required) \in Seq(Text) /\ TrimAll(raw.optional) \in Seq(Text)
      /\ TrimAll(raw.permissions) \in Seq(PermissionKey)
  <2>1. ASSUME NEW S \in {Text, PermissionKey}, NEW texts \in Seq(S)
        PROVE  TrimAll(texts) \in Seq(S)
    <3>1. TrimAll(texts) = [i \in DOMAIN texts |-> TrimAll(texts)[i]]
      BY DEF TrimAll
    <3>2. \A i \in DOMAIN texts : TrimAll(texts)[i] \in S
      BY TrimmedForms DEF TrimAll
    <3> QED
      BY <3>1, <3>2, MappedSequence
  <2> QED
    BY <1>3, <2>1
<1>5. m.routes \in Seq(Route) /\ m.menus \in Seq(MenuItem) /\ m.config \in Seq(ConfigField)
  <2>1. \A i \in DOMAIN raw.routes : m.routes[i] \in Route
    BY <1>1, <1>3, TrimmedParts
  <2>2. \A i \in DOMAIN raw.menus : m.menus[i] \in MenuItem
    BY <1>1, <1>3, TrimmedParts
  <2>3. \A i \in DOMAIN raw.config : m.config[i] \in ConfigField
    BY <1>1, <1>3, TrimmedParts
  <2> HIDE DEF m
  <2>4. m.routes = [i \in DOMAIN raw.routes |-> m.routes[i]]
    BY <1>1
  <2>5. m.menus = [i \in DOMAIN raw.menus |-> m.menus[i]]
    BY <1>1
  <2>6. m.config = [i \in DOMAIN raw.config |-> m.config[i]]
    BY <1>1
  <2>7. /\ raw.routes \in Seq(Route) /\ raw.menus \in Seq(MenuItem)
        /\ raw.config \in Seq(ConfigField)
    BY <1>3
  <2>8. m.routes \in Seq(Route)
    BY <2>1, <2>4, <2>7, MappedSequence
  <2>9. m.menus \in Seq(MenuItem)
    BY <2>2, <2>5, <2>7, MappedSequence
  <2>10. m.config \in Seq(ConfigField)
    BY <2>3, <2>6, <2>7, MappedSequence
  <2> QED
    BY <2>8, <2>9, <2>10
<1> HIDE DEF m
<1>6. m \in RawManifest
  BY <1>2, <1>1, <1>3, <1>4, <1>5, TrimmedForms DEF RawManifest, Route, MenuItem, ConfigField
<1>7. \A i \in DOMAIN m.permissions : m.permissions[i].padded = FALSE
  BY <1>1, <1>3, TrimmedForms DEF TrimAll
<1>8. \A i \in DOMAIN m.routes : ~m.routes[i].path.padded /\ ~m.routes[i].permission.padded
  BY <1>1, <1>3, TrimmedParts
<1>9. \A i \in DOMAIN m.menus :
       /\ ~m.menus[i].key.padded /\ ~m.menus[i].parent.padded
       /\ ~m.menus[i].path.padded /\ ~m.menus[i].permission.padded
  BY <1>1, <1>3, TrimmedParts
<1> QED
  BY <1>1, <1>3, <1>6, <1>7, <1>8, <1>9, TrimmedForms DEF Normal, m

(* A path under a prefix is the prefix and a rest.                          *)
LEMMA UnderPrefix ==
  ASSUME NEW S, NEW path \in Seq(S), NEW a, NEW b, NEW c,
         IsPrefix(<<a, b, c>>, path)
  PROVE  LET rest == SubSeq(path, 4, Len(path))
         IN  /\ path = <<a, b, c>> \o rest
             /\ rest # <<>> => Len(path) > 3 /\ Head(rest) = path[4]
<1> DEFINE rest == SubSeq(path, 4, Len(path))
<1>1. Len(path) \in Nat /\ 3 <= Len(path)
  BY DEF IsPrefix
<1>2. SubSeq(<<a, b, c>>, 1, 3) = SubSeq(path, 1, 3)
  BY DEF IsPrefix
<1>3. path[1] = a /\ path[2] = b /\ path[3] = c
  BY <1>1, <1>2
<1>4. rest \in Seq(S) /\ Len(rest) = Len(path) - 3
      /\ \A i \in 1 .. Len(path) - 3 : rest[i] = path[3 + i]
  BY <1>1
<1> HIDE DEF rest
<1>5. path = <<a, b, c>> \o rest
  <2> DEFINE whole == <<a, b, c>> \o rest
  <2>1. <<a, b, c>> \in Seq(S)
    BY <1>1, <1>3
  <2>2. /\ whole \in Seq(S) /\ Len(whole) = 3 + Len(rest)
        /\ \A i \in 1 .. 3 + Len(rest) : whole[i] = IF i <= 3 THEN <<a, b, c>>[i] ELSE rest[i - 3]
    BY <1>4, <2>1, ConcatProperties
  <2> HIDE DEF whole
  <2>3. \A i \in 1 .. Len(path) : path[i] = whole[i]
    <3> SUFFICES ASSUME NEW i \in 1 .. Len(path) PROVE path[i] = whole[i]
      OBVIOUS
    <3>1. CASE i > 3
      <4>1. rest[i - 3] = path[3 + (i - 3)]
        BY <1>1, <1>4, <3>1
      <4> QED
        BY <1>1, <1>4, <2>2, <3>1, <4>1
    <3>2. CASE i \in 1 .. 3
      BY <1>1, <1>3, <1>4, <2>2, <3>2
    <3> QED
      BY <1>1, <3>1, <3>2
  <2>4. path = whole
    BY <1>1, <1>4, <2>2, <2>3, SeqEqual
  <2> QED
    BY <2>4 DEF whole
<1>6. rest # <<>> => Len(path) > 3 /\ Head(rest) = path[4]
  BY <1>1, <1>4
<1> QED
  BY <1>5, <1>6 DEF rest

LEMMA UnderShortPrefix ==
  ASSUME NEW S, NEW path \in Seq(S), NEW a, NEW b, IsPrefix(<<a, b>>, path)
  PROVE  SubSeq(path, 1, 2) = <<a, b>>
<1>1. Len(path) \in Nat /\ 2 <= Len(path)
  BY DEF IsPrefix
<1>2. SubSeq(<<a, b>>, 1, 2) = SubSeq(path, 1, 2)
  BY DEF IsPrefix
<1>3. path[1] = a /\ path[2] = b
  BY <1>1, <1>2
<1> DEFINE head == SubSeq(path, 1, 2)
<1>4. head \in Seq(S) /\ Len(head) = 2 /\ head[1] = path[1] /\ head[2] = path[2]
  BY <1>1
<1>5. <<a, b>> \in Seq(S) /\ Len(<<a, b>>) = 2
  BY <1>1, <1>3
<1> HIDE DEF head
<1>6. \A i \in 1 .. 2 : head[i] = <<a, b>>[i]
  BY <1>3, <1>4
<1>7. head = <<a, b>>
  BY <1>4, <1>5, <1>6, SeqEqual
<1> QED
  BY <1>7 DEF head

\* A key that is referred to, without blanks, is no other extension's.
LEMMA ReferenceIsOwn ==
  ASSUME NEW m, NEW key, ~key.padded, checkExtPermissionRef(m.id, key)
  PROVE  Own(m, key)
BY DEF checkExtPermissionRef, ValidPermissionKey, Own

LEMMA PartsOf ==
  ASSUME NEW m, Normal(m)
  PROVE  /\ \A i \in DOMAIN m.routes : m.routes[i].path.segments \in Seq(Word)
         /\ \A i \in DOMAIN m.menus : /\ m.menus[i] \in MenuItem
                                      /\ m.menus[i].path.segments \in Seq(Word)
<1>1. m.routes \in Seq(Route) /\ m.menus \in Seq(MenuItem)
  BY DEF Normal, RawManifest, Route, MenuItem
<1>2. ASSUME NEW i \in DOMAIN m.routes
      PROVE  m.routes[i].path.segments \in Seq(Word)
  <2>1. m.routes[i] \in Route
    BY <1>1
  <2> QED
    BY <2>1 DEF Route, PathText
<1>3. ASSUME NEW i \in DOMAIN m.menus
      PROVE  m.menus[i] \in MenuItem /\ m.menus[i].path.segments \in Seq(Word)
  <2>1. m.menus[i] \in MenuItem
    BY <1>1
  <2> QED
    BY <2>1 DEF MenuItem, PathText
<1> QED
  BY <1>2, <1>3

LEMMA NamespaceKept ==
  ASSUME NEW m, Normal(m), Validate(m)
  PROVE  /\ \A i, j \in DOMAIN m.permissions :
              /\ m.permissions[i].kind = "ext" /\ Own(m, m.permissions[i])
              /\ m.permissions[i] = m.permissions[j] => i = j
         /\ \A r \in ToSet(m.routes) :
              /\ Own(m, r.permission)
              /\ \E rest \in {SubSeq(r.path.segments, 4, Len(r.path.segments))} :
                   /\ r.path.segments = <<"api", "extensions", m.id.word>> \o rest
                   /\ CheckManifest(m) /\ rest # <<>> => Head(rest) \notin reservedSubPaths
         /\ \A mi \in ToSet(m.menus) :
              Own(m, mi.permission) /\ SubSeq(mi.path.segments, 1, 2) = <<"extensions", m.id.word>>
<1>1. ASSUME NEW i \in DOMAIN m.permissions, NEW j \in DOMAIN m.permissions
      PROVE  /\ m.permissions[i].kind = "ext" /\ Own(m, m.permissions[i])
             /\ m.permissions[i] = m.permissions[j] => i = j
  BY DEF Validate, PermissionsOK, ValidPermissionKey, Distinct, Own
<1>2. ASSUME NEW i \in DOMAIN m.routes
      PROVE  LET path == m.routes[i].path.segments
                 rest == SubSeq(path, 4, Len(path))
             IN  /\ Own(m, m.routes[i].permission)
                 /\ path = <<"api", "extensions", m.id.word>> \o rest
                 /\ CheckManifest(m) /\ rest # <<>> => Head(rest) \notin reservedSubPaths
  <2> DEFINE path == m.routes[i].path.segments
             rest == SubSeq(path, 4, Len(path))
  <2>1. /\ IsPrefix(<<"api", "extensions", m.id.word>>, path)
        /\ checkExtPermissionRef(m.id, m.routes[i].permission)
    BY DEF Validate, RoutesOK, hasPathPrefix
  <2>2. Own(m, m.routes[i].permission)
    BY <2>1, ReferenceIsOwn DEF Normal
  <2>3. path \in Seq(Word)
    BY PartsOf
  <2>4. CheckManifest(m) /\ Len(path) > 3 => path[4] \notin reservedSubPaths
    BY DEF CheckManifest, Normal
  <2> HIDE DEF path
  <2> QED
    BY <2>1, <2>2, <2>3, <2>4, UnderPrefix DEF path
<1>3. ASSUME NEW i \in DOMAIN m.menus
      PROVE  /\ Own(m, m.menus[i].permission)
             /\ SubSeq(m.menus[i].path.segments, 1, 2) = <<"extensions", m.id.word>>
  <2>1. /\ IsPrefix(<<"extensions", m.id.word>>, m.menus[i].path.segments)
        /\ checkExtPermissionRef(m.id, m.menus[i].permission)
    BY DEF Validate, MenusOK, hasPathPrefix
  <2>2. m.menus[i].path.segments \in Seq(Word)
    BY PartsOf
  <2> QED
    BY <2>1, <2>2, UnderShortPrefix, ReferenceIsOwn DEF Normal
<1> QED
  BY <1>1, <1>2, <1>3 DEF ToSet

LEMMA ManifestIsParsed == ManifestSpec => []Normal(Parsed)
<1>1. ManifestInit => manifest \in Manifests
  BY DEF ManifestInit
<1>2. manifest \in Manifests /\ [ManifestNext]_manifest => (manifest \in Manifests)'
  BY DEF ManifestNext
<1>3. manifest \in Manifests => Normal(Parsed)
  BY ManifestsAssumption, ParsedIsNormal DEF Parsed
<1> QED
  BY <1>1, <1>2, <1>3, PTL DEF ManifestSpec

(* Whatever a file says, an extension that is accepted claims nothing       *)
(* outside its own name space.                                              *)
THEOREM NamespacesAreKept == ManifestSpec => []StaysInNamespace
<1>1. Normal(Parsed) => StaysInNamespace
  BY NamespaceKept DEF StaysInNamespace
<1> QED
  BY <1>1, ManifestIsParsed, PTL

LEMMA SanitizedParts ==
  ASSUME NEW m, Normal(m)
  PROVE  LET shown == Sanitized(m)
         IN  /\ shown.proper = m.proper /\ shown.id = m.id
             /\ shown.required = m.required /\ shown.optional = m.optional
             /\ shown.permissions = m.permissions /\ shown.backend = m.backend
             /\ shown.frontend = m.frontend /\ shown.routes = m.routes /\ shown.menus = m.menus
             /\ DOMAIN shown.config = DOMAIN m.config
             /\ \A i \in DOMAIN m.config :
                  shown.config[i] = IF isSecretKey(m.config[i]) THEN Masked(m.config[i]) ELSE m.config[i]
             /\ \A i \in DOMAIN m.config : m.config[i] \in ConfigField
<1> DEFINE shown == Sanitized(m)
<1>1. m \in RawManifest
  BY DEF Normal
<1>2. /\ shown.proper = m.proper /\ shown.id = m.id
      /\ shown.required = m.required /\ shown.optional = m.optional
      /\ shown.permissions = m.permissions /\ shown.backend = m.backend
      /\ shown.frontend = m.frontend /\ shown.routes = m.routes /\ shown.menus = m.menus
  BY <1>1 DEF Sanitized, RawManifest
<1>3. shown.config = [i \in DOMAIN m.config |->
                        IF isSecretKey(m.config[i]) THEN Masked(m.config[i]) ELSE m.config[i]]
  BY <1>1 DEF Sanitized, RawManifest
<1>4. m.config \in Seq(ConfigField)
  BY <1>1 DEF RawManifest, ConfigField
<1>5. \A i \in DOMAIN m.config : m.config[i] \in ConfigField
  BY <1>4
<1> HIDE DEF shown
<1> QED
  BY <1>2, <1>3, <1>5 DEF shown

LEMMA MaskedField ==
  ASSUME NEW f \in ConfigField
  PROVE  /\ Masked(f).key = f.key /\ Masked(f).secret = f.secret /\ Masked(f).type = f.type
         /\ Masked(f).options = <<>>
         /\ Masked(f).default = IF f.default = Empty THEN Empty ELSE "***"
         /\ isSecretKey(Masked(f)) <=> isSecretKey(f)
BY DEF Masked, ConfigField, isSecretKey

LEMMA ShownConfigOK ==
  ASSUME NEW m, Normal(m), ConfigOK(m)
  PROVE  ConfigOK(Sanitized(m))
<1> DEFINE shown == Sanitized(m)
<1>1. /\ DOMAIN shown.config = DOMAIN m.config
      /\ \A i \in DOMAIN m.config :
           /\ m.config[i] \in ConfigField
           /\ shown.config[i] = IF isSecretKey(m.config[i]) THEN Masked(m.config[i]) ELSE m.config[i]
  BY SanitizedParts
<1> HIDE DEF shown
<1>2. \A i \in DOMAIN m.config : shown.config[i].key = m.config[i].key
  BY <1>1, MaskedField
<1>3. Distinct([i \in DOMAIN shown.config |-> shown.config[i].key])
  <2>1. DOMAIN shown.config = DOMAIN m.config
    BY <1>1
  <2>2. [i \in DOMAIN shown.config |-> shown.config[i].key]
          = [i \in DOMAIN m.config |-> m.config[i].key]
    BY <1>2, <2>1
  <2> QED
    BY <2>2 DEF ConfigOK
<1>4. ASSUME NEW i \in DOMAIN shown.config
      PROVE  LET f == shown.config[i]
             IN  /\ f.key # [word |-> Empty, padded |-> FALSE]
                 /\ f.type = "secretRef" => ~f.secret /\ f.default = Empty
                 /\ f.options # <<>> =>
                      /\ ~isSecretKey(f) /\ f.type = "select"
                      /\ Distinct(f.options) /\ Empty \notin ToSet(f.options)
                      /\ f.default \in ToSet(f.options) \cup {Empty}
  <2> DEFINE f == m.config[i]
  <2>1. /\ f.key # [word |-> Empty, padded |-> FALSE]
        /\ f.type = "secretRef" => ~f.secret /\ f.default = Empty
        /\ f.options # <<>> =>
             /\ ~isSecretKey(f) /\ f.type = "select"
             /\ Distinct(f.options) /\ Empty \notin ToSet(f.options)
             /\ f.default \in ToSet(f.options) \cup {Empty}
    BY <1>1, <1>4 DEF ConfigOK
  <2>2. f \in ConfigField /\ shown.config[i] = IF isSecretKey(f) THEN Masked(f) ELSE f
    BY <1>1, <1>4
  <2> HIDE DEF f
  <2>3. CASE isSecretKey(f)
    BY <2>1, <2>2, <2>3, MaskedField
  <2>4. CASE ~isSecretKey(f)
    BY <2>1, <2>2, <2>4
  <2> QED
    BY <2>3, <2>4
<1> QED
  BY <1>3, <1>4 DEF ConfigOK, shown

LEMMA ShownIsValid ==
  ASSUME NEW m, Normal(m), Validate(m)
  PROVE  Validate(Sanitized(m))
<1> DEFINE shown == Sanitized(m)
<1>1. /\ shown.proper = m.proper /\ shown.id = m.id
      /\ shown.required = m.required /\ shown.optional = m.optional
      /\ shown.permissions = m.permissions /\ shown.backend = m.backend
      /\ shown.frontend = m.frontend /\ shown.routes = m.routes /\ shown.menus = m.menus
  BY SanitizedParts
<1>2. ConfigOK(shown)
  BY ShownConfigOK DEF Validate
<1> HIDE DEF shown
<1>3. CapabilitiesOK(shown) /\ PermissionsOK(shown) /\ KindsOK(shown) /\ RoutesOK(shown)
  BY <1>1 DEF Validate, CapabilitiesOK, PermissionsOK, KindsOK, RoutesOK
<1>4. byKey(shown) = byKey(m)
  BY <1>1 DEF byKey
<1>5. MenusOK(shown)
  BY <1>1, <1>4 DEF Validate, MenusOK
<1> QED
  BY <1>1, <1>2, <1>3, <1>5 DEF Validate, shown

(* What an extension's configuration form shows of an accepted Manifest has *)
(* no secret in it, hides nothing else and is a Manifest that is accepted.  *)
THEOREM SecretsAreHidden == ManifestSpec => []SanitizedHidesSecrets
<1>1. ASSUME Normal(Parsed)
      PROVE  SanitizedHidesSecrets
  <2> DEFINE m == Parsed
             shown == Sanitized(m)
  <2> SUFFICES ASSUME Validate(m)
               PROVE  /\ \A f \in ToSet(shown.config) :
                           f.secret \/ f.key.word \in SecretHints \/ f.type = "secretRef"
                             => f.default \in {Empty, "***"} /\ f.options = <<>>
                      /\ \A i \in DOMAIN m.config :
                           shown.config[i] = m.config[i]
                             \/ m.config[i].secret \/ m.config[i].key.word \in SecretHints
                      /\ Validate(shown)
    BY DEF SanitizedHidesSecrets
  <2>1. Validate(shown) /\ ConfigOK(m)
    BY <1>1, ShownIsValid DEF Validate
  <2>2. /\ DOMAIN shown.config = DOMAIN m.config
        /\ \A i \in DOMAIN m.config :
             /\ m.config[i] \in ConfigField
             /\ shown.config[i] = IF isSecretKey(m.config[i]) THEN Masked(m.config[i]) ELSE m.config[i]
    BY <1>1, SanitizedParts
  <2> HIDE DEF m, shown
  <2>3. ASSUME NEW i \in DOMAIN m.config,
               \/ shown.config[i].secret \/ shown.config[i].key.word \in SecretHints
               \/ shown.config[i].type = "secretRef"
        PROVE  shown.config[i].default \in {Empty, "***"} /\ shown.config[i].options = <<>>
    <3> DEFINE f == m.config[i]
    <3>1. /\ f.type = "secretRef" => ~f.secret /\ f.default = Empty
          /\ f.options # <<>> => f.type = "select"
      BY <2>1, <2>3 DEF ConfigOK
    <3>2. f \in ConfigField /\ shown.config[i] = IF isSecretKey(f) THEN Masked(f) ELSE f
      BY <2>2, <2>3
    <3> HIDE DEF f
    <3>3. CASE isSecretKey(f)
      BY <3>2, <3>3, MaskedField
    <3>4. CASE ~isSecretKey(f)
      BY <2>3, <3>1, <3>2, <3>4 DEF isSecretKey
    <3> QED
      BY <3>3, <3>4
  <2>4. ASSUME NEW i \in DOMAIN m.config
        PROVE  shown.config[i] = m.config[i]
                 \/ m.config[i].secret \/ m.config[i].key.word \in SecretHints
    BY <2>2, <2>4 DEF isSecretKey
  <2> QED
    BY <2>1, <2>2, <2>3, <2>4 DEF ToSet
<1> QED
  BY <1>1, ManifestIsParsed, PTL

LEMMA DepthIsTwoLevels ==
  ASSUME NEW mi, NEW by
  PROVE  menuDepth(mi, by) \in 1 .. maxMenuDepth <=>
           \/ mi.parent.word = Empty
           \/ mi.parent \notin DOMAIN by
           \/ mi.parent # mi.key /\ by[mi.parent].parent.word = Empty
<1> DEFINE up[n \in 0 .. maxMenuDepth + 1] == IF n = 0 THEN mi ELSE by[up[n - 1].parent]
           Top(n) == up[n].parent.word = Empty
           Core(n) == up[n].parent \notin DOMAIN by
           Cycle(n) == up[n].parent \in {up[j].key : j \in 0 .. n}
           Ends(n) == Top(n) \/ Core(n) \/ Cycle(n) \/ n = maxMenuDepth + 1
           First(k) == Ends(k) /\ \A j \in 0 .. k - 1 : ~Ends(j)
           last == CHOOSE k \in 0 .. maxMenuDepth + 1 : First(k)
<1>1. up[0] = mi /\ up[1] = by[mi.parent]
  <2> DEFINE one == by[mi.parent]
             two == by[one.parent]
             climb == [n \in 0 .. 3 |-> IF n = 0 THEN mi ELSE IF n = 1 THEN one
                                        ELSE IF n = 2 THEN two ELSE by[two.parent]]
  <2>1. climb = [n \in 0 .. maxMenuDepth + 1 |-> IF n = 0 THEN mi ELSE by[climb[n - 1].parent]]
    BY DEF maxMenuDepth
  <2> HIDE DEF climb
  <2>2. \E f : f = [n \in 0 .. maxMenuDepth + 1 |-> IF n = 0 THEN mi ELSE by[f[n - 1].parent]]
    BY <2>1
  <2>3. up = [n \in 0 .. maxMenuDepth + 1 |-> IF n = 0 THEN mi ELSE by[up[n - 1].parent]]
    BY <2>2, Zenon
  <2> HIDE DEF up
  <2> QED
    BY <2>3 DEF maxMenuDepth
<1>2. menuDepth(mi, by) = IF Top(last) THEN last + 1
                          ELSE IF ~Core(last) /\ Cycle(last) THEN -1 ELSE last + 2
  BY DEF menuDepth
<1>3. last \in 0 .. maxMenuDepth + 1 /\ First(last)
  <2>1. \A k \in 0 .. 3 : First(k) <=> Ends(k) /\ \A j \in 0 .. 3 : j < k => ~Ends(j)
    <3> HIDE DEF Ends
    <3> QED
      OBVIOUS
  <2>2. Ends(3)
    BY DEF maxMenuDepth
  <2> HIDE DEF Ends, First
  <2>3. First(0) \/ First(1) \/ First(2) \/ First(3)
    BY <2>1, <2>2
  <2> QED
    BY <2>3 DEF maxMenuDepth
<1>4. /\ Cycle(0) <=> mi.parent = mi.key
      /\ Top(0) <=> mi.parent.word = Empty
      /\ Core(0) <=> mi.parent \notin DOMAIN by
      /\ Top(1) <=> by[mi.parent].parent.word = Empty
      /\ last = 0 => Ends(0)
      /\ last = 1 => Ends(1) /\ ~Ends(0)
      /\ last > 1 => ~Ends(0) /\ ~Ends(1)
  <2>1. Cycle(0) <=> mi.parent = mi.key
    <3>1. {up[j].key : j \in 0 .. 0} = {mi.key}
      <4> HIDE DEF up
      <4> QED
        BY <1>1
    <3> HIDE DEF up
    <3> QED
      BY <1>1, <3>1
  <2> HIDE DEF up
  <2>2. /\ Top(0) <=> mi.parent.word = Empty
        /\ Core(0) <=> mi.parent \notin DOMAIN by
        /\ Top(1) <=> by[mi.parent].parent.word = Empty
    BY <1>1
  <2> HIDE DEF last, Top, Core, Cycle, Ends
  <2> QED
    BY <1>3, <2>1, <2>2 DEF maxMenuDepth
<1> HIDE DEF up, last, Top, Core, Cycle
<1> QED
  BY <1>2, <1>3, <1>4 DEF maxMenuDepth

(* With distinct keys, the menus a parent names are the one byKey has.      *)
LEMMA ParentIsByKey ==
  ASSUME NEW m, Normal(m), Distinct([i \in DOMAIN m.menus |-> m.menus[i].key]),
         NEW mi \in ToSet(m.menus)
  PROVE  /\ mi.parent \notin DOMAIN byKey(m) => ParentOf(m, mi) = {}
         /\ mi.parent \in DOMAIN byKey(m) => ParentOf(m, mi) = {byKey(m)[mi.parent]}
         /\ mi.key \in DOMAIN byKey(m)
<1> DEFINE by == byKey(m)
<1>1. \A i \in DOMAIN m.menus :
        /\ m.menus[i].key \in Text /\ m.menus[i].parent \in Text
        /\ ~m.menus[i].key.padded /\ ~m.menus[i].parent.padded
  BY PartsOf DEF Normal, MenuItem
<1>2. PICK at \in DOMAIN m.menus : mi = m.menus[at]
  BY DEF ToSet
<1>3. \A x, y \in Text : ~x.padded /\ ~y.padded /\ x.word = y.word => x = y
  BY DEF Text
<1>4. \A i \in DOMAIN m.menus : m.menus[i].key.word = mi.parent.word <=> m.menus[i].key = mi.parent
  BY <1>1, <1>2, <1>3
<1>5. DOMAIN by = {m.menus[i].key : i \in DOMAIN m.menus}
  BY DEF byKey
<1>6. ASSUME NEW i \in DOMAIN m.menus
      PROVE  by[m.menus[i].key] = m.menus[i]
  <2> DEFINE k == m.menus[i].key
             first == CHOOSE n \in DOMAIN m.menus :
                        m.menus[n].key = k /\ \A j \in DOMAIN m.menus : m.menus[j].key = k => n <= j
  <2>1. by[k] = m.menus[first]
    BY DEF byKey
  <2>2. \A j \in DOMAIN m.menus : m.menus[j].key = k => j = i
    BY DEF Distinct
  <2>3. i <= i
    <3>1. m.menus \in Seq(MenuItem)
      BY DEF Normal, RawManifest, MenuItem
    <3> QED
      BY <3>1
  <2>4. first = i
    BY <2>2, <2>3
  <2> HIDE DEF first
  <2> QED
    BY <2>1, <2>4
<1> HIDE DEF by
<1>7. ParentOf(m, mi) = {m.menus[i] : i \in {j \in DOMAIN m.menus : m.menus[j].key = mi.parent}}
  BY <1>4 DEF ParentOf
<1>8. mi.parent \notin DOMAIN by => ParentOf(m, mi) = {}
  BY <1>5, <1>7
<1>9. mi.parent \in DOMAIN by => ParentOf(m, mi) = {by[mi.parent]}
  BY <1>5, <1>6, <1>7
<1>10. mi.key \in DOMAIN by
  BY <1>2, <1>5
<1> QED
  BY <1>8, <1>9, <1>10 DEF by

(* So the code's climb from parent to parent accepts the groups and their   *)
(* items, and nothing else.                                                 *)
LEMMA DepthIsGrouping ==
  ASSUME NEW m, Normal(m), Distinct([i \in DOMAIN m.menus |-> m.menus[i].key]),
         NEW mi \in ToSet(m.menus)
  PROVE  /\ Grouped(m, mi) /\ mi.parent # mi.key => menuDepth(mi, byKey(m)) \in 1 .. maxMenuDepth
         /\ menuDepth(mi, byKey(m)) \in 1 .. maxMenuDepth /\ mi.key.word # Empty
              => Grouped(m, mi) /\ mi.parent # mi.key
<1>1. menuDepth(mi, byKey(m)) \in 1 .. maxMenuDepth <=>
        \/ mi.parent.word = Empty
        \/ mi.parent \notin DOMAIN byKey(m)
        \/ mi.parent # mi.key /\ byKey(m)[mi.parent].parent.word = Empty
  BY DepthIsTwoLevels
<1>2. /\ mi.parent \notin DOMAIN byKey(m) => ParentOf(m, mi) = {}
      /\ mi.parent \in DOMAIN byKey(m) => ParentOf(m, mi) = {byKey(m)[mi.parent]}
      /\ mi.key \in DOMAIN byKey(m)
  BY ParentIsByKey
<1> QED
  BY <1>1, <1>2 DEF Grouped

(* Accepted menus have two levels at most and no cycle, for any number of   *)
(* menus in any order, and menus of that shape are not turned down for it.  *)
THEOREM MenusHaveTwoLevels == ManifestSpec => []MenusStayShallow
<1>1. ASSUME Normal(Parsed)
      PROVE  MenusStayShallow
  <2> DEFINE m == Parsed
             menus == ToSet(m.menus)
             keys == [i \in DOMAIN m.menus |-> m.menus[i].key]
  <2>1. ASSUME Validate(m), NEW mi \in menus
        PROVE  Grouped(m, mi) /\ mi.parent # mi.key
    <3>1. PICK at \in DOMAIN m.menus : mi = m.menus[at]
      BY <2>1 DEF ToSet
    <3>2. /\ Distinct(keys) /\ mi.key # [word |-> Empty, padded |-> FALSE]
          /\ menuDepth(mi, byKey(m)) \in 1 .. maxMenuDepth
      BY <2>1, <3>1 DEF Validate, MenusOK
    <3>3. mi.key \in Text /\ mi.key.padded = FALSE
      <4>1. mi \in MenuItem
        BY <1>1, <3>1, PartsOf
      <4>2. ~mi.key.padded
        BY <1>1, <3>1 DEF Normal
      <4> QED
        BY <4>1, <4>2 DEF MenuItem, Text
    <3>4. mi.key.word # Empty
      BY <3>2, <3>3 DEF Text
    <3> QED
      BY <1>1, <2>1, <3>2, <3>4, DepthIsGrouping
  <2>2. ASSUME \A mi \in menus : Grouped(m, mi) /\ mi.parent # mi.key, Distinct(keys),
               NEW mi \in menus
        PROVE  menuDepth(mi, byKey(m)) \in 1 .. maxMenuDepth
    BY <1>1, <2>2, DepthIsGrouping
  <2> HIDE DEF m
  <2> QED
    BY <2>1, <2>2 DEF MenusStayShallow, m
<1> QED
  BY <1>1, ManifestIsParsed, PTL

-----------------------------------------------------------------------------
(***************************************************************************)
(* Embedding.  The sum of squares is a fold over the indexes in an order   *)
(* that is not specified: that it is 0 for zeros is shown by the smallest  *)
(* set of indexes for which it would not be.                               *)
(***************************************************************************)

(* A sum of zeros is zero.                                                  *)
LEMMA ZerosSumToZero ==
  ASSUME NEW values, IsFiniteSet(DOMAIN values), \A i \in DOMAIN values : values[i] = 0
  PROVE  Norm2(values) = 0
<1> DEFINE S == DOMAIN values
           any(s) == CHOOSE x \in s : TRUE
           iter[s \in SUBSET S] ==
             IF s = {} THEN 0 ELSE values[any(s)] * values[any(s)] + iter[s \ {any(s)}]
<1>1. Norm2(values) = iter[S]
  BY DEF Norm2, MapThenSumSet, MapThenFoldSet
<1>2. \A s \in SUBSET S : s # {} => any(s) \in s
  OBVIOUS
<1> HIDE DEF any
<1>3. iter = [s \in SUBSET S |->
               IF s = {} THEN 0 ELSE values[any(s)] * values[any(s)] + iter[s \ {any(s)}]]
  <2> DEFINE zero == [s \in SUBSET S |-> 0]
  <2>1. zero = [s \in SUBSET S |->
                  IF s = {} THEN 0 ELSE values[any(s)] * values[any(s)] + zero[s \ {any(s)}]]
    <3>1. ASSUME NEW s \in SUBSET S, s # {}
          PROVE  values[any(s)] * values[any(s)] + zero[s \ {any(s)}] = 0
      <4>1. values[any(s)] = 0 /\ zero[s \ {any(s)}] = 0
        BY <1>2, <3>1
      <4> HIDE DEF zero
      <4> QED
        BY <4>1
    <3> DEFINE body(s) == values[any(s)] * values[any(s)] + zero[s \ {any(s)}]
    <3>2. \A s \in SUBSET S : s # {} => body(s) = 0
      BY <3>1
    <3> HIDE DEF body
    <3>3. zero = [s \in SUBSET S |-> IF s = {} THEN 0 ELSE body(s)]
      BY <3>2
    <3> QED
      BY <3>3 DEF body
  <2> HIDE DEF zero, S
  <2>2. \E f : f = [s \in SUBSET S |->
                      IF s = {} THEN 0 ELSE values[any(s)] * values[any(s)] + f[s \ {any(s)}]]
    BY <2>1
  <2> QED
    BY <2>2, Zenon
<1> HIDE DEF iter
<1>4. iter[{}] = 0
  BY <1>3
<1>5. ASSUME NEW s \in SUBSET S, s # {}
      PROVE  \E x \in s : iter[s] = 0 + iter[s \ {x}]
  <2>1. PICK x : x = any(s)
    OBVIOUS
  <2>2. x \in s /\ values[x] = 0
    BY <1>2, <1>5, <2>1
  <2>3. iter[s] = values[x] * values[x] + iter[s \ {x}]
    BY <1>3, <1>5, <2>1
  <2> QED
    BY <2>2, <2>3
<1>6. SUFFICES ASSUME iter[S] # 0 PROVE FALSE
  BY <1>1
<1> DEFINE wrong == {s \in SUBSET S : iter[s] # 0}
           sizes == {Cardinality(s) : s \in wrong}
<1>7. \A s \in SUBSET S : IsFiniteSet(s) /\ Cardinality(s) \in Nat
  BY FS_Subset, FS_CardinalityType
<1> HIDE DEF S
<1>8. sizes \in SUBSET Nat /\ sizes # {}
  BY <1>6, <1>7
<1>9. PICK n \in sizes : \A k \in sizes : n <= k
  BY <1>8, LeastOf
<1>10. PICK s \in wrong : Cardinality(s) = n
  BY <1>9
<1>11. PICK x \in s : iter[s] = 0 + iter[s \ {x}]
  BY <1>4, <1>5, <1>10
<1>12. Cardinality(s \ {x}) = n - 1 /\ n \in Nat
  BY <1>7, <1>8, <1>9, <1>10, <1>11, FS_RemoveElement
<1>13. s \ {x} \notin wrong
  <2>1. s \ {x} \in wrong => n - 1 \in sizes
    BY <1>12
  <2> HIDE DEF sizes
  <2> QED
    BY <1>9, <1>12, <2>1
<1> QED
  BY <1>10, <1>11, <1>13

LEMMA AnswerOfMany ==
  ASSUME NEW x \in Exchanges, HandedOn(x)
  PROVE  LET vectors == x.response.vectors
         IN /\ DOMAIN vectors = DOMAIN x.request.inputs
            /\ DOMAIN vectors \in SUBSET Nat
            /\ \A i \in DOMAIN vectors :
                 /\ vectors[i].index = i - 1
                 /\ ValidVector(vectors[i], x.request.model)
                 /\ DOMAIN vectors[i].values = 1 .. Len(vectors[i].values)
                 /\ Len(vectors[i].values) \in Nat
<1> DEFINE inputs == x.request.inputs
           vectors == x.response.vectors
<1>1. /\ inputs \in Seq([index : Int, proper : BOOLEAN, bytes : Nat])
      /\ vectors \in Seq([index : Int, values : Seq({NonFinite} \cup Int)])
  BY ExchangesAssumption
<1>2. /\ Len(vectors) = Len(inputs)
      /\ \A i \in DOMAIN inputs : inputs[i].index = i - 1
      /\ \A i \in DOMAIN vectors :
           /\ vectors[i].index = inputs[i].index
           /\ ValidVector(vectors[i], x.request.model)
  BY DEF HandedOn, Sent, ValidRequest, ValidateFor
<1> HIDE DEF inputs, vectors
<1>3. DOMAIN vectors = DOMAIN inputs /\ DOMAIN vectors \in SUBSET Nat
  BY <1>1, <1>2
<1>4. ASSUME NEW i \in DOMAIN vectors
      PROVE  DOMAIN vectors[i].values = 1 .. Len(vectors[i].values) /\ Len(vectors[i].values) \in Nat
  <2>1. vectors[i] \in [index : Int, values : Seq({NonFinite} \cup Int)]
    <3>1. i \in 1 .. Len(vectors)
      BY <1>1, <1>4
    <3> QED
      BY <1>1, <3>1, ElementOfSeq
  <2>2. vectors[i].values \in Seq({NonFinite} \cup Int)
    BY <2>1
  <2> QED
    BY <2>2
<1> QED
  BY <1>2, <1>3, <1>4 DEF inputs, vectors

(* Whatever a Host answers, what is handed on has one vector per input, the *)
(* same by its position and by its index, and none that is zero.            *)
THEOREM AnswersMatchInputs == EmbeddingSpec => []EmbeddingsAnswerInputs
<1>1. EmbeddingInit => exchange \in Exchanges
  BY DEF EmbeddingInit
<1>2. exchange \in Exchanges /\ [EmbeddingNext]_exchange => (exchange \in Exchanges)'
  BY DEF EmbeddingNext
<1>3. ASSUME exchange \in Exchanges
      PROVE  EmbeddingsAnswerInputs
  <2> DEFINE x == exchange
             vectors == x.response.vectors
  <2> SUFFICES ASSUME HandedOn(x)
               PROVE  /\ {vectors[j].index : j \in DOMAIN vectors}
                           = {i - 1 : i \in DOMAIN x.request.inputs}
                      /\ \A i \in DOMAIN x.request.inputs : vectors[i] = VectorOf(x, i)
                      /\ \A v \in {vectors[j] : j \in DOMAIN vectors} :
                           /\ Len(v.values) = x.request.model.dimensions
                           /\ \E k \in DOMAIN v.values : v.values[k] # 0
                      /\ x.response.model = x.request.model
                      /\ Len(x.request.inputs) <= MaxEmbeddingInputs
    BY DEF EmbeddingsAnswerInputs
  <2>1. /\ DOMAIN vectors = DOMAIN x.request.inputs
        /\ DOMAIN vectors \in SUBSET Nat
        /\ \A i \in DOMAIN vectors :
             /\ vectors[i].index = i - 1
             /\ ValidVector(vectors[i], x.request.model)
             /\ DOMAIN vectors[i].values = 1 .. Len(vectors[i].values)
             /\ Len(vectors[i].values) \in Nat
    BY <1>3, AnswerOfMany
  <2>2. /\ x.response.model = x.request.model
        /\ Len(x.request.inputs) <= MaxEmbeddingInputs
    BY DEF HandedOn, Sent, ValidRequest, ValidateFor
  <2>3. ASSUME NEW i \in DOMAIN x.request.inputs
        PROVE  vectors[i] = VectorOf(x, i)
    <3>1. \A j \in DOMAIN vectors : vectors[j].index = i - 1 => j = i
      BY <2>1
    <3>2. VectorOf(x, i) = CHOOSE v \in {vectors[j] : j \in DOMAIN vectors} : v.index = i - 1
      BY DEF VectorOf
    <3>3. vectors[i] \in {vectors[j] : j \in DOMAIN vectors} /\ vectors[i].index = i - 1
      BY <2>1, <2>3
    <3>4. \A v \in {vectors[j] : j \in DOMAIN vectors} : v.index = i - 1 => v = vectors[i]
      BY <3>1
    <3> HIDE DEF vectors, x
    <3> QED
      BY <3>2, <3>3, <3>4
  <2>4. ASSUME NEW j \in DOMAIN vectors
        PROVE  /\ Len(vectors[j].values) = x.request.model.dimensions
               /\ \E k \in DOMAIN vectors[j].values : vectors[j].values[k] # 0
    <3>1. /\ Len(vectors[j].values) = x.request.model.dimensions
          /\ Norm2(vectors[j].values) # 0
      BY <2>1, <2>4 DEF ValidVector
    <3>2. IsFiniteSet(DOMAIN vectors[j].values)
      BY <2>1, <2>4, FS_Interval
    <3> QED
      BY <3>1, <3>2, ZerosSumToZero
  <2>5. {vectors[j].index : j \in DOMAIN vectors} = {i - 1 : i \in DOMAIN x.request.inputs}
    BY <2>1
  <2> HIDE DEF vectors, x
  <2> QED
    BY <2>2, <2>3, <2>4, <2>5
<1> QED
  BY <1>1, <1>2, <1>3, PTL DEF EmbeddingSpec

-----------------------------------------------------------------------------
(***************************************************************************)
(* Identity headers.  Everything is proved along the end of a text that    *)
(* grows: FlattenSeq, of which encoding, decoding, joining and splitting   *)
(* are made, gets one sequence more (FlattenAppend); encoding adds the     *)
(* spelling of one character, on which decoding is exact                   *)
(* (DecodesSpelling); joining adds a comma and a piece without one, which  *)
(* splitting makes one piece more (SplitAppend).                           *)
(***************************************************************************)
(* Induction, over a set of numbers: the theorems of the library have a     *)
(* predicate as a parameter.                                                *)
LEMMA Induction ==
  ASSUME NEW S \in SUBSET Nat, 0 \in S, \A n \in S : n + 1 \in S
  PROVE  \A n \in Nat : n \in S
<1> SUFFICES ASSUME Nat \ S # {}
             PROVE  FALSE
  OBVIOUS
<1>1. PICK m \in Nat \ S : \A k \in Nat \ S : m <= k
  BY LeastOf
<1>2. m - 1 \in Nat /\ m - 1 \in S
  BY <1>1
<1> QED
  BY <1>1, <1>2

-----------------------------------------------------------------------------
(* FlattenSeq, prefix by prefix.                                            *)
Glue(a, b) == a \o b

Flattens(f, s, n) ==
  f[0] = <<>> /\ \A i \in 1 .. n : f[i] = Glue(f[i - 1], s[i])

LEMMA GlueType ==
  ASSUME NEW C, NEW a \in Seq(C), NEW b \in Seq(C)
  PROVE  Glue(a, b) \in Seq(C)
BY ConcatProperties DEF Glue

\* The first n of the sequences s, one after the other, are x.
FlattensTo(C, s, n, x) == \E f \in [0 .. n -> Seq(C)] : Flattens(f, s, n) /\ f[n] = x

LEMMA FlattensOneMore ==
  ASSUME NEW C, NEW s, NEW n \in Nat, NEW y, FlattensTo(C, s, n, y),
         NEW x \in Seq(C), x = Glue(y, s[n + 1])
  PROVE  FlattensTo(C, s, n + 1, x)
<1>1. PICK f \in [0 .. n -> Seq(C)] : Flattens(f, s, n) /\ f[n] = y
  BY DEF FlattensTo
<1> DEFINE g == [i \in 0 .. n + 1 |-> IF i = n + 1 THEN x ELSE f[i]]
<1>2. g \in [0 .. n + 1 -> Seq(C)] /\ g[0] = f[0] /\ g[n + 1] = x
  OBVIOUS
<1>3. ASSUME NEW i \in 1 .. n + 1
      PROVE  g[i] = Glue(g[i - 1], s[i])
  <2>1. CASE i = n + 1
    <3>1. g[i] = x /\ g[i - 1] = y
      BY <2>1, <1>1
    <3> QED
      BY <3>1, <2>1
  <2>2. CASE i # n + 1
    <3>1. i \in 1 .. n /\ g[i] = f[i] /\ g[i - 1] = f[i - 1]
      BY <2>2
    <3>2. f[i] = Glue(f[i - 1], s[i])
      BY <3>1, <1>1 DEF Flattens
    <3> QED
      BY <3>1, <3>2
  <2> QED
    BY <2>1, <2>2
<1> HIDE DEF g
<1>4. Flattens(g, s, n + 1)
  BY <1>1, <1>2, <1>3 DEF Flattens
<1> QED
  BY <1>2, <1>4 DEF FlattensTo

LEMMA SomethingFlattens ==
  ASSUME NEW C, NEW s \in Seq(Seq(C))
  PROVE  \E x \in Seq(C) : FlattensTo(C, s, Len(s), x)
<1>1. PICK N \in Nat : N = Len(s)
  BY LenProperties
<1> DEFINE S == {n \in Nat : n <= N => \E x \in Seq(C) : FlattensTo(C, s, n, x)}
<1>2. 0 \in S
  <2> DEFINE f == [i \in 0 .. 0 |-> <<>>]
  <2>1. f \in [0 .. 0 -> Seq(C)] /\ f[0] = <<>> /\ <<>> \in Seq(C)
    OBVIOUS
  <2> HIDE DEF f
  <2>2. FlattensTo(C, s, 0, <<>>)
    BY <2>1 DEF Flattens, FlattensTo
  <2> QED
    BY <2>1, <2>2
<1>3. ASSUME NEW n \in S
      PROVE  n + 1 \in S
  <2>1. ASSUME n + 1 <= N
        PROVE  \E x \in Seq(C) : FlattensTo(C, s, n + 1, x)
    <3>1. PICK y \in Seq(C) : FlattensTo(C, s, n, y)
      BY <2>1
    <3>2. s[n + 1] \in Seq(C)
      BY <1>1, <2>1, ElementOfSeq
    <3>3. PICK x \in Seq(C) : x = Glue(y, s[n + 1])
      BY <3>2, GlueType
    <3> QED
      BY <3>1, <3>3, FlattensOneMore
  <2> QED
    BY <2>1
<1>4. \A n \in Nat : n \in S
  <2>1. S \in SUBSET Nat
    OBVIOUS
  <2> HIDE DEF S
  <2> QED
    BY <1>2, <1>3, <2>1, Induction
<1> QED
  BY <1>1, <1>4

LEMMA FlattenIs ==
  ASSUME NEW C, NEW s \in Seq(Seq(C)), NEW x, FlattensTo(C, s, Len(s), x)
  PROVE  FlattenSeq(s) = x
<1>1. PICK N \in Nat : N = Len(s)
  BY LenProperties
<1>2. PICK f \in [0 .. N -> Seq(C)] : Flattens(f, s, N) /\ f[N] = x
  BY <1>1 DEF FlattensTo
<1>3. CASE N = 0
  BY <1>1, <1>2, <1>3, EmptySeq DEF Flattens, FlattenSeq
<1>4. CASE N # 0
  <2> DEFINE flatten[i \in 1 .. N] == IF i = 1 THEN s[i] ELSE Glue(flatten[i - 1], s[i])
             h == [i \in 1 .. N |-> f[i]]
  <2>1. FlattenSeq(s) = flatten[N]
    BY <1>1, <1>4 DEF FlattenSeq, Glue
  <2>2. N >= 1 /\ \A i \in 1 .. N : s[i] \in Seq(C)
    BY <1>1, <1>4, ElementOfSeq
  <2>3. f[1] = s[1]
    <3>1. 1 \in 1 .. N /\ 1 - 1 = 0
      BY <2>2
    <3>2. f[1] = f[0] \o s[1]
      BY <1>2, <3>1 DEF Flattens, Glue
    <3>3. <<>> \o s[1] = s[1]
      BY <2>2, <3>1, ConcatEmptySeq
    <3> QED
      BY <1>2, <3>2, <3>3 DEF Flattens
  <2>4. \A i \in 1 .. N : f[i] = Glue(f[i - 1], s[i])
    BY <1>2 DEF Flattens
  <2>5. h = [i \in 1 .. N |-> IF i = 1 THEN s[i] ELSE Glue(h[i - 1], s[i])]
    <3>1. ASSUME NEW i \in 1 .. N, i # 1
          PROVE  f[i] = Glue(h[i - 1], s[i])
      <4>1. h[i - 1] = f[i - 1]
        BY <3>1
      <4> QED
        BY <2>4, <4>1
    <3> DEFINE body(i) == Glue(h[i - 1], s[i])
    <3>2. \A i \in 1 .. N : i # 1 => f[i] = body(i)
      BY <3>1
    <3> HIDE DEF body
    <3>3. h = [i \in 1 .. N |-> IF i = 1 THEN s[i] ELSE body(i)]
      BY <2>3, <3>2
    <3> QED
      BY <3>3 DEF body
  <2>6. flatten = [i \in 1 .. N |-> IF i = 1 THEN s[i] ELSE Glue(flatten[i - 1], s[i])]
    <3> HIDE DEF h
    <3>1. \E g : g = [i \in 1 .. N |-> IF i = 1 THEN s[i] ELSE Glue(g[i - 1], s[i])]
      BY <2>5
    <3> QED
      BY <3>1, Zenon
  <2> HIDE DEF flatten, h
  <2>7. \A i \in 1 .. N : flatten[i] = IF i = 1 THEN s[i] ELSE Glue(flatten[i - 1], s[i])
    BY <2>6
  <2> DEFINE S == {n \in Nat : n \in 1 .. N => flatten[n] = f[n]}
  <2>8. 0 \in S
    OBVIOUS
  <2>9. ASSUME NEW n \in S
        PROVE  n + 1 \in S
    <3> SUFFICES ASSUME n + 1 \in 1 .. N
                 PROVE  flatten[n + 1] = f[n + 1]
      OBVIOUS
    <3>1. CASE n = 0
      BY <3>1, <2>2, <2>3, <2>7
    <3>2. CASE n # 0
      <4>1. PICK i \in 1 .. N : i = n + 1
        OBVIOUS
      <4>2. i - 1 = n /\ flatten[i - 1] = f[i - 1] /\ i # 1
        BY <3>2, <2>2, <4>1
      <4>3. flatten[i] = Glue(flatten[i - 1], s[i])
        BY <2>7, <4>2
      <4>4. f[i] = Glue(f[i - 1], s[i])
        BY <2>4
      <4> QED
        BY <4>1, <4>2, <4>3, <4>4
    <3> QED
      BY <3>1, <3>2
  <2>10. \A n \in Nat : n \in S
    <3> HIDE DEF S
    <3>1. S \in SUBSET Nat
      BY DEF S
    <3> QED
      BY <2>8, <2>9, <3>1, Induction
  <2>11. flatten[N] = f[N]
    BY <2>2, <2>10
  <2> QED
    BY <1>1, <1>2, <2>1, <2>11
<1> QED
  BY <1>3, <1>4

LEMMA FlattenEmpty == FlattenSeq(<<>>) = <<>>
BY DEF FlattenSeq

LEMMA FlattenType ==
  ASSUME NEW C, NEW s \in Seq(Seq(C))
  PROVE  FlattenSeq(s) \in Seq(C)
BY SomethingFlattens, FlattenIs

LEMMA FlattenAppend ==
  ASSUME NEW C, NEW s \in Seq(Seq(C)), NEW e \in Seq(C)
  PROVE  FlattenSeq(Append(s, e)) = FlattenSeq(s) \o e
<1>1. PICK N \in Nat : N = Len(s)
  BY LenProperties
<1>2. PICK y \in Seq(C) : FlattensTo(C, s, N, y)
  BY <1>1, SomethingFlattens
<1>3. PICK t \in Seq(Seq(C)) : t = Append(s, e)
  BY AppendProperties
<1>4. /\ Len(t) = N + 1
      /\ t[N + 1] = e /\ \A i \in 1 .. N : t[i] = s[i]
  BY <1>1, <1>3, AppendProperties
<1>5. FlattensTo(C, t, N, y)
  BY <1>2, <1>4 DEF Flattens, FlattensTo
<1>6. PICK x \in Seq(C) : x = Glue(y, e)
  BY GlueType
<1>7. FlattensTo(C, t, N + 1, x)
  BY <1>4, <1>5, <1>6, FlattensOneMore
<1>8. FlattenSeq(t) = x
  BY <1>4, <1>7, FlattenIs
<1>9. FlattenSeq(s) = y
  BY <1>1, <1>2, FlattenIs
<1> QED
  BY <1>3, <1>6, <1>8, <1>9 DEF Glue

(* Induction over sequences that grow at the end.                           *)
LEMMA GrowingSequences ==
  ASSUME NEW A, NEW S, <<>> \in S, \A u \in Seq(A), c \in A : u \in S => Append(u, c) \in S
  PROVE  \A t \in Seq(A) : t \in S
<1> DEFINE L == {n \in Nat : \A t \in Seq(A) : Len(t) = n => t \in S}
<1>1. 0 \in L
  BY EmptySeq
<1>2. ASSUME NEW n \in L
      PROVE  n + 1 \in L
  <2>1. ASSUME NEW t \in Seq(A), Len(t) = n + 1
        PROVE  t \in S
    <3>1. PICK u : u = [i \in 1 .. n |-> t[i]]
      OBVIOUS
    <3>2. \A i \in 1 .. n + 1 : t[i] \in A
      BY <2>1, ElementOfSeq
    <3>3. u \in Seq(A) /\ Len(u) = n
      BY <3>1, <3>2
    <3>4. Append(u, t[n + 1]) \in Seq(A) /\ Len(Append(u, t[n + 1])) = Len(t)
          /\ \A i \in 1 .. Len(t) : Append(u, t[n + 1])[i] = t[i]
      BY <2>1, <3>1, <3>2, <3>3, AppendProperties
    <3>5. t = Append(u, t[n + 1])
      BY <3>4, SeqEqual
    <3>6. u \in S
      BY <3>3
    <3>7. t[n + 1] \in A
      BY <3>2
    <3> QED
      BY <3>3, <3>5, <3>6, <3>7
  <2> QED
    BY <2>1
<1>3. \A n \in Nat : n \in L
  <2>1. L \in SUBSET Nat
    OBVIOUS
  <2> HIDE DEF L
  <2> QED
    BY <1>1, <1>2, <2>1, Induction
<1> QED
  BY <1>3, LenProperties

LEMMA Single ==
  ASSUME NEW A, NEW a \in A
  PROVE  <<a>> \in Seq(A)
OBVIOUS

(* FlattenSeq of a function on 1 .. n + 1, and of its restriction.          *)
LEMMA FlattenGrows ==
  ASSUME NEW C, NEW n \in Nat, NEW f \in [1 .. n + 1 -> Seq(C)],
         NEW g, g = [i \in 1 .. n |-> f[i]]
  PROVE  FlattenSeq(f) = FlattenSeq(g) \o f[n + 1]
<1>1. g \in Seq(Seq(C)) /\ Len(g) = n
  OBVIOUS
<1>2. PICK e \in Seq(C) : e = f[n + 1]
  OBVIOUS
<1>3. f \in Seq(Seq(C)) /\ Len(f) = n + 1
  OBVIOUS
<1>4. PICK a \in Seq(Seq(C)) : a = Append(g, e)
  BY <1>1, AppendProperties
<1>5. Len(a) = n + 1 /\ (\A i \in 1 .. n : a[i] = g[i]) /\ a[n + 1] = e
  BY <1>1, <1>4, AppendProperties
<1>6. ASSUME NEW i \in 1 .. n + 1
      PROVE  a[i] = f[i]
  <2>1. i \in 1 .. n \/ i = n + 1
    OBVIOUS
  <2> QED
    BY <1>2, <1>5, <2>1
<1>7. a = f
  BY <1>3, <1>5, <1>6, SeqEqual
<1> QED
  BY <1>1, <1>2, <1>4, <1>7, FlattenAppend

LEMMA FlattenSingles ==
  ASSUME NEW A, NEW s \in Seq(A)
  PROVE  FlattenSeq([k \in DOMAIN s |-> <<s[k]>>]) = s
<1> DEFINE of(t) == [k \in DOMAIN t |-> <<t[k]>>]
           S == {t \in Seq(A) : FlattenSeq(of(t)) = t}
<1>1. <<>> \in S
  <2>1. of(<<>>) = <<>>
    OBVIOUS
  <2> QED
    BY <2>1, FlattenEmpty, EmptySeq
<1>2. ASSUME NEW t \in Seq(A), NEW a \in A, t \in S
      PROVE  Append(t, a) \in S
  <2>1. PICK n \in Nat : n = Len(t) /\ DOMAIN t = 1 .. n
    BY LenProperties
  <2>2. PICK u \in Seq(A) : u = Append(t, a)
    BY AppendProperties
  <2>3. (\A i \in 1 .. n : u[i] = t[i]) /\ u[n + 1] = a /\ DOMAIN u = 1 .. n + 1
    BY <2>1, <2>2, AppendProperties, LenProperties
  <2>4. \A i \in 1 .. n + 1 : u[i] \in A
    BY <2>2, <2>3, LenProperties
  <2>5. of(u) \in [1 .. n + 1 -> Seq(A)] /\ of(u)[n + 1] = <<a>>
    BY <2>3, <2>4
  <2>6. of(t) = [i \in 1 .. n |-> of(u)[i]]
    BY <2>1, <2>3
  <2>7. FlattenSeq(of(t)) = t
    BY <1>2
  <2> HIDE DEF of
  <2>8. FlattenSeq(of(u)) = t \o <<a>>
    BY <2>5, <2>6, <2>7, FlattenGrows
  <2>9. FlattenSeq(of(u)) = u
    BY <2>2, <2>8, AppendIsConcat
  <2> QED
    BY <2>2, <2>9
<1> HIDE DEF S
<1>3. s \in S
  BY <1>1, <1>2, GrowingSequences
<1> QED
  BY <1>3 DEF S

-----------------------------------------------------------------------------
(* What a header can carry: encoding leaves letters, plus, percent and      *)
(* digits, so that neither a blank nor a comma is left in an entry.         *)
Digit == {Escaped[c] : c \in DOMAIN Escaped}
Wire == Letter \cup {"+", "%"} \cup Digit

LEMMA SpellingType ==
  ASSUME NEW c \in Character
  PROVE  Spelling(c) \in Seq(Wire)
<1>1. {"+", "%"} \cup Digit \cup Letter \subseteq Wire
  BY DEF Wire
<1>2. CASE c = " "
  <2>1. Spelling(c) = <<"+">> /\ "+" \in Wire
    BY <1>1, <1>2, EscapedAssumption DEF Spelling
  <2> QED
    BY <2>1, Single
<1>3. CASE c \in DOMAIN Escaped
  <2>1. Spelling(c) = <<"%", Escaped[c]>> /\ Escaped[c] \in Wire
    BY <1>1, <1>3, EscapedAssumption DEF Spelling, Digit
  <2> QED
    BY <1>1, <2>1
<1>4. CASE c # " " /\ c \notin DOMAIN Escaped
  <2>1. Spelling(c) = <<c>> /\ c \in Wire
    BY <1>1, <1>4 DEF Spelling, Character
  <2> QED
    BY <2>1, Single
<1> QED
  BY <1>2, <1>3, <1>4

(* Encoding, character by character.                                        *)
LEMMA EncodeGrows ==
  /\ EncodeHeaderValue(<<>>) = <<>>
  /\ \A t \in Seq(Character) :
       /\ EncodeHeaderValue(t) \in Seq(Wire)
       /\ \A c \in Character :
            EncodeHeaderValue(Append(t, c)) = EncodeHeaderValue(t) \o Spelling(c)
<1> DEFINE of(u) == [i \in DOMAIN u |-> Spelling(u[i])]
<1>1. EncodeHeaderValue(<<>>) = <<>>
  <2>1. of(<<>>) = <<>>
    OBVIOUS
  <2> QED
    BY <2>1, FlattenEmpty DEF EncodeHeaderValue
<1>2. ASSUME NEW t \in Seq(Character)
      PROVE  EncodeHeaderValue(t) \in Seq(Wire)
  <2>1. PICK n \in Nat : n = Len(t) /\ DOMAIN t = 1 .. n
    BY LenProperties
  <2>2. \A i \in 1 .. n : t[i] \in Character
    BY <2>1, ElementOfSeq
  <2>3. \A i \in 1 .. n : Spelling(t[i]) \in Seq(Wire)
    BY <2>2, SpellingType
  <2>4. of(t) \in Seq(Seq(Wire))
    BY <2>1, <2>3
  <2> HIDE DEF of
  <2>5. FlattenSeq(of(t)) \in Seq(Wire)
    BY <2>4, FlattenType
  <2> QED
    BY <2>5 DEF of, EncodeHeaderValue
<1>3. ASSUME NEW t \in Seq(Character), NEW c \in Character
      PROVE  EncodeHeaderValue(Append(t, c)) = EncodeHeaderValue(t) \o Spelling(c)
  <2>1. PICK n \in Nat : n = Len(t) /\ DOMAIN t = 1 .. n
    BY LenProperties
  <2>2. PICK u \in Seq(Character) : u = Append(t, c)
    BY AppendProperties
  <2>3. (\A i \in 1 .. n : u[i] = t[i]) /\ u[n + 1] = c /\ DOMAIN u = 1 .. n + 1
    BY <2>1, <2>2, AppendProperties, LenProperties
  <2>4. \A i \in 1 .. n + 1 : u[i] \in Character
    BY <2>2, <2>3, LenProperties
  <2>5. \A i \in 1 .. n + 1 : Spelling(u[i]) \in Seq(Wire)
    BY <2>4, SpellingType
  <2>6. of(u) \in [1 .. n + 1 -> Seq(Wire)] /\ of(u)[n + 1] = Spelling(c)
    BY <2>3, <2>5
  <2>7. of(t) = [i \in 1 .. n |-> of(u)[i]]
    BY <2>1, <2>3
  <2> HIDE DEF of
  <2>8. FlattenSeq(of(u)) = FlattenSeq(of(t)) \o Spelling(c)
    BY <2>6, <2>7, FlattenGrows
  <2> QED
    BY <2>2, <2>8 DEF of, EncodeHeaderValue
<1> QED
  BY <1>1, <1>2, <1>3

(* Decoding, character by character.                                        *)
LEMMA UnescapeGrows ==
  /\ Unescape(<<>>) = <<>>
  /\ \A v \in Seq(Wire), x \in Wire :
       Unescape(Append(v, x)) = Unescape(v) \o Meaning(Append(v, x), Len(v) + 1)
<1>1. Unescape(<<>>) = <<>>
  <2>1. [i \in DOMAIN <<>> |-> Meaning(<<>>, i)] = <<>>
    OBVIOUS
  <2> QED
    BY <2>1, FlattenEmpty DEF Unescape
<1> DEFINE C == Wire \cup {" "} \cup {CharacterOf(d) : d \in Wire}
           of(u) == [i \in DOMAIN u |-> Meaning(u, i)]
<1>2. ASSUME NEW u \in Seq(Wire), NEW i \in 1 .. Len(u)
      PROVE  Meaning(u, i) \in Seq(C)
  <2>1. u[i] \in Wire
    BY ElementOfSeq
  <2>2. u[i] \in C /\ " " \in C /\ CharacterOf(u[i]) \in C
    BY <2>1
  <2> HIDE DEF C
  <2>3. {<<>>, <<" ">>, <<u[i]>>, <<CharacterOf(u[i])>>} \subseteq Seq(C)
    BY <2>2, Single, EmptySeq
  <2> QED
    BY <2>3, Zenon DEF Meaning
<1> HIDE DEF C
<1>3. ASSUME NEW v \in Seq(Wire), NEW x \in Wire
      PROVE  Unescape(Append(v, x)) = Unescape(v) \o Meaning(Append(v, x), Len(v) + 1)
  <2>1. PICK u \in Seq(Wire) : u = Append(v, x)
    BY AppendProperties
  <2>2. PICK n \in Nat : n = Len(v) /\ DOMAIN v = 1 .. n
    BY LenProperties
  <2>3. (\A i \in 1 .. n : u[i] = v[i]) /\ Len(u) = n + 1 /\ DOMAIN u = 1 .. n + 1
    BY <2>1, <2>2, AppendProperties, LenProperties
  <2>4. \A i \in 1 .. n + 1 : Meaning(u, i) \in Seq(C)
    BY <1>2, <2>3
  <2>5. of(u) \in [1 .. n + 1 -> Seq(C)] /\ of(u)[n + 1] = Meaning(u, n + 1)
    BY <2>3, <2>4
  <2>6. ASSUME NEW i \in 1 .. n
        PROVE  Meaning(u, i) = Meaning(v, i)
    <3>1. u[i] = v[i]
      BY <2>3
    <3>2. i > 1 => u[i - 1] = v[i - 1]
      <4>1. i > 1 => i - 1 \in 1 .. n
        OBVIOUS
      <4> QED
        BY <4>1, <2>3
    <3>3. (i > 1 /\ u[i - 1] = "%") <=> (i > 1 /\ v[i - 1] = "%")
      BY <3>2
    <3> QED
      BY <3>1, <3>3, Zenon DEF Meaning
  <2>7. of(v) = [i \in 1 .. n |-> of(u)[i]]
    BY <2>2, <2>3, <2>6
  <2> HIDE DEF of
  <2>8. FlattenSeq(of(u)) = FlattenSeq(of(v)) \o Meaning(u, n + 1)
    BY <2>5, <2>7, FlattenGrows
  <2> QED
    BY <2>1, <2>2, <2>8 DEF of, Unescape
<1> QED
  BY <1>1, <1>3

(* A value that can be decoded stays so as the spelling of one more         *)
(* character is added, and does not end with a percent sign.                *)
LEMMA UnescapableGrows ==
  ASSUME NEW v \in Seq(Wire), Unescapable(v)
  PROVE  /\ \A x \in Wire : x # "%" => Unescapable(Append(v, x))
         /\ \A d \in Digit : Unescapable(Append(Append(v, "%"), d))
         /\ Len(v) > 0 => v[Len(v)] # "%"
<1>1. PICK n \in Nat : n = Len(v) /\ DOMAIN v = 1 .. n
  BY LenProperties
<1>2. \A i \in 1 .. n : v[i] = "%" => i < n /\ v[i + 1] \in Digit
  BY <1>1 DEF Unescapable, Digit
<1>3. ASSUME NEW x \in Wire, x # "%"
      PROVE  Unescapable(Append(v, x))
  <2>1. PICK u \in Seq(Wire) : u = Append(v, x)
    BY AppendProperties
  <2>2. Len(u) = n + 1 /\ u[n + 1] = x /\ (\A i \in 1 .. n : u[i] = v[i]) /\ DOMAIN u = 1 .. n + 1
    BY <1>1, <2>1, AppendProperties, LenProperties
  <2>3. ASSUME NEW i \in 1 .. n + 1, u[i] = "%"
        PROVE  i < n + 1 /\ u[i + 1] \in Digit
    <3>1. i \in 1 .. n /\ v[i] = "%"
      BY <1>3, <2>2, <2>3
    <3>2. i < n /\ v[i + 1] \in Digit /\ i + 1 \in 1 .. n
      BY <1>2, <3>1
    <3> QED
      BY <2>2, <3>2
  <2> QED
    BY <2>1, <2>2, <2>3 DEF Unescapable, Digit
<1>4. ASSUME NEW d \in Digit
      PROVE  Unescapable(Append(Append(v, "%"), d))
  <2>1. "%" \in Wire /\ d \in Wire /\ d # "%"
    BY EscapedAssumption DEF Wire, Digit
  <2>2. PICK u \in Seq(Wire) : u = Append(v, "%")
    BY <2>1, AppendProperties
  <2>3. Len(u) = n + 1 /\ u[n + 1] = "%" /\ \A i \in 1 .. n : u[i] = v[i]
    BY <1>1, <2>2, AppendProperties
  <2>4. PICK w \in Seq(Wire) : w = Append(u, d)
    BY <2>1, AppendProperties
  <2>5. /\ Len(w) = n + 2 /\ w[n + 2] = d /\ (\A i \in 1 .. n + 1 : w[i] = u[i])
        /\ DOMAIN w = 1 .. n + 2
    BY <2>3, <2>4, AppendProperties, LenProperties
  <2>6. ASSUME NEW i \in 1 .. n + 2, w[i] = "%"
        PROVE  i < n + 2 /\ w[i + 1] \in Digit
    <3>1. CASE i = n + 2
      BY <2>1, <2>5, <2>6, <3>1
    <3>2. CASE i = n + 1
      BY <2>5, <3>2
    <3>3. CASE i \in 1 .. n
      <4>1. v[i] = "%"
        BY <2>3, <2>5, <2>6, <3>3
      <4>2. i < n /\ v[i + 1] \in Digit /\ i + 1 \in 1 .. n
        BY <1>2, <3>3, <4>1
      <4> QED
        BY <2>3, <2>5, <4>2
    <3> QED
      BY <3>1, <3>2, <3>3
  <2> QED
    BY <2>2, <2>4, <2>5, <2>6 DEF Unescapable, Digit
<1> QED
  BY <1>1, <1>2, <1>3, <1>4

(* Decoding is exact on what encoding adds for one character.               *)
LEMMA DecodesSpelling ==
  ASSUME NEW v \in Seq(Wire), Unescapable(v), NEW t \in Seq(Character), Unescape(v) = t,
         NEW c \in Character
  PROVE  /\ Unescapable(v \o Spelling(c))
         /\ Unescape(v \o Spelling(c)) = Append(t, c)
<1>1. PICK n \in Nat : n = Len(v)
  BY LenProperties
<1>2. n > 0 => v[n] # "%"
  BY <1>1, UnescapableGrows
<1>3. " " \in Character /\ {"+", "%"} \cup Digit \cup Letter \subseteq Wire
  BY DEF Character, Wire
<1>4. ASSUME NEW x \in Wire, NEW y \in Character, x # "%", y = IF x = "+" THEN " " ELSE x
      PROVE  Unescapable(v \o <<x>>) /\ Unescape(v \o <<x>>) = Append(t, y)
  <2>1. PICK u \in Seq(Wire) : u = Append(v, x) /\ u = v \o <<x>>
    BY AppendIsConcat, AppendProperties
  <2>2. Len(u) = n + 1 /\ u[n + 1] = x /\ \A i \in 1 .. n : u[i] = v[i]
    BY <1>1, <2>1, AppendProperties
  <2>3. ~(n + 1 > 1 /\ u[n + 1 - 1] = "%")
    BY <1>2, <2>2
  <2>4. Meaning(u, n + 1) = <<y>>
    <3>1. u[n + 1] # "%"
      BY <1>4, <2>2
    <3>2. PICK k \in Nat : k = n + 1
      OBVIOUS
    <3>3. ~(k > 1 /\ u[k - 1] = "%") /\ u[k] # "%"
      BY <2>3, <3>1, <3>2
    <3>4. Meaning(u, k) = IF u[k] = "+" THEN <<" ">> ELSE <<u[k]>>
      BY <3>3, Zenon DEF Meaning
    <3> QED
      BY <1>4, <2>2, <3>2, <3>4
  <2>5. Unescape(u) = t \o <<y>>
    BY <1>1, <2>1, <2>4, UnescapeGrows
  <2>6. Unescapable(u)
    BY <1>4, <2>1, UnescapableGrows
  <2> QED
    BY <2>1, <2>5, <2>6, AppendIsConcat
<1>5. CASE c = " "
  <2>1. Spelling(c) = <<"+">> /\ "+" # "%"
    BY <1>5, EscapedAssumption DEF Spelling
  <2> QED
    BY <1>3, <1>4, <1>5, <2>1
<1>6. CASE c \in DOMAIN Escaped
  <2>1. Spelling(c) = <<"%", Escaped[c]>>
    BY <1>6, EscapedAssumption DEF Spelling
  <2>2. PICK d \in Digit : d = Escaped[c] /\ d \in Wire /\ d # "%" /\ "%" \in Wire
    BY <1>3, <1>6, EscapedAssumption DEF Digit
  <2>3. CharacterOf(d) = c
    BY <1>6, <2>2, EscapedAssumption DEF CharacterOf
  <2>4. PICK u \in Seq(Wire) : u = Append(v, "%")
    BY <2>2, AppendProperties
  <2>5. Len(u) = n + 1 /\ u[n + 1] = "%"
    BY <1>1, <2>4, AppendProperties
  <2>6. PICK w \in Seq(Wire) : w = Append(u, d)
    BY <2>2, AppendProperties
  <2>7. Len(w) = n + 2 /\ w[n + 2] = d /\ w[n + 1] = "%"
    BY <2>5, <2>6, AppendProperties
  <2>8. w = v \o Spelling(c)
    <3>1. PICK e \in Seq(Wire) : e = Spelling(c) /\ Len(e) = 2 /\ e[1] = "%" /\ e[2] = d
      <4>1. PICK p \in Wire : p = "%"
        BY <2>2
      <4>2. <<p, d>> \in Seq(Wire)
        BY <2>2
      <4> QED
        BY <2>1, <2>2, <4>1, <4>2
    <3>2. PICK z \in Seq(Wire) : z = v \o e
      BY ConcatProperties
    <3>3. Len(z) = n + 2 /\ \A i \in 1 .. n + 2 : z[i] = IF i <= n THEN v[i] ELSE e[i - n]
      <4>1. /\ Len(v \o e) = Len(v) + Len(e)
            /\ \A i \in 1 .. Len(v) + Len(e) :
                 (v \o e)[i] = IF i <= Len(v) THEN v[i] ELSE e[i - Len(v)]
        BY ConcatProperties
      <4> QED
        BY <1>1, <3>1, <3>2, <4>1
    <3>4. \A i \in 1 .. n : w[i] = v[i]
      BY <1>1, <2>4, <2>5, <2>6, AppendProperties
    <3>5. ASSUME NEW i \in 1 .. n + 2
          PROVE  z[i] = w[i]
      <4>1. i \in 1 .. n \/ i = n + 1 \/ i = n + 2
        OBVIOUS
      <4>2. n + 1 - n = 1 /\ n + 2 - n = 2
        OBVIOUS
      <4> QED
        <5>1. CASE i \in 1 .. n
          BY <3>3, <3>4, <5>1
        <5>2. CASE i = n + 1
          BY <2>7, <3>1, <3>3, <4>2, <5>2
        <5>3. CASE i = n + 2
          BY <2>7, <3>1, <3>3, <4>2, <5>3
        <5> QED
          BY <4>1, <5>1, <5>2, <5>3
    <3>6. z = w
      BY <2>7, <3>3, <3>5, SeqEqual
    <3> QED
      BY <3>1, <3>2, <3>6
  <2>9. Meaning(u, n + 1) = <<>>
    BY <2>5 DEF Meaning
  <2>10. Meaning(w, n + 2) = <<c>>
    <3>1. n + 2 > 1 /\ w[n + 2 - 1] = "%"
      BY <2>7
    <3> QED
      BY <2>2, <2>3, <2>7, <3>1 DEF Meaning
  <2>11. Unescape(u) = t
    <3>1. Unescape(u) = t \o <<>>
      BY <1>1, <2>2, <2>4, <2>9, UnescapeGrows
    <3> QED
      BY <3>1, ConcatEmptySeq
  <2>12. Unescape(w) = t \o <<c>>
    <3>1. Len(u) + 1 = n + 2
      BY <2>5
    <3> QED
      BY <2>2, <2>6, <2>10, <2>11, <3>1, UnescapeGrows
  <2>13. Unescapable(w)
    BY <2>2, <2>4, <2>6, UnescapableGrows
  <2> QED
    BY <2>8, <2>12, <2>13, AppendIsConcat
<1>7. CASE c # " " /\ c \notin DOMAIN Escaped
  <2>1. Spelling(c) = <<c>> /\ c \in Letter
    BY <1>7 DEF Spelling, Character
  <2>2. c # "%" /\ c # "+" /\ c \in Wire
    BY <1>3, <1>7, <2>1, EscapedAssumption
  <2> QED
    BY <1>4, <2>1, <2>2
<1> QED
  BY <1>5, <1>6, <1>7

(* What DecodeHeaderValue makes of what EncodeHeaderValue has written is    *)
(* the text.                                                                *)
LEMMA DecodesWhatItEncodes ==
  ASSUME NEW t \in Seq(Character)
  PROVE  DecodeHeaderValue(EncodeHeaderValue(t)) = t
<1> DEFINE S == {s \in Seq(Character) :
                   Unescapable(EncodeHeaderValue(s)) /\ Unescape(EncodeHeaderValue(s)) = s}
<1>1. <<>> \in S
  <2>1. Unescapable(<<>>)
    BY DEF Unescapable
  <2> QED
    BY <2>1, EncodeGrows, UnescapeGrows, EmptySeq
<1>2. ASSUME NEW s \in Seq(Character), NEW c \in Character, s \in S
      PROVE  Append(s, c) \in S
  <2>1. PICK v \in Seq(Wire) : v = EncodeHeaderValue(s)
    BY EncodeGrows
  <2>2. Unescapable(v) /\ Unescape(v) = s
    BY <1>2, <2>1
  <2>3. EncodeHeaderValue(Append(s, c)) = v \o Spelling(c)
    BY <2>1, EncodeGrows
  <2>4. Unescapable(v \o Spelling(c)) /\ Unescape(v \o Spelling(c)) = Append(s, c)
    BY <2>2, DecodesSpelling
  <2>5. Append(s, c) \in Seq(Character)
    BY AppendProperties
  <2> QED
    BY <2>3, <2>4, <2>5
<1>3. t \in S
  <2> HIDE DEF S
  <2> QED
    BY <1>1, <1>2, GrowingSequences
<1> QED
  BY <1>3 DEF DecodeHeaderValue


-----------------------------------------------------------------------------
(* Trimming.                                                                *)
LEMMA ExtremesOf ==
  ASSUME NEW n \in Nat, NEW S \in SUBSET (1 .. n), S # {}
  PROVE  /\ \E m \in S : \A k \in S : m <= k
         /\ \E m \in S : \A k \in S : k <= m
<1>1. \E m \in S : \A k \in S : m <= k
  BY LeastOf
<1>2. \E m \in S : \A k \in S : k <= m
  <2> DEFINE T == {n - k : k \in S}
  <2>1. T \in SUBSET Nat /\ T # {}
    <3>1. PICK k \in S : TRUE
      OBVIOUS
    <3>2. n - k \in T
      OBVIOUS
    <3>3. \A i \in S : n - i \in Nat
      OBVIOUS
    <3> QED
      BY <3>2, <3>3
  <2>2. PICK l \in T : \A k \in T : l <= k
    BY <2>1, LeastOf
  <2>3. PICK m \in S : l = n - m
    OBVIOUS
  <2>4. ASSUME NEW k \in S
        PROVE  k <= m
    <3>1. n - m <= n - k
      BY <2>2, <2>3
    <3> QED
      BY <3>1
  <2> QED
    BY <2>4
<1> QED
  BY <1>1, <1>2

\* There is no blank at either end.
Tight(v) == Len(v) > 0 => v[1] # " " /\ v[Len(v)] # " "

LEMMA TrimTight ==
  ASSUME NEW A, NEW v \in Seq(A), Tight(v)
  PROVE  TrimSpace(v) = v
<1>1. PICK n \in Nat : n = Len(v) /\ DOMAIN v = 1 .. n
  BY LenProperties
<1> DEFINE ink == {i \in DOMAIN v : v[i] # " "}
           first == CHOOSE i \in ink : \A j \in ink : i <= j
           last == CHOOSE i \in ink : \A j \in ink : j <= i
<1>2. TrimSpace(v) = IF ink = {} THEN <<>> ELSE SubSeq(v, first, last)
  BY DEF TrimSpace
<1>3. CASE n = 0
  <2>1. ink = {}
    BY <1>1, <1>3
  <2>2. v = <<>>
    BY <1>1, <1>3, EmptySeq
  <2> QED
    BY <1>2, <2>1, <2>2
<1>4. CASE n # 0
  <2>1. 1 \in ink /\ n \in ink /\ ink \subseteq 1 .. n
    <3>1. v[1] # " " /\ v[n] # " "
      <4>1. Len(v) > 0
        BY <1>1, <1>4
      <4>2. v[1] # " " /\ v[Len(v)] # " "
        BY <4>1, Zenon DEF Tight
      <4> QED
        BY <1>1, <4>2, Zenon
    <3>2. 1 \in 1 .. n /\ n \in 1 .. n
      BY <1>4
    <3> QED
      BY <1>1, <3>1, <3>2
  <2> HIDE DEF ink
  <2>2. first = 1
    <3>1. ASSUME NEW i \in ink, \A j \in ink : i <= j
          PROVE  i = 1
      <4>1. i \in 1 .. n /\ i <= 1
        BY <2>1, <3>1
      <4> QED
        BY <4>1
    <3>2. \A j \in ink : 1 <= j
      BY <2>1
    <3> QED
      BY <2>1, <3>1, <3>2
  <2>3. last = n
    <3>1. ASSUME NEW i \in ink, \A j \in ink : j <= i
          PROVE  i = n
      <4>1. i \in 1 .. n /\ n <= i
        BY <2>1, <3>1
      <4> QED
        BY <4>1
    <3>2. \A j \in ink : j <= n
      BY <2>1
    <3> QED
      BY <2>1, <3>1, <3>2
  <2> HIDE DEF first, last
  <2>4. TrimSpace(v) = SubSeq(v, 1, Len(v))
    BY <1>1, <1>2, <2>1, <2>2, <2>3
  <2> QED
    BY <2>4, SubSeqFull
<1> QED
  BY <1>3, <1>4

LEMMA TrimIdempotent ==
  ASSUME NEW A, NEW v \in Seq(A)
  PROVE  TrimSpace(v) \in Seq(A) /\ TrimSpace(TrimSpace(v)) = TrimSpace(v)
<1>1. PICK n \in Nat : n = Len(v) /\ DOMAIN v = 1 .. n
  BY LenProperties
<1> DEFINE ink == {i \in DOMAIN v : v[i] # " "}
           first == CHOOSE i \in ink : \A j \in ink : i <= j
           last == CHOOSE i \in ink : \A j \in ink : j <= i
<1>2. TrimSpace(v) = IF ink = {} THEN <<>> ELSE SubSeq(v, first, last)
  BY DEF TrimSpace
<1>3. CASE ink = {}
  <2>1. TrimSpace(v) = <<>>
    <3> HIDE DEF ink
    <3> QED
      BY <1>2, <1>3
  <2>2. PICK w \in Seq(A) : w = <<>> /\ Len(w) = 0
    BY EmptySeq
  <2>3. TrimSpace(w) = w
    <3>1. ~(Len(w) > 0)
      BY <2>2
    <3>2. Tight(w)
      BY <3>1, Zenon DEF Tight
    <3> QED
      BY <3>2, TrimTight
  <2> QED
    BY <2>1, <2>2, <2>3
<1>4. CASE ink # {}
  <2>1. ink \in SUBSET (1 .. n) /\ \A i \in ink : v[i] # " "
    BY <1>1
  <2> HIDE DEF ink
  <2>2. first \in ink /\ \A j \in ink : first <= j
    BY <1>4, <2>1, ExtremesOf
  <2>3. last \in ink /\ \A j \in ink : j <= last
    BY <1>4, <2>1, ExtremesOf
  <2>4. PICK a \in 1 .. n, b \in 1 .. n : a = first /\ b = last /\ a <= b
    BY <2>1, <2>2, <2>3
  <2>5. PICK w : w = SubSeq(v, a, b)
    OBVIOUS
  <2>6. \A i \in a .. b : v[i] \in A
    BY <1>1, ElementOfSeq
  <2>7. /\ w \in Seq(A) /\ Len(w) = b - a + 1
        /\ \A i \in 1 .. b - a + 1 : w[i] = v[a + i - 1]
    <3>1. SubSeq(v, a, b) \in Seq(A)
      BY <2>6, SubSeqProperties
    <3>2. Len(SubSeq(v, a, b)) = b - a + 1
      BY <2>4, <2>6, SubSeqProperties
    <3>3. \A i \in 1 .. b - a + 1 : SubSeq(v, a, b)[i] = v[a + i - 1]
      BY <2>6, SubSeqProperties
    <3> QED
      BY <2>5, <3>1, <3>2, <3>3
  <2>8. w[1] = v[a] /\ w[b - a + 1] = v[b]
    <3>1. PICK i \in Nat, j \in Nat : i = a /\ j = b /\ i <= j
      BY <2>4
    <3>2. 1 \in 1 .. j - i + 1 /\ j - i + 1 \in 1 .. j - i + 1 /\ i + 1 - 1 = i
          /\ i + (j - i + 1) - 1 = j
      BY <3>1
    <3> QED
      BY <2>7, <3>1, <3>2
  <2>9. TrimSpace(w) = w
    <3>1. v[a] # " " /\ v[b] # " "
      BY <2>1, <2>2, <2>3, <2>4
    <3> QED
      BY <2>4, <2>7, <2>8, <3>1, TrimTight DEF Tight
  <2>10. TrimSpace(v) = w
    BY <1>2, <1>4, <2>4, <2>5
  <2> QED
    BY <2>7, <2>9, <2>10
<1> QED
  BY <1>3, <1>4

Line == Wire \cup {","}

LEMMA Lines ==
  /\ "," \notin Wire /\ " " \notin Line /\ Wire \subseteq Line
  /\ Seq(Wire) \subseteq Seq(Line)
<1>1. "," \notin Wire /\ " " \notin Line /\ Wire \subseteq Line
  BY EscapedAssumption DEF Wire, Line, Digit
<1>2. ASSUME NEW v \in Seq(Wire)
      PROVE  v \in Seq(Line)
  BY <1>1, SeqMonotonic
<1> QED
  BY <1>1, <1>2

(* Nothing a header carries has a blank to lose.                            *)
LEMMA LinesTravel ==
  ASSUME NEW v \in Seq(Line)
  PROVE  TrimSpace(v) = v
<1>1. Len(v) > 0 => 1 \in 1 .. Len(v) /\ Len(v) \in 1 .. Len(v)
  BY LenProperties
<1>2. Len(v) > 0 => v[1] \in Line /\ v[Len(v)] \in Line
  BY <1>1, ElementOfSeq
<1> QED
  BY <1>2, Lines, TrimTight DEF Tight


LEMMA UnlessType ==
  ASSUME NEW A, NEW drop \in BOOLEAN, NEW a, ~drop => a \in A
  PROVE  Unless(drop, a) \in Seq(A)
<1>1. CASE drop
  <2>1. Unless(drop, a) = <<>>
    BY <1>1, Zenon DEF Unless
  <2> QED
    BY <2>1, EmptySeq
<1>2. CASE ~drop
  <2>1. Unless(drop, a) = <<a>> /\ a \in A
    BY <1>2, Zenon DEF Unless
  <2> QED
    BY <2>1, Single
<1> QED
  BY <1>1, <1>2

(* The commas of a line that grows.                                         *)
LEMMA CommasGrow ==
  /\ Commas(<<>>) = <<>>
  /\ \A v \in Seq(Line) :
       /\ Commas(v) \in Seq(1 .. Len(v))
       /\ \A x \in Line : Commas(Append(v, x)) = Commas(v) \o Unless(x # ",", Len(v) + 1)
<1>1. Commas(<<>>) = <<>>
  <2>1. [i \in DOMAIN <<>> |-> Unless(<<>>[i] # ",", i)] = <<>>
    OBVIOUS
  <2> QED
    BY <2>1, FlattenEmpty DEF Commas
<1> DEFINE of(u) == [i \in DOMAIN u |-> Unless(u[i] # ",", i)]
<1>2. ASSUME NEW v \in Seq(Line)
      PROVE  Commas(v) \in Seq(1 .. Len(v))
  <2>1. PICK n \in Nat : n = Len(v) /\ DOMAIN v = 1 .. n
    BY LenProperties
  <2>2. \A i \in 1 .. n : Unless(v[i] # ",", i) \in Seq(1 .. n)
    BY UnlessType
  <2>3. of(v) \in Seq(Seq(1 .. n))
    <3> DEFINE e(i) == Unless(v[i] # ",", i)
    <3>1. \A i \in 1 .. n : e(i) \in Seq(1 .. n)
      BY <2>2
    <3> HIDE DEF e
    <3>2. [i \in 1 .. n |-> e(i)] \in Seq(Seq(1 .. n))
      BY <3>1
    <3> QED
      BY <2>1, <3>2 DEF e
  <2> HIDE DEF of
  <2>4. FlattenSeq(of(v)) \in Seq(1 .. n)
    BY <2>3, FlattenType
  <2> QED
    BY <2>1, <2>4 DEF of, Commas
<1>3. ASSUME NEW v \in Seq(Line), NEW x \in Line
      PROVE  Commas(Append(v, x)) = Commas(v) \o Unless(x # ",", Len(v) + 1)
  <2>1. PICK n \in Nat : n = Len(v) /\ DOMAIN v = 1 .. n
    BY LenProperties
  <2>2. PICK u \in Seq(Line) : u = Append(v, x)
    BY AppendProperties
  <2>3. (\A i \in 1 .. n : u[i] = v[i]) /\ u[n + 1] = x /\ DOMAIN u = 1 .. n + 1
    BY <2>1, <2>2, AppendProperties, LenProperties
  <2>4. ASSUME NEW i \in 1 .. n + 1
        PROVE  Unless(u[i] # ",", i) \in Seq(Nat)
    <3>1. i \in Nat
      OBVIOUS
    <3> QED
      BY <3>1, UnlessType
  <2>5. of(u) \in [1 .. n + 1 -> Seq(Nat)]
    BY <2>3, <2>4
  <2>6. of(u)[n + 1] = Unless(x # ",", n + 1)
    <3>1. n + 1 \in DOMAIN u
      BY <2>3
    <3> QED
      BY <2>3, <3>1
  <2>7. of(v) = [i \in 1 .. n |-> of(u)[i]]
    <3>1. ASSUME NEW i \in 1 .. n
          PROVE  of(u)[i] = Unless(v[i] # ",", i)
      <4>1. i \in DOMAIN u /\ u[i] = v[i]
        BY <2>3
      <4> QED
        BY <4>1
    <3> QED
      BY <2>1, <3>1
  <2> HIDE DEF of
  <2>8. FlattenSeq(of(u)) = FlattenSeq(of(v)) \o of(u)[n + 1]
    BY <2>5, <2>7, FlattenGrows
  <2> QED
    BY <2>1, <2>2, <2>6, <2>8 DEF of, Commas
<1> QED
  BY <1>1, <1>2, <1>3

(* Text without a comma adds none.                                          *)
LEMMA CommasSkip ==
  ASSUME NEW v \in Seq(Line), NEW w \in Seq(Wire)
  PROVE  Commas(v \o w) = Commas(v)
<1> DEFINE S == {t \in Seq(Wire) : Commas(v \o t) = Commas(v)}
<1>1. <<>> \in S
  BY EmptySeq, ConcatEmptySeq
<1>2. ASSUME NEW t \in Seq(Wire), NEW x \in Wire, t \in S
      PROVE  Append(t, x) \in S
  <2>1. t \in Seq(Line) /\ x \in Line /\ x # ","
    BY Lines
  <2>2. PICK one \in Seq(Line) : one = <<x>>
    BY <2>1, Single
  <2>3. PICK l \in Seq(Line) : l = v \o t
    BY <2>1, ConcatProperties
  <2>4. v \o Append(t, x) = Append(l, x)
    <3>1. Append(t, x) = t \o one
      BY <2>1, <2>2, AppendIsConcat
    <3>2. Append(l, x) = l \o one
      BY <2>1, <2>2, AppendIsConcat
    <3>3. (v \o t) \o one = v \o (t \o one)
      <4>1. t \in Seq(Line)
        BY <2>1
      <4> QED
        BY <4>1, ConcatAssociative
    <3> QED
      BY <2>3, <3>1, <3>2, <3>3
  <2>5. Commas(Append(l, x)) = Commas(l)
    <3>1. Unless(x # ",", Len(l) + 1) = <<>>
      BY <2>1, Zenon DEF Unless
    <3>2. Commas(Append(l, x)) = Commas(l) \o <<>>
      BY <2>1, <3>1, CommasGrow
    <3> QED
      BY <3>2, CommasGrow, ConcatEmptySeq
  <2>6. Commas(l) = Commas(v)
    BY <1>2, <2>3
  <2>7. Append(t, x) \in Seq(Wire)
    BY AppendProperties
  <2> QED
    BY <2>4, <2>5, <2>6, <2>7
<1> HIDE DEF S
<1>3. w \in S
  BY <1>1, <1>2, GrowingSequences
<1> QED
  BY <1>3 DEF S

(* Where Split cuts a line.                                                 *)
Cuts(value) == <<0>> \o Commas(value) \o <<Len(value) + 1>>

LEMMA CutsType ==
  ASSUME NEW v \in Seq(Line)
  PROVE  Cuts(v) \in Seq(0 .. Len(v) + 1) /\ Len(Cuts(v)) = Len(Commas(v)) + 2
         /\ Cuts(v)[Len(Commas(v)) + 2] = Len(v) + 1
<1>1. PICK n \in Nat : n = Len(v)
  BY LenProperties
<1>2. PICK c \in Seq(0 .. n + 1) : c = Commas(v)
  <2>1. Commas(v) \in Seq(1 .. n)
    BY <1>1, CommasGrow
  <2>2. 1 .. n \subseteq 0 .. n + 1
    OBVIOUS
  <2> QED
    BY <2>1, <2>2, SeqMonotonic
<1>3. 0 \in 0 .. n + 1 /\ n + 1 \in 0 .. n + 1
  OBVIOUS
<1>4. PICK a \in Seq(0 .. n + 1) : a = <<0>> /\ Len(a) = 1
  <2>1. <<0>> \in Seq(0 .. n + 1)
    BY <1>3, Single
  <2> QED
    BY <2>1
<1>5. PICK b \in Seq(0 .. n + 1) : b = a \o c /\ Len(b) = 1 + Len(c)
  <2>1. a \o c \in Seq(0 .. n + 1) /\ Len(a \o c) = Len(a) + Len(c)
    BY ConcatProperties
  <2> QED
    BY <1>4, <2>1
<1>6. Cuts(v) = Append(b, n + 1)
  <2>1. Append(b, n + 1) = b \o <<n + 1>>
    BY <1>3, AppendIsConcat
  <2> QED
    BY <1>1, <1>2, <1>4, <1>5, <2>1 DEF Cuts
<1>7. Len(c) \in Nat
  BY LenProperties
<1>8. /\ Append(b, n + 1) \in Seq(0 .. n + 1) /\ Len(Append(b, n + 1)) = Len(b) + 1
      /\ Append(b, n + 1)[Len(b) + 1] = n + 1
  BY <1>3, AppendProperties
<1>9. Len(b) + 1 = Len(c) + 2
  BY <1>5, <1>7
<1> QED
  BY <1>1, <1>2, <1>6, <1>8, <1>9

LEMMA SplitOne ==
  ASSUME NEW p \in Seq(Wire)
  PROVE  Split(p) = <<p>>
<1>1. p \in Seq(Line) /\ <<>> \in Seq(Line)
  BY Lines, EmptySeq
<1>2. Commas(p) = <<>>
  <2>1. Commas(<<>> \o p) = Commas(<<>>)
    BY <1>1, CommasSkip
  <2> QED
    BY <1>1, <2>1, CommasGrow, ConcatEmptySeq
<1>3. PICK n \in Nat : n = Len(p)
  BY LenProperties
<1>4. PICK one \in Seq(Nat) : one = <<0>> /\ Len(one) = 1 /\ one[1] = 0
  <2>1. <<0>> \in Seq(Nat)
    BY Single
  <2> QED
    BY <2>1
<1>5. PICK cuts : cuts = Cuts(p) /\ cuts[1] = 0 /\ cuts[2] = n + 1 /\ Len(cuts) = 2
  <2>1. Cuts(p) = one \o <<>> \o <<n + 1>>
    BY <1>2, <1>3, <1>4 DEF Cuts
  <2>2. one \o <<>> = one
    BY ConcatEmptySeq
  <2>3. one \o <<n + 1>> = Append(one, n + 1)
    BY AppendIsConcat
  <2>4. PICK cuts \in Seq(Nat) : cuts = Append(one, n + 1)
    <3>1. n + 1 \in Nat
      OBVIOUS
    <3> QED
      BY <3>1, AppendProperties
  <2>5. cuts[1] = 0 /\ cuts[2] = n + 1 /\ Len(cuts) = 2
    BY <1>4, <2>4, AppendProperties
  <2> QED
    BY <2>1, <2>2, <2>3, <2>4, <2>5
<1>6. Split(p) = [k \in 1 .. Len(cuts) - 1 |-> SubSeq(p, cuts[k] + 1, cuts[k + 1] - 1)]
  BY <1>5 DEF Split, Cuts
<1>7. SubSeq(p, cuts[1] + 1, cuts[2] - 1) = p
  <2>1. cuts[1] + 1 = 1 /\ cuts[2] - 1 = Len(p)
    BY <1>3, <1>5
  <2> QED
    BY <2>1, SubSeqFull
<1> DEFINE piece(k) == SubSeq(p, cuts[k] + 1, cuts[k + 1] - 1)
<1>8. Split(p) = [k \in 1 .. 1 |-> piece(k)] /\ piece(1) = p
  BY <1>5, <1>6, <1>7
<1> HIDE DEF piece
<1>9. Split(p) = [k \in 1 .. 1 |-> p]
  BY <1>8
<1> QED
  BY <1>9

(* A comma and a piece more split into one piece more.                      *)
LEMMA SplitAppend ==
  ASSUME NEW v \in Seq(Line), NEW p \in Seq(Wire)
  PROVE  /\ Split(v) \in Seq(Seq(Line))
         /\ Split(v \o (<<",">> \o p)) = Append(Split(v), p)
<1>1. PICK n \in Nat : n = Len(v)
  BY LenProperties
<1>2. PICK m \in Nat : m = Len(p)
  BY LenProperties
<1>3. p \in Seq(Line)
  BY Lines
<1>4. PICK comma \in Line : comma = ","
  BY DEF Line
<1>5. PICK one \in Seq(Line) : one = <<comma>>
  BY Single
<1>6. PICK l \in Seq(Line) : l = Append(v, comma) /\ l = v \o one /\ Len(l) = n + 1
  <2>1. Append(v, comma) \in Seq(Line) /\ Len(Append(v, comma)) = n + 1
    BY <1>1, AppendProperties
  <2>2. Append(v, comma) = v \o <<comma>>
    BY AppendIsConcat
  <2> QED
    BY <1>5, <2>1, <2>2
<1>7. PICK w \in Seq(Line) : w = v \o (one \o p) /\ w = l \o p /\ Len(w) = n + 1 + m
  <2>1. (v \o one) \o p = v \o (one \o p)
    BY <1>3, ConcatAssociative
  <2>2. l \o p \in Seq(Line) /\ Len(l \o p) = Len(l) + Len(p)
    BY <1>3, ConcatProperties
  <2> QED
    BY <1>2, <1>6, <2>1, <2>2
<1>8. Commas(w) = Commas(v) \o <<n + 1>>
  <2>1. Commas(w) = Commas(l)
    BY <1>7, CommasSkip
  <2>2. Commas(l) = Commas(v) \o Unless("," # ",", n + 1)
    <3>1. Commas(l) = Commas(v) \o Unless(comma # ",", n + 1)
      BY <1>1, <1>6, CommasGrow
    <3> QED
      BY <1>4, <3>1
  <2>3. Unless("," # ",", n + 1) = <<n + 1>>
    BY DEF Unless
  <2> QED
    BY <2>1, <2>2, <2>3
<1>9. PICK M \in Nat : M = Len(Commas(v)) + 2 /\ M >= 2
  <2>1. Commas(v) \in Seq(1 .. n)
    BY <1>1, CommasGrow
  <2>2. Len(Commas(v)) \in Nat
    BY <2>1, LenProperties
  <2> QED
    BY <2>2
<1>10. PICK c \in Seq(0 .. n + 1) : c = Cuts(v) /\ Len(c) = M /\ c[M] = n + 1
  BY <1>1, <1>9, CutsType
<1>11. PICK d : d = Cuts(w) /\ Len(d) = M + 1 /\ d[M + 1] = n + m + 2
                /\ \A k \in 1 .. M : d[k] = c[k]
  <2> DEFINE T == 0 .. n + m + 2
  <2>1. c \in Seq(T) /\ Commas(v) \in Seq(T)
    <3>1. 0 .. n + 1 \subseteq T /\ 1 .. n \subseteq T
      OBVIOUS
    <3>2. Commas(v) \in Seq(1 .. n)
      BY <1>1, CommasGrow
    <3> HIDE DEF T
    <3>3. Commas(v) \in Seq(T)
      BY <3>1, <3>2, SeqMonotonic
    <3>4. c \in Seq(T)
      BY <3>1, SeqMonotonic
    <3> QED
      BY <3>3, <3>4
  <2>2. 0 \in T /\ n + 1 \in T /\ n + m + 2 \in T
    OBVIOUS
  <2> HIDE DEF T
  <2>3. <<0>> \in Seq(T) /\ <<n + 1>> \in Seq(T)
    BY <2>2, Single
  <2>4. <<0>> \o (Commas(v) \o <<n + 1>>) = (<<0>> \o Commas(v)) \o <<n + 1>>
    BY <2>1, <2>3, ConcatAssociative
  <2>5. Cuts(w) = (<<0>> \o (Commas(v) \o <<n + 1>>)) \o <<n + m + 2>>
    <3>1. Len(w) + 1 = n + m + 2
      BY <1>7
    <3> QED
      BY <1>8, <3>1 DEF Cuts
  <2>6. c = (<<0>> \o Commas(v)) \o <<n + 1>>
    BY <1>1, <1>10 DEF Cuts
  <2>7. c \o <<n + m + 2>> = Append(c, n + m + 2)
    BY <2>1, <2>2, AppendIsConcat
  <2>8. PICK d \in Seq(T) : d = Append(c, n + m + 2)
    BY <2>1, <2>2, AppendProperties
  <2>9. Len(d) = M + 1 /\ d[M + 1] = n + m + 2 /\ \A k \in 1 .. M : d[k] = c[k]
    BY <1>10, <2>1, <2>2, <2>8, AppendProperties
  <2> QED
    BY <2>4, <2>5, <2>6, <2>7, <2>8, <2>9
<1> DEFINE of(k) == SubSeq(v, c[k] + 1, c[k + 1] - 1)
           from(k) == SubSeq(w, d[k] + 1, d[k + 1] - 1)
<1>12. Split(v) = [k \in 1 .. M - 1 |-> of(k)]
  BY <1>10 DEF Split, Cuts
<1>13. Split(w) = [k \in 1 .. M |-> from(k)]
  <2>1. Split(w) = [k \in 1 .. Len(d) - 1 |-> from(k)]
    BY <1>11 DEF Split, Cuts
  <2>2. Len(d) - 1 = M
    BY <1>11
  <2> QED
    BY <2>1, <2>2
<1>14. ASSUME NEW k \in 1 .. M - 1
       PROVE  of(k) \in Seq(Line) /\ from(k) = of(k)
  <2>1. PICK i \in 0 .. n + 1, j \in 0 .. n + 1 : i = c[k] /\ j = c[k + 1]
    <3>1. k \in 1 .. M /\ k + 1 \in 1 .. M
      OBVIOUS
    <3> QED
      BY <1>10, <3>1, ElementOfSeq
  <2>2. d[k] = i /\ d[k + 1] = j
    <3>1. k \in 1 .. M /\ k + 1 \in 1 .. M
      OBVIOUS
    <3> QED
      BY <1>11, <2>1, <3>1
  <2>3. SubSeq(v, i + 1, j - 1) \in Seq(Line) /\ SubSeq(w, i + 1, j - 1) = SubSeq(v, i + 1, j - 1)
    <3>1. CASE j - 1 < i + 1
      BY <3>1, SubSeqEmpty, EmptySeq
    <3>2. CASE i + 1 <= j - 1
      <4>1. i + 1 \in 1 .. Len(v) /\ j - 1 \in 1 .. Len(v)
        BY <1>1, <3>2
      <4>2. v \o (one \o p) = w /\ one \o p \in Seq(Line)
        BY <1>3, <1>7, ConcatProperties
      <4>3. SubSeq(w, i + 1, j - 1) = SubSeq(v, i + 1, j - 1)
        BY <4>1, <4>2, SubSeqOfConcat1
      <4>4. \A h \in i + 1 .. j - 1 : v[h] \in Line
        BY <1>1, ElementOfSeq
      <4>5. SubSeq(v, i + 1, j - 1) \in Seq(Line)
        BY <4>4, SubSeqProperties
      <4> QED
        BY <4>3, <4>5
    <3> QED
      BY <3>1, <3>2
  <2> QED
    BY <2>1, <2>2, <2>3
<1>15. from(M) = p
  <2>1. d[M] = n + 1 /\ d[M + 1] = n + m + 2
    <3>1. M \in 1 .. M
      BY <1>9
    <3> QED
      BY <1>10, <1>11, <3>1
  <2>2. SubSeq(w, n + 2, n + m + 1) = p
    <3>1. CASE m = 0
      <4>1. p = <<>>
        BY <1>2, <3>1, EmptySeq
      <4> QED
        BY <3>1, <4>1, SubSeqEmpty
    <3>2. CASE m # 0
      <4>1. PICK i \in Len(l) + 1 .. Len(l) + Len(p), j \in Len(l) + 1 .. Len(l) + Len(p) :
              i = n + 2 /\ j = n + m + 1
        <5>1. /\ n + 2 \in Len(l) + 1 .. Len(l) + Len(p)
              /\ n + m + 1 \in Len(l) + 1 .. Len(l) + Len(p)
          BY <1>2, <1>6, <3>2
        <5> QED
          BY <5>1
      <4>2. SubSeq(l \o p, i, j) = SubSeq(p, i - Len(l), j - Len(l))
        BY <1>3, SubSeqOfConcat2
      <4>3. i - Len(l) = 1 /\ j - Len(l) = Len(p)
        BY <1>2, <1>6, <4>1
      <4> QED
        BY <1>7, <4>1, <4>2, <4>3, SubSeqFull
    <3> QED
      BY <3>1, <3>2
  <2>3. n + 1 + 1 = n + 2 /\ n + m + 2 - 1 = n + m + 1
    OBVIOUS
  <2> QED
    BY <2>1, <2>2, <2>3
<1> HIDE DEF of, from
<1>16. Split(v) \in Seq(Seq(Line)) /\ Len(Split(v)) = M - 1
  <2>1. M - 1 \in Nat
    BY <1>9
  <2> QED
    BY <1>12, <1>14, <2>1
<1>17. Split(w) = Append(Split(v), p)
  <2>1. PICK a \in Seq(Seq(Line)) : a = Append(Split(v), p)
    BY <1>3, <1>16, AppendProperties
  <2>2. Len(a) = M /\ (\A k \in 1 .. M - 1 : a[k] = Split(v)[k]) /\ a[M] = p
    BY <1>3, <1>16, <2>1, AppendProperties
  <2>3. \A k \in 1 .. M : from(k) = a[k] /\ from(k) \in Seq(Line)
    <3>1. ASSUME NEW k \in 1 .. M
          PROVE  from(k) = a[k] /\ from(k) \in Seq(Line)
      <4>1. CASE k \in 1 .. M - 1
        BY <1>12, <1>14, <2>2, <4>1
      <4>2. CASE k = M
        BY <1>3, <1>15, <2>2, <4>2
      <4> QED
        BY <4>1, <4>2
    <3> QED
      BY <3>1
  <2>4. Split(w) \in Seq(Seq(Line)) /\ Len(Split(w)) = M /\ \A k \in 1 .. M : Split(w)[k] = a[k]
    BY <1>13, <2>3
  <2>5. Split(w) = a
    BY <2>2, <2>4, SeqEqual
  <2> QED
    BY <2>1, <2>5
<1> QED
  BY <1>5, <1>7, <1>16, <1>17, <1>4


\* The k-th piece, with the comma that comes before it.
Led(k, piece) == (IF k = 1 THEN <<>> ELSE <<",">>) \o piece

LEMMA LedType ==
  ASSUME NEW k \in Nat, NEW p \in Seq(Wire)
  PROVE  /\ Led(k, p) \in Seq(Line)
         /\ k = 1 => Led(k, p) = p
         /\ k # 1 => Led(k, p) = <<",">> \o p
<1>1. p \in Seq(Line)
  BY Lines
<1>2. CASE k = 1
  <2>1. Led(k, p) = <<>> \o p
    BY <1>2 DEF Led
  <2>2. <<>> \o p = p
    BY ConcatEmptySeq
  <2> QED
    BY <1>1, <1>2, <2>1, <2>2
<1>3. CASE k # 1
  <2>1. Led(k, p) = <<",">> \o p
    BY <1>3 DEF Led
  <2>2. <<",">> \in Seq(Line)
    <3>1. "," \in Line
      BY DEF Line
    <3> QED
      BY <3>1, Single
  <2>3. <<",">> \o p \in Seq(Line)
    BY <1>1, <2>2, ConcatProperties
  <2> QED
    BY <1>3, <2>1, <2>3
<1> QED
  BY <1>2, <1>3

LEMMA JoinGrows ==
  /\ Join(<<>>) = <<>>
  /\ \A ps \in Seq(Seq(Wire)) :
       /\ Join(ps) \in Seq(Line)
       /\ \A p \in Seq(Wire) :
            Join(Append(ps, p)) = IF ps = <<>> THEN p ELSE Join(ps) \o (<<",">> \o p)
<1> DEFINE of(ps) == [k \in DOMAIN ps |-> Led(k, ps[k])]
<1>1. \A ps : Join(ps) = FlattenSeq(of(ps))
  BY DEF Join, Led
<1>2. Join(<<>>) = <<>>
  <2>1. of(<<>>) = <<>>
    OBVIOUS
  <2> HIDE DEF of
  <2> QED
    BY <1>1, <2>1, FlattenEmpty
<1>3. ASSUME NEW ps \in Seq(Seq(Wire))
      PROVE  Join(ps) \in Seq(Line)
  <2>1. PICK n \in Nat : n = Len(ps) /\ DOMAIN ps = 1 .. n
    BY LenProperties
  <2>2. \A k \in 1 .. n : ps[k] \in Seq(Wire) /\ k \in Nat
    BY <2>1, ElementOfSeq
  <2>3. \A k \in 1 .. n : Led(k, ps[k]) \in Seq(Line)
    BY <2>2, LedType
  <2>4. of(ps) \in Seq(Seq(Line))
    BY <2>1, <2>3
  <2> HIDE DEF of
  <2> QED
    BY <1>1, <2>4, FlattenType
<1>4. ASSUME NEW ps \in Seq(Seq(Wire)), NEW p \in Seq(Wire)
      PROVE  Join(Append(ps, p)) = IF ps = <<>> THEN p ELSE Join(ps) \o (<<",">> \o p)
  <2>1. PICK n \in Nat : n = Len(ps) /\ DOMAIN ps = 1 .. n
    BY LenProperties
  <2>2. PICK qs \in Seq(Seq(Wire)) : qs = Append(ps, p)
    BY AppendProperties
  <2>3. (\A k \in 1 .. n : qs[k] = ps[k]) /\ qs[n + 1] = p /\ DOMAIN qs = 1 .. n + 1
    BY <2>1, <2>2, AppendProperties, LenProperties
  <2>4. \A k \in 1 .. n + 1 : qs[k] \in Seq(Wire) /\ k \in Nat
    BY <2>2, <2>3, LenProperties
  <2>5. \A k \in 1 .. n + 1 : Led(k, qs[k]) \in Seq(Line)
    BY <2>4, LedType
  <2>6. of(qs) \in [1 .. n + 1 -> Seq(Line)] /\ of(qs)[n + 1] = Led(n + 1, p)
    BY <2>3, <2>5
  <2>7. of(ps) = [k \in 1 .. n |-> of(qs)[k]]
    BY <2>1, <2>3
  <2> HIDE DEF of
  <2>8. Join(qs) = Join(ps) \o Led(n + 1, p)
    BY <1>1, <2>6, <2>7, FlattenGrows
  <2>9. CASE ps = <<>>
    <3>1. n = 0
      BY <2>1, <2>9, EmptySeq
    <3>2. Led(n + 1, p) = p
      <4>1. n + 1 \in Nat /\ n + 1 = 1
        BY <3>1
      <4> QED
        BY <4>1, LedType
    <3>3. Join(qs) = <<>> \o p
      BY <1>2, <2>8, <2>9, <3>2
    <3>4. <<>> \o p = p
      BY ConcatEmptySeq
    <3> QED
      BY <2>2, <2>9, <3>3, <3>4
  <2>10. CASE ps # <<>>
    <3>1. n # 0
      BY <2>1, <2>10, EmptySeq
    <3>2. Led(n + 1, p) = <<",">> \o p
      <4>1. n + 1 \in Nat /\ n + 1 # 1
        BY <3>1
      <4> QED
        BY <4>1, LedType
    <3> QED
      BY <2>2, <2>8, <2>10, <3>2
  <2> QED
    BY <2>9, <2>10
<1> QED
  BY <1>2, <1>3, <1>4

(* A comma is what splits a line, and no piece has one.                     *)
LEMMA SplitsWhatItJoins ==
  ASSUME NEW ps \in Seq(Seq(Wire)), ps # <<>>
  PROVE  Split(Join(ps)) = ps
<1> DEFINE S == {qs \in Seq(Seq(Wire)) : qs # <<>> => Split(Join(qs)) = qs}
<1>1. <<>> \in S
  BY EmptySeq
<1>2. ASSUME NEW qs \in Seq(Seq(Wire)), NEW p \in Seq(Wire), qs \in S
      PROVE  Append(qs, p) \in S
  <2>1. Append(qs, p) \in Seq(Seq(Wire))
    BY AppendProperties
  <2>2. CASE qs = <<>>
    <3>1. Join(Append(qs, p)) = p
      BY <2>2, JoinGrows
    <3>2. Split(p) = <<p>>
      BY SplitOne
    <3>3. Append(<<>>, p) = <<p>>
      <4>1. Append(<<>>, p) = <<>> \o <<p>>
        BY <2>2, AppendIsConcat
      <4>2. <<p>> \in Seq(Seq(Wire))
        BY Single
      <4> QED
        BY <4>1, <4>2, ConcatEmptySeq
    <3> QED
      BY <2>1, <2>2, <3>1, <3>2, <3>3
  <2>3. CASE qs # <<>>
    <3>1. Split(Join(qs)) = qs
      BY <1>2, <2>3
    <3>2. Join(Append(qs, p)) = Join(qs) \o (<<",">> \o p)
      BY <2>3, JoinGrows
    <3>3. Split(Join(qs) \o (<<",">> \o p)) = Append(Split(Join(qs)), p)
      BY JoinGrows, SplitAppend
    <3> QED
      BY <2>1, <3>1, <3>2, <3>3
  <2> QED
    BY <2>2, <2>3
<1> HIDE DEF S
<1>3. ps \in S
  BY <1>1, <1>2, GrowingSequences
<1> QED
  BY <1>3 DEF S

-----------------------------------------------------------------------------
Inked == {t \in Seq(Character) : ~Blank(t)}

LEMMA WithoutBlankType ==
  ASSUME NEW texts \in Seq(Seq(Character))
  PROVE  WithoutBlank(texts) \in Seq(Inked)
<1>1. PICK n \in Nat : n = Len(texts) /\ DOMAIN texts = 1 .. n
  BY LenProperties
<1> DEFINE of(k) == Unless(Blank(texts[k]), texts[k])
<1>2. ASSUME NEW k \in 1 .. n
      PROVE  of(k) \in Seq(Inked)
  <2>1. PICK t \in Seq(Character) : t = texts[k]
    BY <1>1, ElementOfSeq
  <2>2. Blank(t) \in BOOLEAN
    BY DEF Blank
  <2>3. ~Blank(t) => t \in Inked
    BY DEF Inked
  <2>4. Unless(Blank(t), t) \in Seq(Inked)
    BY <2>2, <2>3, UnlessType
  <2> QED
    BY <2>1, <2>4
<1>3. WithoutBlank(texts) = FlattenSeq([k \in 1 .. n |-> of(k)])
  BY <1>1 DEF WithoutBlank
<1> HIDE DEF of
<1>4. [k \in 1 .. n |-> of(k)] \in Seq(Seq(Inked))
  BY <1>2
<1> QED
  BY <1>3, <1>4, FlattenType

(* The list the extension reads from a header is the list the Host wrote,   *)
(* less its blank entries.                                                  *)
LEMMA ListsSurvive ==
  ASSUME NEW texts \in Seq(Seq(Character))
  PROVE  splitList(Transported(joinList(texts))) = WithoutBlank(texts)
<1>1. PICK kept \in Seq(Inked) : kept = WithoutBlank(texts)
  BY WithoutBlankType
<1>2. PICK n \in Nat : n = Len(kept) /\ DOMAIN kept = 1 .. n
  BY LenProperties
<1>3. \A k \in 1 .. n : kept[k] \in Seq(Character) /\ kept[k] # <<>>
  <2>1. \A t \in Inked : t \in Seq(Character) /\ t # <<>>
    <3>1. Blank(<<>>)
      <4>1. DOMAIN <<>> = {}
        OBVIOUS
      <4> QED
        BY <4>1, Zenon DEF Blank
    <3> QED
      BY <3>1 DEF Inked
  <2> QED
    BY <1>2, <2>1, ElementOfSeq
<1>4. PICK pieces : pieces = [k \in 1 .. n |-> EncodeHeaderValue(kept[k])]
  OBVIOUS
<1>5. /\ pieces \in Seq(Seq(Wire)) /\ Len(pieces) = n
      /\ \A k \in 1 .. n : pieces[k] = EncodeHeaderValue(kept[k])
  <2>1. \A k \in 1 .. n : EncodeHeaderValue(kept[k]) \in Seq(Wire)
    BY <1>3, EncodeGrows
  <2> QED
    BY <1>4, <2>1
<1>6. joinList(texts) = Join(pieces)
  BY <1>1, <1>2, <1>4 DEF joinList
<1>7. Transported(joinList(texts)) = Join(pieces)
  <2>1. Join(pieces) \in Seq(Line)
    BY <1>5, JoinGrows
  <2> QED
    BY <1>6, <2>1, LinesTravel DEF Transported
<1>8. CASE n = 0
  <2>1. kept = <<>> /\ pieces = <<>>
    BY <1>2, <1>5, <1>8, EmptySeq
  <2>2. Join(pieces) = <<>>
    BY <2>1, JoinGrows
  <2>3. PICK cut : cut = Split(<<>>) /\ DOMAIN cut = 1 .. 1 /\ cut[1] = <<>>
    <3>1. <<>> \in Seq(Wire)
      BY EmptySeq
    <3>2. Split(<<>>) = << <<>> >>
      BY <3>1, SplitOne
    <3> QED
      BY <3>2
  <2>4. DecodeHeaderValue(TrimSpace(<<>>)) = <<>>
    <3>1. TrimSpace(<<>>) = <<>>
      BY LinesTravel, EmptySeq
    <3>2. Unescape(<<>>) = <<>>
      BY UnescapeGrows
    <3> QED
      BY <3>1, <3>2 DEF DecodeHeaderValue
  <2> DEFINE decoded == [k \in DOMAIN cut |-> DecodeHeaderValue(TrimSpace(cut[k]))]
             out(k) == Unless(decoded[k] = <<>>, decoded[k])
  <2>5. splitList(<<>>) = FlattenSeq([k \in DOMAIN cut |-> out(k)])
    BY <2>3 DEF splitList
  <2>6. out(1) = <<>>
    <3>1. decoded[1] = <<>>
      BY <2>3, <2>4
    <3> HIDE DEF decoded
    <3> QED
      BY <3>1, Zenon DEF Unless
  <2> HIDE DEF out
  <2>7. FlattenSeq([k \in 1 .. 1 |-> out(k)]) = <<>>
    <3> DEFINE f == [k \in 1 .. 1 |-> out(k)]
    <3>1. f[0 + 1] = <<>> /\ f \in [1 .. 0 + 1 -> Seq(Character)]
      <4>1. \A k \in 1 .. 1 : out(k) = <<>>
        BY <2>6
      <4>2. f = [k \in 1 .. 1 |-> <<>>]
        BY <4>1
      <4>3. <<>> \in Seq(Character)
        BY EmptySeq
      <4> HIDE DEF f
      <4>4. f \in [1 .. 1 -> Seq(Character)]
        BY <4>2, <4>3
      <4>5. f[1] = <<>> /\ 0 + 1 = 1
        BY <4>2
      <4> QED
        BY <4>4, <4>5
    <3>2. <<>> = [k \in 1 .. 0 |-> f[k]]
      OBVIOUS
    <3> HIDE DEF f
    <3>3. FlattenSeq(f) = FlattenSeq(<<>>) \o f[0 + 1]
      BY <3>1, <3>2, FlattenGrows
    <3>4. <<>> \o <<>> = <<>>
      BY EmptySeq, ConcatEmptySeq
    <3> QED
      BY <3>1, <3>3, <3>4, FlattenEmpty DEF f
  <2>8. splitList(<<>>) = <<>>
    BY <2>3, <2>5, <2>7
  <2> QED
    BY <1>1, <1>7, <2>1, <2>2, <2>8
<1>9. CASE n # 0
  <2>1. Split(Join(pieces)) = pieces
    BY <1>5, <1>9, EmptySeq, SplitsWhatItJoins
  <2>2. ASSUME NEW k \in 1 .. n
        PROVE  DecodeHeaderValue(TrimSpace(pieces[k])) = kept[k]
    <3>1. PICK t \in Seq(Character) : t = kept[k]
      BY <1>3
    <3>2. PICK v \in Seq(Line) : v = pieces[k] /\ v = EncodeHeaderValue(t)
      BY <1>5, <3>1, EncodeGrows, Lines
    <3>3. TrimSpace(v) = v
      BY LinesTravel
    <3> QED
      BY <3>1, <3>2, <3>3, DecodesWhatItEncodes
  <2>3. DOMAIN pieces = 1 .. n
    BY <1>4
  <2> DEFINE decoded == [k \in DOMAIN pieces |-> DecodeHeaderValue(TrimSpace(pieces[k]))]
  <2>4. splitList(Join(pieces))
          = FlattenSeq([k \in DOMAIN pieces |-> Unless(decoded[k] = <<>>, decoded[k])])
    BY <2>1 DEF splitList
  <2>5. decoded = kept
    BY <1>2, <2>2, <2>3
  <2> HIDE DEF decoded
  <2>6. ASSUME NEW k \in 1 .. n
        PROVE  Unless(kept[k] = <<>>, kept[k]) = <<kept[k]>>
    <3>1. kept[k] # <<>>
      BY <1>3
    <3> QED
      BY <3>1, Zenon DEF Unless
  <2>7. splitList(Join(pieces)) = FlattenSeq([k \in DOMAIN kept |-> <<kept[k]>>])
    <3> DEFINE out(k) == Unless(kept[k] = <<>>, kept[k])
    <3>1. \A k \in 1 .. n : out(k) = <<kept[k]>>
      BY <2>6
    <3>2. splitList(Join(pieces)) = FlattenSeq([k \in 1 .. n |-> out(k)])
      BY <2>3, <2>4, <2>5
    <3> HIDE DEF out
    <3>3. [k \in 1 .. n |-> out(k)] = [k \in 1 .. n |-> <<kept[k]>>]
      BY <3>1
    <3> QED
      BY <1>2, <3>2, <3>3
  <2> QED
    BY <1>1, <1>7, <2>7, FlattenSingles
<1> QED
  BY <1>8, <1>9

(* For every alphabet, every escaping of it and every identity a Host can   *)
(* vouch for: SetIdentityHeaders, the transport and identityFromRequest     *)
(* give the handler the identity the Host started from (identity.go).       *)
THEOREM IdentitiesSurvive == IdentitySpec => []IdentitySurvivesHeaders
<1> DEFINE Known == identity \in Identity
<1>1. IdentityInit => Known
  BY IdentitiesAssumption DEF IdentityInit
<1>2. Known /\ [IdentityNext]_identity => Known'
  BY DEF IdentityNext
<1>3. Known => IdentitySurvivesHeaders
  <2> SUFFICES ASSUME identity \in Identity
               PROVE  IdentitySurvivesHeaders
    OBVIOUS
  <2>1. PICK id \in Identity : id = identity
    OBVIOUS
  <2>2. /\ id.user \in Seq(Character) /\ id.name \in Seq(Character)
        /\ id.permissions \in Seq(Seq(Character)) /\ id.requestID \in Seq(Character)
    BY DEF Identity
  <2>3. \A t \in Seq(Character) :
          DecodeHeaderValue(TrimSpace(Transported(EncodeHeaderValue(t)))) = t
    <3>1. ASSUME NEW t \in Seq(Character)
          PROVE  DecodeHeaderValue(TrimSpace(Transported(EncodeHeaderValue(t)))) = t
      <4>1. EncodeHeaderValue(t) \in Seq(Line)
        BY EncodeGrows, Lines
      <4>2. TrimSpace(EncodeHeaderValue(t)) = EncodeHeaderValue(t)
        BY <4>1, LinesTravel
      <4> QED
        BY <4>2, DecodesWhatItEncodes DEF Transported
    <3> QED
      BY <3>1
  <2>4. PICK h : h = SetIdentityHeaders(id)
    OBVIOUS
  <2>5. /\ DOMAIN h = {"user", "name", "permissions", "requestID"}
        /\ h.user = EncodeHeaderValue(id.user) /\ h.name = EncodeHeaderValue(id.name)
        /\ h.permissions = joinList(id.permissions) /\ h.requestID = id.requestID
    BY <2>4 DEF SetIdentityHeaders
  <2>6. PICK w : w = [field \in DOMAIN h |-> Transported(h[field])]
    OBVIOUS
  <2>7. /\ w.user = Transported(EncodeHeaderValue(id.user))
        /\ w.name = Transported(EncodeHeaderValue(id.name))
        /\ w.permissions = Transported(joinList(id.permissions))
        /\ w.requestID = Transported(id.requestID)
    BY <2>5, <2>6
  <2>8. PICK got : got = Received(id) /\ got = identityFromRequest(w)
    BY <2>4, <2>6 DEF Received
  <2>9. got.user = id.user
    BY <2>2, <2>3, <2>7, <2>8 DEF identityFromRequest
  <2>10. got.name = id.name
    BY <2>2, <2>3, <2>7, <2>8 DEF identityFromRequest
  <2>11. got.permissions = WithoutBlank(id.permissions)
    BY <2>2, <2>7, <2>8, ListsSurvive DEF identityFromRequest
  <2>12. got.requestID = TrimSpace(id.requestID)
    BY <2>2, <2>7, <2>8, TrimIdempotent DEF identityFromRequest, Transported
  <2>13. VouchedFor(id) <=> ~Blank(id.user) /\ TrimSpace(id.user) = id.user
    BY <2>8, <2>9 DEF VouchedFor, OnBehalfOf, Transported
  <2> QED
    BY <2>1, <2>8, <2>9, <2>10, <2>11, <2>12, <2>13 DEF IdentitySurvivesHeaders
<1> QED
  BY <1>1, <1>2, <1>3, PTL DEF IdentitySpec
=============================================================================
