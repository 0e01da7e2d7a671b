----------------------------- MODULE ContractCheck -----------------------------
(***************************************************************************)
(* testkit/contract.go: CheckExtension runs an extension through           *)
(* CheckManifest, CheckRoutes, CheckLifecycle and CheckHealth and collects *)
(* what is wrong with it.  Start and Health run in goroutines of their own *)
(* under a clock, Stop is called in place.  The extension is any: it       *)
(* returns when it likes, or never, and fails or panics.                   *)
(***************************************************************************)
EXTENDS Manifest, FiniteSets

CONSTANT Handlers   \* what Routes() may return: sequences of [nil, method, pattern, permission]

VARIABLES
  handlers,   \* the handlers of the extension
  pc,         \* where CheckExtension is
  issues,     \* the kinds of issues so far
  start,      \* the call of Start: "none", "running", "ok" or "failed"
  stops,      \* the results of the calls of Stop that have returned
  health,     \* the call of Health: "none", "running", or what it answered
  clock       \* seconds on the clock of the wait that is under way

contractVars == <<manifest, handlers, pc, issues, start, stops, health, clock>>

\* What Health answers: in order, without a time, not OK and without a reason,
\* or neither.  A panic is recovered into an answer without a time.
HealthAnswers == {"fine", "undated", "unexplained", "bare"}

StartLimit == 5
HealthLimit == 2

ContractInit ==
  /\ handlers \in Handlers
  /\ pc = "manifest" /\ issues = {} /\ start = "none" /\ stops = <<>>
  /\ health = "none" /\ clock = 0

Report(kinds) == issues' = issues \cup kinds

-----------------------------------------------------------------------------
Method(h) == IF h.method = Empty THEN "GET" ELSE h.method

RouteKey(h) == <<Method(h), h.pattern>>

\* CheckRoutes.  It does not compare the patterns with the Manifest's routes.
RouteIssues(m, hs) ==
  {kind \in {"nilHandler", "pattern", "duplicate", "foreign"} :
     \E i \in DOMAIN hs :
       CASE kind = "nilHandler" -> hs[i].nil
         [] kind = "pattern"    -> ~hs[i].pattern.rooted
         [] kind = "duplicate"  -> \E j \in 1 .. i - 1 : RouteKey(hs[j]) = RouteKey(hs[i])
         [] kind = "foreign"    -> ~checkExtPermissionRef(m.id, hs[i].permission)}

ManifestStep ==
  /\ pc = "manifest" /\ pc' = "routes"
  /\ Report(IF CheckManifest(manifest) THEN {} ELSE {"manifest"})
  /\ UNCHANGED <<handlers, start, stops, health, clock>>

RoutesStep ==
  /\ pc = "routes" /\ pc' = "lifecycle"
  /\ Report(RouteIssues(manifest, handlers))
  /\ UNCHANGED <<handlers, start, stops, health, clock>>

-----------------------------------------------------------------------------
(***************************************************************************)
(* CheckLifecycle.                                                         *)
(***************************************************************************)
GoStart ==
  /\ pc = "lifecycle" /\ pc' = "awaitStart"
  /\ start' = "running" /\ clock' = 0
  /\ UNCHANGED <<handlers, issues, stops, health>>

\* Start's goroutine may outlive the wait for it; nothing recovers its panic.
StartReturns ==
  /\ start = "running" /\ pc # "crashed"
  /\ \/ start' \in {"ok", "failed"} /\ UNCHANGED pc
     \/ start' = "failed" /\ pc' = "crashed"
  /\ UNCHANGED <<handlers, issues, stops, health, clock>>

\* The second call of Manifest() differs in what is compared, or in the rest.
StartDone ==
  /\ pc = "awaitStart" /\ start \in {"ok", "failed"}
  /\ IF start = "failed"
     THEN pc' = "health" /\ Report({"startFailed"})
     ELSE pc' = "stop" /\ (Report({}) \/ Report({"manifestChanges"}))
  /\ UNCHANGED <<handlers, start, stops, health, clock>>

\* Fault: CheckLifecycle goes on to Stop when Start has taken too long.
StartTimedOut_StopsAnyway ==
  /\ pc = "awaitStart" /\ clock = StartLimit
  /\ pc' = "stop" /\ Report({"slowStart"})
  /\ UNCHANGED <<handlers, start, stops, health, clock>>

\* The select may choose this branch even if Start has returned as well.
StartTimedOut ==
  /\ pc = "awaitStart" /\ clock = StartLimit
  /\ pc' = "health" /\ Report({"slowStart"})
  /\ UNCHANGED <<handlers, start, stops, health, clock>>

\* Called twice.  It may never return; its panic is the caller's.
StopReturns ==
  /\ pc = "stop"
  /\ \/ \E result \in {"ok", "failed"} :
          /\ stops' = Append(stops, result)
          /\ Report(IF result = "ok" THEN {} ELSE {"stopFailed"})
          /\ pc' = IF Len(stops) = 0 THEN "stop" ELSE "health"
     \/ pc' = "crashed" /\ UNCHANGED <<stops, issues>>
  /\ UNCHANGED <<handlers, start, health, clock>>

-----------------------------------------------------------------------------
(***************************************************************************)
(* CheckHealth: after CheckLifecycle, however that ended.                  *)
(***************************************************************************)
GoHealth ==
  /\ pc = "health" /\ pc' = "awaitHealth"
  /\ health' = "running" /\ clock' = 0
  /\ UNCHANGED <<handlers, issues, start, stops>>

HealthReturns ==
  /\ health = "running" /\ pc # "crashed"
  /\ health' \in HealthAnswers
  /\ UNCHANGED <<handlers, pc, issues, start, stops, clock>>

\* Fault: an answer without a time is taken as it is.
HealthDone_AnyTime ==
  /\ pc = "awaitHealth" /\ health \in HealthAnswers
  /\ pc' = "done"
  /\ Report((IF clock >= 1 THEN {"slowHealth"} ELSE {}) \cup
            (IF health \in {"unexplained", "bare"} THEN {"unexplained"} ELSE {}))
  /\ UNCHANGED <<handlers, start, stops, health, clock>>

HealthDone ==
  /\ pc = "awaitHealth" /\ health \in HealthAnswers
  /\ pc' = "done"
  /\ Report((IF clock >= 1 THEN {"slowHealth"} ELSE {}) \cup
            (IF health \in {"undated", "bare"} THEN {"undated"} ELSE {}) \cup
            (IF health \in {"unexplained", "bare"} THEN {"unexplained"} ELSE {}))
  /\ UNCHANGED <<handlers, start, stops, health, clock>>

\* Fault: Health is waited for without an end.
HealthTimedOut_Never == FALSE /\ UNCHANGED contractVars

HealthTimedOut ==
  /\ pc = "awaitHealth" /\ clock = HealthLimit
  /\ pc' = "done" /\ Report({"hungHealth"})
  /\ UNCHANGED <<handlers, start, stops, health, clock>>

Second ==
  /\ \/ pc = "awaitStart" /\ clock < StartLimit
     \/ pc = "awaitHealth" /\ clock < HealthLimit
  /\ clock' = clock + 1
  /\ UNCHANGED <<handlers, pc, issues, start, stops, health>>

Checker ==
  ManifestStep \/ RoutesStep \/ GoStart \/ StartDone \/ StartTimedOut
    \/ GoHealth \/ HealthDone \/ HealthTimedOut

ContractNext ==
  /\ Checker \/ Second \/ StartReturns \/ StopReturns \/ HealthReturns
  /\ UNCHANGED manifest

\* The checker runs, time passes, and Stop returns; Start and Health need not.
ContractFairness ==
  /\ WF_contractVars(Checker /\ UNCHANGED manifest)
  /\ WF_contractVars(Second /\ UNCHANGED manifest)
  /\ WF_contractVars(StopReturns /\ UNCHANGED manifest)

ContractSpec ==
  ManifestInit /\ ContractInit /\ [][ContractNext]_contractVars /\ ContractFairness

-----------------------------------------------------------------------------
(* The report can be relied on.  If there are no issues, the Manifest is    *)
(* one the Core installs, Start, both calls of Stop and Health have         *)
(* returned, none of them failed or panicked, and nothing of the extension  *)
(* is running.  And whatever is left behind (a Start still under way, or    *)
(* one that came through too late and is never stopped) has been reported,  *)
(* even if Start returns later than its wait.                               *)
ReportIsHonest ==
  pc = "done" =>
    /\ issues = {} => /\ CheckManifest(manifest)
                      /\ start = "ok" /\ stops = <<"ok", "ok">>
                      /\ health = "fine"
    /\ start \in {"running", "ok"} /\ stops = <<>> => "slowStart" \in issues

(* Stop is called, twice at most, only on an extension whose Start has      *)
(* returned without an error, and not while Health is being asked.          *)
StopsWhatStarted ==
  [][stops' # stops => start = "ok" /\ health = "none" /\ Len(stops') <= 2]_contractVars

(* An extension whose Start or Health never returns is checked to the end.  *)
CheckReturns == <>(pc \in {"done", "crashed"})
=============================================================================
