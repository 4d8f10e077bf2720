------------------------------- MODULE Alerts -------------------------------
(***************************************************************************)
(* The alert engine: one rule of any kind, the facts it is evaluated over, *)
(* the engine's in-memory baselines and the alert rows.  One pass is two   *)
(* steps, because the fleet changes while it runs: EvalBegin reads the     *)
(* rule, the facts and the hosts, EvalApply fires and resolves.  A host    *)
(* reports one value in the domain of the rule's kind, or no facts at all; *)
(* time is counted in ticks and advances between passes.                   *)
(***************************************************************************)
EXTENDS Integers, FiniteSets

CONSTANTS AlertHosts,     \* the hosts that may be enrolled
          AlertKinds,     \* the kinds of rules that are created
          FailedTicks,    \* service_failed_minutes and offline_minutes, in ticks
          QuietTicks,     \* restartQuietWindow, in ticks
          RateLimit,      \* service_restart_rate_per_hour, per tick
          MaxTicks,       \* bound on time
          MaxAlertChanges \* bound on what operators, hosts and restarts change

ASSUME AlertsAssumption == /\ FailedTicks \in Nat /\ QuietTicks \in Nat
                           /\ RateLimit \in Nat \ {0} /\ MaxTicks \in Nat

VARIABLES rule,        \* the alert_rules row, or NoRule
          ruleKind,    \* the kind of the rule
          enrolled,    \* the agents rows
          facts,       \* the latest fact of each host in the kind's domain
          alertSeen,   \* agents.last_seen
          firing,      \* the alert rows in state firing: <<host, subject>>
          firstFailed, \* first time a unit was observed failed, or Never
          restartSamp, \* the restart baseline of each host's unit
          engineStart, \* when this engine was created
          alertNow,    \* the clock
          alertPass,   \* what a running pass has read, or NoPass
          sawHealthy,  \* last time a pass saw the unit of a host not failed
          alertChanges

alertVars == <<rule, ruleKind, enrolled, facts, alertSeen, firing, firstFailed,
               restartSamp, engineStart, alertNow, alertPass, sawHealthy, alertChanges>>

NoRule == [enabled |-> FALSE, sel |-> {}]
NoPass == [hosts |-> {}, facts |-> [h \in {} |-> "none"], hot |-> {}]
NoFacts == "none"
Never == -1
NoSample == [count |-> Never, at |-> 0, rate |-> 0]

-----------------------------------------------------------------------------
(* The facts documents: what each domain of a document can say.            *)

ServiceFacts == {"active", "failed"}

RestartFacts == {"unknown", "0", "1", "2"}

CertFacts == {"far", "near", "undated"}

ConfigFacts == {"valid", "invalid", "blocked", "oldError", "oldQuiet"}

HashFacts == {"", "a", "b"}

ElevationFacts == {"off", "legacy", "full", "stored", "unstored"}

SecurityFacts == {"clean", "low", "high"}

VersionFacts == {"", "old", "new"}

RunStatuses == {"running", "paused_failure", "failed"}

FactsOf(k) ==
  CASE k = "service_failed" -> ServiceFacts [] k = "service_restarting" -> RestartFacts
    [] k = "cert_expiring" -> CertFacts     [] k = "config_invalid" -> ConfigFacts
    [] k = "config_drift" -> HashFacts      [] k = "elevation_drift" -> ElevationFacts
    [] k = "security_updates" -> SecurityFacts [] k = "update_drift" -> VersionFacts
    [] k = "update_run" -> RunStatuses      [] k = "host_offline" -> {"up"}

Counter(f) == CASE f = "0" -> 0 [] f = "1" -> 1 [] f = "2" -> 2 [] OTHER -> Never

\* A document that is missing or lacks the domain parses to nothing.
ParseDocument(h) == IF h \in enrolled THEN facts[h] ELSE NoFacts

LatestHostFactsJSONAll == [h \in AlertHosts |-> ParseDocument(h)]

-----------------------------------------------------------------------------
(* The rows. *)

AlertsInit ==
  /\ rule = NoRule /\ ruleKind \in AlertKinds
  /\ enrolled = AlertHosts /\ facts = [h \in AlertHosts |-> NoFacts]
  /\ alertSeen = [h \in AlertHosts |-> 0]
  /\ firing = {} /\ alertPass = NoPass
  /\ firstFailed = [h \in AlertHosts |-> Never]
  /\ restartSamp = [h \in AlertHosts |-> NoSample]
  /\ engineStart = 0 /\ alertNow = 0 /\ alertChanges = 0
  /\ sawHealthy = [h \in AlertHosts |-> 0]

UpsertAlertFiring(keys) == firing \cup keys

ResolveAlerts(rows, keys) == rows \ keys

-----------------------------------------------------------------------------
(* The conditions, over the facts F a pass has read and the rule's hosts H.*)

\* Every document counts here, also of a host the rule does not select.
certConditionKeys(F) == { <<h, "cert">> : h \in { g \in AlertHosts : F[g] = "near" } }

\* An agent before 0.9.14 has no verdict of its own: its error text decides.
configInvalidFiring(f) == f \in {"invalid", "oldError"}

configConditionKeys(F) ==
  { <<h, "nginx">> : h \in { g \in AlertHosts : configInvalidFiring(F[g]) } }

\* The most frequent hash; "a" is the smaller one and wins a tie.
majorityHash(F, H) ==
  IF   Cardinality({ h \in H : F[h] = "b" }) > Cardinality({ h \in H : F[h] = "a" })
  THEN "b" ELSE "a"

driftHits(F, H) ==
  LET reported == { h \in H : F[h] \in {"a", "b"} }
  IN  IF   Cardinality({ F[h] : h \in reported }) <= 1 THEN {}
      ELSE { h \in reported : F[h] # majorityHash(F, reported) }

driftConditionKeys(F, H) == { <<h, F[h]>> : h \in driftHits(F, H) }

elevationDrifts(F, H) == { h \in H : F[h] = "unstored" }

securityQualifying(F, H) == { h \in H : F[h] = "high" }

securityConditionKeys(F, H) == { <<h, "sec">> : h \in securityQualifying(F, H) }

\* The baseline is the newest release; every host that is behind it drifts.
updateDrift(F) == { h \in AlertHosts : F[h] = "old" }

\* The runs in a status the rule alerts on; for this kind the members of
\* AlertHosts stand for the update runs and a fact for the status of its row.
evalUpdateRun(F) == { <<h, "run">> : h \in { g \in AlertHosts : F[g] \in {"paused_failure", "failed"} } }

(* A host last seen before this engine started was silent during an outage *)
(* of the server: it is unknown, not offline.                              *)
hostOfflineHits(H) ==
  { h \in H \cap enrolled : /\ alertSeen[h] >= engineStart
                            /\ alertSeen[h] < alertNow - FailedTicks }

(* The restart rate spans the time between two movements of the counter    *)
(* and is held until the unit has been quiet; a rate is 0 or at least the  *)
(* limit.  Two movements at the same instant are left for a later pass.    *)
Sample(s, n) ==
  LET elapsed == alertNow - s.at
      delta == IF n >= s.count THEN n - s.count ELSE n
  IN  IF   n = Never THEN NoSample
      ELSE IF s = NoSample THEN [count |-> n, at |-> alertNow, rate |-> 0]
      ELSE IF n = s.count /\ s.rate > 0 /\ elapsed < QuietTicks THEN s
      ELSE IF n = s.count THEN IF s.rate > 0 THEN [s EXCEPT !.at = alertNow, !.rate = 0] ELSE s
      ELSE IF elapsed = 0 THEN s
      ELSE [count |-> n, at |-> alertNow, rate |-> IF delta >= RateLimit * elapsed THEN 1 ELSE 0]

\* Bug: the window is the tick, so every pass without a movement reads rate 0.
SampleEveryTick(s, n) ==
  IF n = Never THEN NoSample
  ELSE [count |-> n, at |-> alertNow,
        rate |-> IF s # NoSample /\ n > s.count THEN 1 ELSE 0]

sampleRestartRatesEveryTick(F) ==
  [h \in AlertHosts |-> SampleEveryTick(restartSamp[h], Counter(F[h]))]

sampleRestartRates(F) == [h \in AlertHosts |-> Sample(restartSamp[h], Counter(F[h]))]

\* A pass that found the counter moved too soon reports no rate at all.
hotHosts(F) ==
  { h \in AlertHosts : /\ sampleRestartRates(F)[h].rate > 0
                       /\ Counter(F[h]) = sampleRestartRates(F)[h].count }

hotRestartKeys(H, hot) == { <<h, "unit">> : h \in H \cap hot }

-----------------------------------------------------------------------------
(* One pass.                                                               *)

\* The server-level kinds have no host scope.
ServerLevel == ruleKind \in {"update_run", "update_drift"}

resolveHosts == IF ServerLevel THEN enrolled ELSE rule.sel \cap enrolled

\* A selector that matches nothing skips the rule: nothing resolves either.
EvalBegin ==
  LET F == LatestHostFactsJSONAll
  IN  /\ alertPass = NoPass /\ rule.enabled
      /\ restartSamp' = IF ruleKind = "service_restarting" THEN sampleRestartRates(F) ELSE restartSamp
      /\ resolveHosts # {}
      /\ alertPass' = [hosts |-> resolveHosts, facts |-> F,
                  hot |-> IF ruleKind = "service_restarting" THEN hotHosts(F) ELSE {}]
      /\ UNCHANGED <<rule, ruleKind, enrolled, facts, alertSeen, firing, firstFailed,
                     engineStart, alertNow, sawHealthy, alertChanges>>

\* The rates are sampled on every pass, for whatever rules there are.
EvalSamplesOnly ==
  /\ alertPass = NoPass /\ ruleKind = "service_restarting"
  /\ ~ rule.enabled \/ resolveHosts = {}
  /\ restartSamp' = sampleRestartRates(LatestHostFactsJSONAll)
  /\ UNCHANGED <<rule, ruleKind, enrolled, facts, alertSeen, firing, firstFailed,
                 engineStart, alertNow, alertPass, sawHealthy, alertChanges>>

markFirstFailed(h) == IF firstFailed[h] = Never THEN alertNow ELSE firstFailed[h]

clearFirstFailed(h) == Never

FirstFailedAfter ==
  [h \in AlertHosts |->
     IF h \in alertPass.hosts /\ alertPass.facts[h] = "failed" THEN markFirstFailed(h)
     ELSE IF h \in alertPass.hosts /\ alertPass.facts[h] = "active" THEN clearFirstFailed(h)
     ELSE firstFailed[h]]

evalServiceFailed ==
  { <<h, "unit">> : h \in { g \in alertPass.hosts : /\ alertPass.facts[g] = "failed"
                                               /\ alertNow - markFirstFailed(g) >= FailedTicks } }

\* A host the rule no longer selects, or one without facts, keeps its alert.
resolveServiceFailed(rows) ==
  { a \in rows : a[1] \in alertPass.hosts /\ alertPass.facts[a[1]] = "active" }

ConditionKeys ==
  CASE ruleKind = "service_restarting" -> hotRestartKeys(alertPass.hosts, alertPass.hot)
    [] ruleKind = "cert_expiring" -> certConditionKeys(alertPass.facts)
    [] ruleKind = "config_invalid" -> configConditionKeys(alertPass.facts)
    [] ruleKind = "config_drift" -> driftConditionKeys(alertPass.facts, alertPass.hosts)
    [] ruleKind = "elevation_drift" -> { <<h, "elevdrift">> : h \in elevationDrifts(alertPass.facts, alertPass.hosts) }
    [] ruleKind = "security_updates" -> securityConditionKeys(alertPass.facts, alertPass.hosts)
    [] ruleKind = "host_offline" -> { <<h, "offline">> : h \in hostOfflineHits(alertPass.hosts) }
    [] ruleKind = "update_run" -> evalUpdateRun(alertPass.facts)
    [] ruleKind = "update_drift" -> IF updateDrift(alertPass.facts) = {} THEN {} ELSE {<<"server", "drift">>}
    [] OTHER -> evalServiceFailed

resolveByDedupDiff(rows, current) == { a \in rows : a[1] \notin alertPass.hosts \/ a \notin current }

resolveServerLevel(rows, current) == rows \ current

Stale(rows) == IF ruleKind = "service_failed" THEN resolveServiceFailed(rows)
               ELSE IF ServerLevel THEN resolveServerLevel(rows, ConditionKeys)
               ELSE resolveByDedupDiff(rows, ConditionKeys)

\* Only the hosts the rule selects fire.
FireKeys == IF ServerLevel THEN ConditionKeys ELSE { a \in ConditionKeys : a[1] \in alertPass.hosts }

EvalApply ==
  /\ alertPass # NoPass
  /\ LET rows == UpsertAlertFiring(FireKeys)
     IN  firing' = ResolveAlerts(rows, Stale(rows))
  /\ firstFailed' = IF ruleKind = "service_failed" THEN FirstFailedAfter ELSE firstFailed
  /\ sawHealthy' = [h \in AlertHosts |->
                      IF h \in alertPass.hosts /\ alertPass.facts[h] = "active" THEN alertNow ELSE sawHealthy[h]]
  /\ alertPass' = NoPass
  /\ UNCHANGED <<rule, ruleKind, enrolled, facts, alertSeen, restartSamp, engineStart,
                 alertNow, alertChanges>>

-----------------------------------------------------------------------------
(* The operators. *)

Change == alertChanges < MaxAlertChanges /\ alertChanges' = alertChanges + 1

ruleCreate(sel) ==
  /\ rule = NoRule /\ Change /\ rule' = [enabled |-> TRUE, sel |-> sel]
  /\ UNCHANGED <<ruleKind, enrolled, facts, alertSeen, firing, firstFailed, restartSamp,
                 engineStart, alertNow, alertPass, sawHealthy>>

\* A body without a selector or without "enabled" keeps the stored one.
ruleUpdate(sel, enabled) ==
  /\ rule # NoRule /\ Change /\ rule' = [enabled |-> enabled, sel |-> sel]
  /\ UNCHANGED <<ruleKind, enrolled, facts, alertSeen, firing, firstFailed, restartSamp,
                 engineStart, alertNow, alertPass, sawHealthy>>

\* The rows of a deleted rule stay as they are.
ruleDelete ==
  /\ rule # NoRule /\ Change /\ rule' = NoRule
  /\ UNCHANGED <<ruleKind, enrolled, facts, alertSeen, firing, firstFailed, restartSamp,
                 engineStart, alertNow, alertPass, sawHealthy>>

DeleteAgent(h) ==
  /\ h \in enrolled /\ Change /\ enrolled' = enrolled \ {h}
  /\ firing' = { a \in firing : a[1] # h }
  /\ facts' = [facts EXCEPT ![h] = NoFacts]
  /\ UNCHANGED <<rule, ruleKind, alertSeen, firstFailed, restartSamp, engineStart, alertNow,
                 alertPass, sawHealthy>>

-----------------------------------------------------------------------------
(* The hosts and time. *)

UpsertHostFactsJSON(h, f) ==
  /\ h \in enrolled /\ f # facts[h] /\ Change
  /\ facts' = [facts EXCEPT ![h] = f]
  /\ UNCHANGED <<rule, ruleKind, enrolled, alertSeen, firing, firstFailed, restartSamp,
                 engineStart, alertNow, alertPass, sawHealthy>>

MarkSeen(h) ==
  /\ ruleKind = "host_offline"  \* no other kind reads last_seen
  /\ h \in enrolled /\ alertSeen[h] < alertNow
  /\ alertSeen' = [alertSeen EXCEPT ![h] = alertNow]
  /\ UNCHANGED <<rule, ruleKind, enrolled, facts, firing, firstFailed, restartSamp,
                 engineStart, alertNow, alertPass, sawHealthy, alertChanges>>

TickAlerts ==
  /\ alertNow < MaxTicks /\ alertNow' = alertNow + 1
  /\ UNCHANGED <<rule, ruleKind, enrolled, facts, alertSeen, firing, firstFailed, restartSamp,
                 engineStart, alertPass, sawHealthy, alertChanges>>

\* A new process: the maps are empty, the engine starts now.
NewEngine ==
  /\ Change /\ alertPass' = NoPass /\ engineStart' = alertNow
  /\ firstFailed' = [h \in AlertHosts |-> Never]
  /\ restartSamp' = [h \in AlertHosts |-> NoSample]
  /\ UNCHANGED <<rule, ruleKind, enrolled, facts, alertSeen, firing, alertNow, sawHealthy>>

AlertsNext ==
  \/ EvalBegin \/ EvalSamplesOnly \/ EvalApply
  \/ \E sel \in SUBSET AlertHosts : ruleCreate(sel)
  \/ \E sel \in SUBSET AlertHosts, enabled \in BOOLEAN : ruleUpdate(sel, enabled)
  \/ ruleDelete
  \/ \E h \in AlertHosts : DeleteAgent(h)
  \/ \E h \in AlertHosts : \E f \in FactsOf(ruleKind) : UpsertHostFactsJSON(h, f)
  \/ \E h \in AlertHosts : MarkSeen(h)
  \/ TickAlerts \/ NewEngine

AlertsSpec == AlertsInit /\ [][AlertsNext]_alertVars

-----------------------------------------------------------------------------
(* Properties. *)

AlertsTypeOK ==
  /\ rule \in [enabled : BOOLEAN, sel : SUBSET AlertHosts] /\ enrolled \subseteq AlertHosts
  /\ firing \subseteq (AlertHosts \cup {"server"}) \X
        {"unit", "cert", "nginx", "a", "b", "elevdrift", "sec", "offline", "run", "drift"}
  /\ \A h \in AlertHosts : /\ firstFailed[h] \in Never..alertNow
                           /\ restartSamp[h].at <= alertNow

(* A new service_failed alert is never about a unit some pass saw healthy  *)
(* within the delay window: the mark of the first failure belongs to the   *)
(* failure the alert reports (markFirstFailed, clearFirstFailed).          *)
FiresAfterWindow ==
  [][ \A h \in AlertHosts :
        (/\ ruleKind = "service_failed"
         /\ <<h, "unit">> \in firing' \ firing /\ firstFailed[h] # Never)
        => alertNow - sawHealthy[h] >= FailedTicks ]_alertVars

(* A restart alert is not taken back while its unit may still be looping:  *)
(* on a host that is selected and reports its counter, the alert resolves  *)
(* only when the counter moved or stood still for the quiet window         *)
(* (sampleRestartRates holds the rate between two uploads of the facts).   *)
HeldWhileLooping ==
  [][ \A h \in AlertHosts :
        (/\ ruleKind = "service_restarting" /\ EvalBegin
         /\ <<h, "unit">> \in firing /\ h \in alertPass'.hosts /\ h \notin alertPass'.hot
         /\ restartSamp[h] # NoSample /\ restartSamp[h].rate > 0
         /\ Counter(facts[h]) = restartSamp[h].count)
        => alertNow - restartSamp[h].at >= QuietTicks ]_alertVars

(* A pass over a fleet that did not change meanwhile leaves no alert of a  *)
(* host outside the rule's selection, for every kind but service_failed    *)
(* (resolveByDedupDiff: "the rule should not be firing for it").           *)
OnlySelectedFire ==
  [][ (EvalApply /\ ruleKind # "service_failed" /\ ~ ServerLevel)
        => \A a \in firing' : a[1] \in alertPass.hosts ]_alertVars

(* What a pass of the engine may fire and resolve: the three parts above.  *)
AlertsFollowTheRule == []AlertsTypeOK /\ FiresAfterWindow /\ HeldWhileLooping /\ OnlySelectedFire

(* "missing facts fail soft (they neither fire nor resolve)", says         *)
(* docs/operations.md of every kind.  A counter the agent could not read   *)
(* and a certificate without a date are such facts, and they resolve.      *)
MissingFactsKeepAlerts ==
  [][ \A a \in firing :
        (/\ EvalApply /\ a[1] \in alertPass.hosts
         /\ alertPass.facts[a[1]] \in {NoFacts, "unknown", "undated"}) => a \in firing' ]_alertVars

(* A deleted host leaves no firing alert behind once the engine is between *)
(* two passes (DeleteAgent resolves them so that none is "orphaned         *)
(* forever").                                                              *)
NoOrphanedAlerts ==
  alertPass = NoPass => \A a \in firing : a[1] \in enrolled \cup {"server"}
=============================================================================
