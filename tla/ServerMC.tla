------------------------------ MODULE ServerMC ------------------------------
(***************************************************************************)
(* The controllers of the server whose properties are about what never     *)
(* happens, with the releases they serve and the update command that       *)
(* drives them, side by side in one instance for TLC: a behaviour is one   *)
(* of a single part, chosen at the start, while the variables of the       *)
(* others keep their initial values.                                       *)
(***************************************************************************)
EXTENDS Rollouts, Alerts, Secrets, Install, Releases, UpdateCommand

VARIABLE part

allVars == <<part, rolloutVars, alertVars, secretsVars, installVars, releaseVars,
             updateCommandVars>>

\* One initial state of the parts that do not run and may start in several.
Frozen ==
  /\ part = "alerts" \/ ruleKind = (CHOOSE k \in AlertKinds : TRUE)
  /\ part = "releases" \/ conf = [unsigned |-> FALSE, verifyKey |-> FALSE, agentKey |-> FALSE]

ServerInit ==
  /\ part \in {"rollouts", "alerts", "secrets", "install", "releases", "command"}
  /\ RolloutInit /\ AlertsInit /\ SecretsInit /\ InstallInit /\ ReleaseInit
  /\ UpdateCommandInit
  /\ Frozen

\* The parts that do not run keep their state.
Only(p) ==
  /\ part = p /\ part' = part
  /\ p # "rollouts" => UNCHANGED rolloutVars
  /\ p # "alerts" => UNCHANGED alertVars
  /\ p # "secrets" => UNCHANGED secretsVars
  /\ p # "install" => UNCHANGED installVars
  /\ p # "releases" => UNCHANGED releaseVars
  /\ p # "command" => UNCHANGED updateCommandVars

ServerNext ==
  \/ Only("rollouts") /\ RolloutNext
  \/ Only("alerts") /\ AlertsNext
  \/ Only("secrets") /\ SecretsNext
  \/ Only("install") /\ InstallNext
  \/ Only("releases") /\ ReleaseNext
  \/ Only("command") /\ UpdateCommandNext

ServerSpec == ServerInit /\ [][ServerNext]_allVars
=============================================================================
