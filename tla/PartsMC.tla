------------------------------ MODULE PartsMC ------------------------------
(***************************************************************************)
(* The components that stand alone, side by side in one instance for TLC:  *)
(* a behaviour is one of a single part, chosen at the start, while the     *)
(* variables of the others keep their initial values.  The state spaces    *)
(* add up, they are not multiplied.                                        *)
(***************************************************************************)
EXTENDS Spool, Policy, PolicySync, JobScheduler, WhenGuard, TaskSteps, FilePaths

-----------------------------------------------------------------------------
(* The rules an administrator may have created, for Policy. *)

Lines == {"", "reboot", "/etc/hosts"}

PoolRule(hosts, actions, roles, lines, eol, effect) ==
  [hosts |-> hosts, actions |-> actions, roles |-> roles, lines |-> lines,
   eol |-> eol, effect |-> effect]

Pool ==
  { PoolRule({}, {"exec"}, {}, {"reboot"}, "", "require_approval"),
    PoolRule({}, {"pkg.apply"}, {}, Lines, "ended", "require_approval"),
    PoolRule({"tag"}, {}, {}, Lines, "ended", "deny"),
    PoolRule({}, {"file"}, {"operator"}, {"/etc/hosts"}, "", "deny"),
    PoolRule({}, {"exec"}, {}, {"reboot"}, "", "deny"),
    PoolRule({"role"}, {"task.run", "file.write"}, {}, Lines, "", "require_approval"),
    PoolRule({}, {}, {"admin"}, Lines, "", "allow"),
    PoolRule({"group"}, {}, {}, Lines, "", "deny") }

\* Every overlap policy, with and without retries, for JobScheduler.
PoolAssignments ==
  { [overlap |-> "allow", failure |-> "retry"], [overlap |-> "skip", failure |-> "no_retry"],
    [overlap |-> "replace", failure |-> "retry"] }

-----------------------------------------------------------------------------
VARIABLE part

partsVars == <<part, spoolVars, gate, syncVars, jobVars, whenToks, stepVars, pathVars>>

\* One initial state of the parts that do not run and may start in several.
Frozen ==
  /\ part = "steps" \/ osHost = [distro |-> "ubuntu", pkg |-> "absent", svc |-> FALSE, user |-> FALSE,
                                 group |-> FALSE, file |-> "empty"]
  /\ part = "steps" \/ cached = FALSE
  /\ part = "paths" \/ rootIs = "none"
  /\ part = "paths" \/ tree = [p \in Nodes |-> "none"]
  /\ part = "paths" \/ request = <<>>

PartsInit ==
  /\ part \in {"spool", "policy", "sync", "jobs", "when", "steps", "paths"}
  /\ Frozen
  /\ SpoolInit /\ PolicyInit /\ SyncInit /\ JobInit /\ WhenInit /\ StepInit /\ PathsInit

\* The parts that do not run keep their state.
Only(p) ==
  /\ part = p /\ part' = part
  /\ p # "spool" => UNCHANGED spoolVars
  /\ p # "policy" => UNCHANGED gate
  /\ p # "sync" => UNCHANGED syncVars
  /\ p # "jobs" => UNCHANGED jobVars
  /\ p # "when" => UNCHANGED whenToks
  /\ p # "steps" => UNCHANGED stepVars
  /\ p # "paths" => UNCHANGED pathVars

PartsNext ==
  \/ Only("spool") /\ SpoolNext
  \/ Only("policy") /\ PolicyNext
  \/ Only("sync") /\ SyncNext
  \/ Only("jobs") /\ JobNext
  \/ Only("when") /\ WhenNext
  \/ Only("steps") /\ StepNext
  \/ Only("paths") /\ PathsNext

PartsSpec == PartsInit /\ [][PartsNext]_partsVars
=============================================================================
