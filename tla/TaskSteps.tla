------------------------------ MODULE TaskSteps ------------------------------
(***************************************************************************)
(* The step executor of the agent: what each kind of step does to the host *)
(* and which state it reports.  Every kind but command first looks whether *)
(* the host is as wanted already.  A privileged command may be refused or  *)
(* fail: the host keeps its state then.                                    *)
(***************************************************************************)
EXTENDS Integers

CONSTANTS MaxSteps   \* bound on the steps run

ASSUME StepAssumption == MaxSteps \in Nat

Distros == {"ubuntu", "rocky", "other"}
Contents == {"empty", "x", "y"}

VARIABLES osHost,    \* package, service, user, group and file of the host
          cached,    \* is the secret the steps refer to in the agent's cache
          lastStep,  \* the step run last, its result, and the host before it
          stepCount

stepVars == <<osHost, cached, lastStep, stepCount>>

(* The steps a task may contain. A "ref" step has secret:NAME among its    *)
(* values; a package step leaves the state empty for latest.  "empty" is   *)
(* the empty string.                                                       *)
StepDef(kind, want, ref) == [kind |-> kind, want |-> want, ref |-> ref]

StepPool ==
  { StepDef("package", w, FALSE) : w \in {"present", "latest", "absent", "odd"} }
  \cup { StepDef("service", w, FALSE) : w \in {"started", "stopped", "odd"} }
  \cup { StepDef("file", w, r) : w \in Contents, r \in BOOLEAN }
  \cup { StepDef("template", w, r) : w \in {"x", "y", "broken"}, r \in BOOLEAN }
  \cup { StepDef("assert", w, FALSE) : w \in {"pass", "false", "error"} }
  \cup { StepDef(k, "empty", FALSE) : k \in {"user", "group", "upgrade", "reboot", "odd"} }
  \cup { StepDef("command", "empty", r) : r \in BOOLEAN }

NoStep == [step |-> StepDef("none", "empty", FALSE), res |-> "none", before |-> {}]

StepInit ==
  /\ osHost \in [distro : Distros, pkg : {"absent", "old"}, svc : {FALSE}, user : {FALSE},
                 group : {FALSE}, file : {"empty", "x"}]
  /\ cached \in BOOLEAN /\ lastStep = NoStep /\ stepCount = 0

-----------------------------------------------------------------------------
(* What a step can do: the set of results and hosts, in the order of the   *)
(* executor's methods.                                                     *)

Same(res) == { [res |-> res, host |-> osHost] }
Becomes(h) == { [res |-> "changed", host |-> h] } \cup Same("failed")

doCommand == Same("ok") \cup Same("failed")

WriteIfDifferent(content) ==
  IF osHost.file = content THEN Same("ok") ELSE Becomes([osHost EXCEPT !.file = content])

(* An empty content changes nothing; a path outside the file root fails.   *)
doFile(step) ==
  Same("failed") \cup (IF step.want = "empty" THEN Same("ok") ELSE WriteIfDifferent(step.want))

doTemplate(step) ==
  IF step.want = "broken" THEN Same("failed")
  ELSE Same("failed") \cup WriteIfDifferent(step.want)

Installed == osHost.pkg # "absent"

\* apt and dnf take the same decisions.
doApt(want) ==
  CASE want \in {"present", "latest"} ->
         IF Installed THEN Same("ok") ELSE Becomes([osHost EXCEPT !.pkg = "new"])
    [] want = "absent" ->
         IF Installed THEN Becomes([osHost EXCEPT !.pkg = "absent"]) ELSE Same("ok")
    [] OTHER -> Same("failed")

doDnf(want) == doApt(want)

doPackage(step) ==
  CASE osHost.distro = "ubuntu" -> doApt(step.want)
    [] osHost.distro = "rocky" -> doDnf(step.want)
    [] OTHER -> Same("failed")

(* Every installed package is brought up to date; the package manager says *)
(* so when there was nothing to do.                                        *)
isNoOpUpgrade == osHost.pkg # "old"

doUpgrade ==
  IF osHost.distro = "other" THEN Same("failed")
  ELSE Same("failed") \cup
       (IF isNoOpUpgrade THEN Same("ok") ELSE Becomes([osHost EXCEPT !.pkg = "new"]))

doService(step) ==
  CASE step.want = "started" ->
         IF osHost.svc THEN Same("ok") ELSE Becomes([osHost EXCEPT !.svc = TRUE])
    [] step.want = "stopped" ->
         IF osHost.svc THEN Becomes([osHost EXCEPT !.svc = FALSE]) ELSE Same("ok")
    [] OTHER -> Same("failed")

doUser == IF osHost.user THEN Same("ok") ELSE Becomes([osHost EXCEPT !.user = TRUE])
doGroup == IF osHost.group THEN Same("ok") ELSE Becomes([osHost EXCEPT !.group = TRUE])

doAssert(step) == IF step.want = "pass" THEN Same("ok") ELSE Same("failed")

\* A reboot step, or an unknown kind, never gets past the executor.
doStep(step) ==
  CASE step.kind = "command" -> doCommand
    [] step.kind = "file" -> doFile(step)
    [] step.kind = "package" -> doPackage(step)
    [] step.kind = "upgrade" -> doUpgrade
    [] step.kind = "service" -> doService(step)
    [] step.kind = "user" -> doUser
    [] step.kind = "group" -> doGroup
    [] step.kind = "template" -> doTemplate(step)
    [] step.kind = "assert" -> doAssert(step)
    [] OTHER -> Same("failed")

\* Bug: a step runs with the bare reference when the secret is not there.
renderSecretsKeepsRef(step) == TRUE

\* Are the secrets the step refers to available.
renderSecrets(step) == step.ref => cached

(* The guard may be false or an error before anything else happens. *)
ExecStep(step) ==
  Same("skipped") \cup Same("failed")
  \cup (IF renderSecrets(step) THEN doStep(step) ELSE Same("failed"))

RunTaskStep ==
  /\ stepCount < MaxSteps /\ stepCount' = stepCount + 1
  /\ \E step \in StepPool : \E out \in ExecStep(step) :
       /\ osHost' = out.host
       /\ lastStep' = [step |-> step, res |-> out.res, before |-> {osHost}]
  /\ UNCHANGED cached

(* The server materializes the secret, or its lifetime in the cache ends.  *)
SecretCached == cached' = ~cached /\ UNCHANGED <<osHost, lastStep, stepCount>>

StepNext == RunTaskStep \/ SecretCached

StepSpec == StepInit /\ [][StepNext]_stepVars

-----------------------------------------------------------------------------
(* The desired state a step promises once it reports ok or changed. *)
Wanted(step) ==
  CASE step.kind = "package" -> (step.want = "absent") <=> (osHost.pkg = "absent")
    [] step.kind = "service" -> (step.want = "started") <=> osHost.svc
    [] step.kind \in {"file", "template"} -> step.want \in {"empty", osHost.file}
    [] step.kind = "user" -> osHost.user
    [] step.kind = "group" -> osHost.group
    [] step.kind = "upgrade" -> osHost.pkg # "old"
    [] OTHER -> TRUE

(* A step that reports ok or changed leaves the host as it was asked to,   *)
(* whatever was there before.                                              *)
StepConverges == lastStep.res \in {"ok", "changed"} => Wanted(lastStep.step)

(* The reported state is what happened: the host differs from before if    *)
(* and only if the step says changed.                                      *)
ChangedIsReported == (lastStep.res = "changed") <=> (lastStep.before \notin {{}, {osHost}})

(* A step whose secret is not available does nothing to the host.          *)
BareRefNeverRuns ==
  [][ (lastStep' # lastStep /\ lastStep'.step.ref /\ ~cached)
        => (osHost' = osHost /\ lastStep'.res \in {"failed", "skipped"}) ]_stepVars

(* What the result of a step says of the host is true: the three parts     *)
(* above, over every sequence of steps and distribution (executor.go).     *)
StepResultIsTrue == [](StepConverges /\ ChangedIsReported) /\ BareRefNeverRuns

(* What the requirements say of a package step: "Ensure package            *)
(* present|absent|latest via native package manager".                      *)
LatestIsLatest ==
  (lastStep.step.kind = "package" /\ lastStep.step.want = "latest"
     /\ lastStep.res \in {"ok", "changed"}) => osHost.pkg = "new"
=============================================================================
