------------------------------ MODULE Install ------------------------------
(***************************************************************************)
(* What the root scripts do on a host: the install that SSH provisioning   *)
(* pipes, the one-line join, which fetches its binary and then runs the    *)
(* same body, and the elevation bootstrap of an enrolled host.  A script   *)
(* is the sequence of its lines that can fail or change the host; set -eu  *)
(* ends it at the first that fails.  Files hold content tokens: a binary   *)
(* its release, the server's own "own", a policy its name, and "bad" is a  *)
(* spoiled transfer.                                                       *)
(***************************************************************************)
EXTENDS Integers, Sequences

CONSTANTS MaxScripts,   \* bound on the scripts that are run
          Binaries,     \* the agent releases an operator may upload
          InstPolicies  \* elevation policies an operator may store

ASSUME InstallAssumption == MaxScripts \in Nat /\ {"none", "bad", "own"} \cap (Binaries \cup InstPolicies) = {}

VARIABLES newest,    \* the newest agent release, or "own" while there is none
          policies,   \* elevation policies in the store
          joinToken,  \* the enrollment token of the join line: "valid" or "used"
          elevToken,  \* the elevation bootstrap token: "none", "used" or the policy it was minted for
          files,      \* /etc/partout, the unit and the binaries of the host
          staged,     \* /tmp/partout-*
          spec,       \* what the script was rendered for
          script,     \* the lines still to run
          outcome,    \* of the last script: "none", "running", "aborted" or "ok"
          intact,     \* nothing has gone wrong on the way of this script
          scripts

installVars == <<newest, policies, joinToken, elevToken, files, staged, spec, script, outcome,
                 intact, scripts>>
serverVars == <<newest, policies, joinToken, elevToken>>

None == "none"
NoSpec == [path |-> None, mode |-> None, bin |-> None, tls |-> FALSE, policy |-> None, caFile |-> None]
FileNames == {"etc", "bin", "guard", "ca", "policy", "sudoers", "envTls", "envElevate", "env", "unit", "pub"}

InstallInit ==
  /\ newest = "own" /\ policies = InstPolicies /\ joinToken = "valid" /\ elevToken = None
  /\ files = [f \in FileNames |-> None] /\ staged = [f \in {"bin", "ca", "noSha", "policy", "guard"} |-> None]
  /\ spec = NoSpec /\ script = <<>> /\ outcome = None /\ intact = TRUE /\ scripts = 0

-----------------------------------------------------------------------------
(* Rendering. *)

wipeScript(mode) == IF mode = "fresh" THEN <<"wipe">> ELSE <<>>

elevationScript(policy) == IF policy = None THEN <<>> ELSE <<"policyGate", "sudoers">>

caBlock(tls) == IF tls THEN <<"caGate">> ELSE <<>>

\* Bug: agent.env is written before what it names is in place.
buildInstallScriptEnvFirst(mode, tls, policy) ==
  <<"binGate">> \o wipeScript(mode) \o <<"binary", "guard", "etc", "env">> \o caBlock(tls)
    \o elevationScript(policy) \o <<"unit", "restart", "ok">>

buildInstallScript(mode, tls, policy) ==
  <<"binGate">> \o wipeScript(mode) \o <<"binary", "guard", "etc">> \o caBlock(tls)
    \o elevationScript(policy) \o <<"env", "unit", "restart", "ok">>

\* SSH provisioning copies every file; the join line stages all but the binary
\* inline and pins the server's policy key before the body runs.
stepTransferLines(tls, policy) ==
  <<"copyBin">> \o (IF tls THEN <<"copyCA">> ELSE <<>>) \o <<"copyGuard">>
    \o (IF policy = None THEN <<>> ELSE <<"copyPolicy">>)

BuildJoinScript(tls, policy) ==
  <<"fetchBin">> \o (IF tls THEN <<"stageCA">> ELSE <<>>)
    \o (IF policy = None THEN <<>> ELSE <<"stagePolicy">>) \o <<"stageGuard", "pub">>
    \o buildInstallScript("join", tls, policy)

BuildElevationBootstrapScript == <<"hostGuard", "hasBinary", "policyFile", "sudoers", "elevateEnv", "restart", "pub", "ok">>

\* The env line of the CA, and the elevation lines of agentEnvExtras.
agentEnvExtras == [files EXCEPT !["env"] = "yes", !["envTls"] = IF spec.tls THEN "yes" ELSE None,
                                !["envElevate"] = spec.policy]

Launch(s, lines) ==
  /\ outcome # "running" /\ scripts < MaxScripts /\ scripts' = scripts + 1
  /\ spec' = s /\ script' = lines /\ outcome' = "running" /\ intact' = TRUE
  /\ UNCHANGED <<files, staged>>

resolveAgentBinary == newest

resolveJoinPolicy(p) == p = None \/ p \in policies

SshInstall(mode, tls, p) ==
  /\ p \in policies \cup {None}
  /\ Launch([path |-> "ssh", mode |-> mode, bin |-> "own", tls |-> tls, policy |-> p, caFile |-> "ca"],
            stepTransferLines(tls, p) \o buildInstallScript(mode, tls, p))
  /\ UNCHANGED serverVars

validateJoinToken == joinToken = "valid"

\* The loader asks again with the host's arch and runs what it gets.
BuildJoinLoader(tls, p) ==
  Launch([path |-> "join", mode |-> "join", bin |-> resolveAgentBinary, tls |-> tls, policy |-> p, caFile |-> "noSha"],
         BuildJoinScript(tls, p))

handleJoinScript(tls, p) ==
  /\ validateJoinToken /\ resolveJoinPolicy(p) /\ BuildJoinLoader(tls, p)
  /\ UNCHANGED serverVars

\* The token of the line expires or enrolls another host; a new one is made.
JoinTokenChanges == joinToken' = (IF joinToken = "used" THEN "valid" ELSE "used")
                    /\ UNCHANGED <<newest, policies, elevToken, files, staged, spec, script, outcome, intact, scripts>>

-----------------------------------------------------------------------------
(* The elevation bootstrap token: minted for one host, served once. *)

CreateElevationToken(p) == elevToken' = p
ConsumeElevationToken == elevToken \notin {None, "used"} /\ elevToken' = "used"

handleElevationBootstrapMint(p) ==
  /\ scripts < MaxScripts /\ elevToken \in {None, "used"} /\ p # None /\ resolveJoinPolicy(p)
  /\ CreateElevationToken(p)
  /\ UNCHANGED <<newest, policies, joinToken, files, staged, spec, script, outcome, intact, scripts>>

\* The policy is resolved again; a deleted one burns the token.
handleElevateScript ==
  /\ ConsumeElevationToken
  /\ IF resolveJoinPolicy(elevToken)
     THEN Launch([NoSpec EXCEPT !.path = "elev", !.policy = elevToken, !.tls = (files["envTls"] = "yes")], BuildElevationBootstrapScript)
     ELSE UNCHANGED <<spec, script, outcome, intact, files, staged, scripts>>
  /\ UNCHANGED <<newest, policies, joinToken>>

UploadRelease == newest' \in Binaries \ {newest}
                 /\ intact' = FALSE
                 /\ UNCHANGED <<policies, joinToken, elevToken, files, staged, spec, script, outcome, scripts>>

DeleteElevationPolicy(p) == p \in policies /\ policies' = policies \ {p}
                   /\ UNCHANGED <<newest, joinToken, elevToken, files, staged, spec, script, outcome, intact, scripts>>

-----------------------------------------------------------------------------
(* The lines. *)

Line(l) == outcome = "running" /\ script # <<>> /\ Head(script) = l /\ UNCHANGED <<spec, scripts>>
Goes == script' = Tail(script) /\ UNCHANGED outcome
Aborts == script' = <<>> /\ outcome' = "aborted"
Passes(ok) == IF ok THEN Goes ELSE Aborts

Stage(f, content) == staged' = [staged EXCEPT ![f] = content]
Put(f, content) == files' = [files EXCEPT ![f] = content]

\* A copy or a download: what was sent, something spoiled, or nothing at all.
Transfer(l, f, content) ==
  /\ Line(l)
  /\ \/ Stage(f, content) /\ Goes /\ UNCHANGED intact
     \/ Stage(f, "bad") /\ Goes /\ intact' = FALSE
     \/ UNCHANGED staged /\ Aborts /\ intact' = FALSE
  /\ UNCHANGED <<serverVars, files>>

copyBin == Transfer("copyBin", "bin", spec.bin)
copyCA == Transfer("copyCA", "ca", "ca")
copyGuard == Transfer("copyGuard", "guard", "guard")
copyPolicy == Transfer("copyPolicy", "policy", spec.policy)

\* The server resolves the binary again, and only for a token still unused.
handleJoinBinary ==
  \/ validateJoinToken /\ Transfer("fetchBin", "bin", resolveAgentBinary)
  \/ /\ ~ validateJoinToken /\ Line("fetchBin") /\ Aborts /\ intact' = FALSE
     /\ UNCHANGED <<serverVars, files, staged>>

\* Inline base64 cannot be spoiled.
InlineStage(l, f, content) ==
  /\ Line(l) /\ Stage(f, content) /\ Goes /\ UNCHANGED <<serverVars, files, intact>>

stageFiles ==
  \/ InlineStage("stageGuard", "guard", "guard") \/ InlineStage("stageCA", "ca", "ca")
  \/ InlineStage("stagePolicy", "policy", spec.policy)

binGate ==
  /\ Line("binGate") /\ Passes(staged["bin"] = spec.bin)
  /\ UNCHANGED <<serverVars, files, staged, intact>>

wipe ==
  /\ Line("wipe") /\ Goes
  /\ files' = [files EXCEPT !["env"] = None, !["envTls"] = None, !["envElevate"] = None]
  /\ UNCHANGED <<serverVars, staged, intact>>

placeFiles ==
  /\ \/ Line("binary") /\ Put("bin", staged["bin"])
     \/ Line("guard") /\ Put("guard", staged["guard"])
     \/ Line("etc") /\ Put("etc", "dir")
     \/ Line("unit") /\ Put("unit", "unit")
     \/ Line("env") /\ files' = agentEnvExtras
  /\ Goes /\ UNCHANGED <<serverVars, staged, intact>>

\* The staged CA is looked up under the name of the spec.
caGate ==
  /\ Line("caGate") /\ Passes(staged[spec.caFile] = "ca")
  /\ IF staged[spec.caFile] = "ca" THEN Put("ca", "ca") ELSE UNCHANGED files
  /\ UNCHANGED <<serverVars, staged, intact>>

policyGate ==
  /\ Line("policyGate") /\ Passes(staged["policy"] = spec.policy)
  /\ IF staged["policy"] = spec.policy THEN Put("policy", spec.policy) ELSE UNCHANGED files
  /\ UNCHANGED <<serverVars, staged, intact>>

policyFile ==
  /\ Line("policyFile") /\ Put("policy", spec.policy) /\ Goes
  /\ UNCHANGED <<serverVars, staged, intact>>

\* install-sudoers renders the installed policy and lets visudo check it.
sudoers ==
  /\ Line("sudoers")
  /\ \/ Put("sudoers", files["policy"]) /\ Goes /\ UNCHANGED intact
     \/ UNCHANGED files /\ Aborts /\ intact' = FALSE
  /\ UNCHANGED <<serverVars, staged>>

elevateEnv ==
  /\ Line("elevateEnv") /\ Passes(files["env"] # None)
  /\ IF files["env"] # None THEN Put("envElevate", spec.policy) ELSE UNCHANGED files
  /\ UNCHANGED <<serverVars, staged, intact>>

\* A paste on another host, or on one without the agent, ends here.
hostGuard ==
  /\ \/ Line("hostGuard") /\ (Goes \/ Aborts)
     \/ Line("hasBinary") /\ Passes(files["bin"] # None)
  /\ UNCHANGED <<serverVars, files, staged, intact>>

\* The key is written under /etc/partout, which must be there.
pub ==
  /\ Line("pub") /\ Passes(files["etc"] # None)
  /\ IF files["etc"] # None THEN Put("pub", "pub") ELSE UNCHANGED files
  /\ UNCHANGED <<serverVars, staged, intact>>

\* A started agent of a join enrolls and uses the token up.
restart ==
  /\ Line("restart") /\ Goes
  /\ joinToken' = IF spec.path = "join" THEN "used" ELSE joinToken
  /\ UNCHANGED <<newest, policies, elevToken, files, staged, intact>>

done ==
  /\ Line("ok") /\ script' = <<>> /\ outcome' = "ok"
  /\ UNCHANGED <<serverVars, files, staged, intact>>

Lines == copyBin \/ copyCA \/ copyGuard \/ copyPolicy \/ handleJoinBinary \/ stageFiles \/ binGate \/ wipe \/ placeFiles
         \/ caGate \/ policyGate \/ policyFile \/ sudoers \/ elevateEnv \/ hostGuard \/ pub \/ restart \/ done

InstallNext ==
  \/ \E tls \in BOOLEAN, p \in InstPolicies \cup {None} :
       (\E mode \in {"fresh", "join"} : SshInstall(mode, tls, p)) \/ handleJoinScript(tls, p)
  \/ JoinTokenChanges \/ handleElevateScript \/ UploadRelease
  \/ \E p \in InstPolicies : handleElevationBootstrapMint(p) \/ DeleteElevationPolicy(p)
  \/ Lines

InstallSpec == InstallInit /\ [][InstallNext]_installVars

-----------------------------------------------------------------------------
(* Properties. *)

(* No spoiled transfer is ever installed (the boot guard aside, which SSH  *)
(* copies without a gate), and what a script installs is the release it    *)
(* was rendered for, even when a newer one is uploaded between its two     *)
(* requests (the sha256 gates).                                            *)
NothingUnverified ==
  /\ \A f \in FileNames \ {"guard"} : files[f] # "bad"
  /\ (outcome = "running" /\ script # <<>> /\ Head(script) = "guard") => files["bin"] = spec.bin

(* Where the scripts stop, agent.env never names what is not there: a CA   *)
(* line has its CA, an elevation line its policy and sudoers, so an agent  *)
(* that systemd starts again comes up (the order in buildInstallScript).   *)
EnvIsBacked ==
  /\ files["envTls"] = "yes" => files["ca"] # None
  /\ files["envElevate"] # None => files["policy"] # None /\ files["sudoers"] # None

(* Wherever an install script stops, the host is left with verified files  *)
(* and an environment that they back (buildInstallScript).                 *)
InstallInv == NothingUnverified /\ EnvIsBacked

(* A join whose transfers arrive and whose policy is sound is installed:   *)
(* its prelude "materializes the exact /tmp files the field-proven         *)
(* installer expects", says JoinScriptInput.                               *)
IntactJoinInstalls == ~ (spec.path = "join" /\ outcome = "aborted" /\ intact)
=============================================================================
