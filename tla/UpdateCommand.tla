---------------------------- MODULE UpdateCommand ----------------------------
(***************************************************************************)
(* `partout update`: resolve the target, fetch and verify the artifacts    *)
(* from one of three sources, swap the server under the supervision of     *)
(* update-server.sh, publish the agent artifact, start the fleet rollout   *)
(* and watch it to its end.  The command may be run again after a failure. *)
(***************************************************************************)
EXTENDS Integers

CONSTANTS UpdateVersions,   \* versions, the installed one among them
          InstalledVersion,
          MaxUpdateCommands \* bound on invocations

ASSUME UpdateCommandAssumption ==
  InstalledVersion \in UpdateVersions /\ MaxUpdateCommands \in Nat

VARIABLES cmd,          \* the invocation in progress: pc, flags and artifacts
          invocations,
          serverVersion,
          published,    \* versions of the agent releases in the store
          fleetRun      \* the rollout the command watches: version and status

updateCommandVars == <<cmd, invocations, serverVersion, published, fleetRun>>

Sources == {"repo", "file", "github"}

(* The digest of a file, by what the file is. *)
Digest(file) == file

NoCommand == [pc |-> "none", source |-> "repo", target |-> InstalledVersion,
              serverOnly |-> FALSE, file |-> "none", sha |-> "none"]

UpdateCommandInit ==
  /\ cmd = NoCommand /\ invocations = 0
  /\ serverVersion = InstalledVersion /\ published = {}
  /\ fleetRun = [version |-> InstalledVersion, status |-> "none"]

Goto(pc) == cmd' = [cmd EXCEPT !.pc = pc]
Fatal == Goto("failed")

-----------------------------------------------------------------------------
runUpdate(source, target, serverOnly, check) ==
  /\ cmd.pc \in {"none", "failed", "done"} /\ invocations < MaxUpdateCommands
  /\ invocations' = invocations + 1
  /\ cmd' = [NoCommand EXCEPT !.source = source, !.target = target,
                              !.serverOnly = serverOnly,
                              !.pc = IF check \/ (serverOnly /\ target = serverVersion)
                                     THEN "done" ELSE "resolve"]
  /\ UNCHANGED <<serverVersion, published, fleetRun>>

(* The signed layout of a repository and a local build hand on the digest  *)
(* of the binary; the published tarball's digest is checked against the    *)
(* sums and handed on as that of the binary extracted from it.             *)
repoArtifact == [file |-> "binary", sha |-> Digest("binary")]
localArtifact == [file |-> "binary", sha |-> Digest("binary")]
githubArtifact == [file |-> "binary", sha |-> Digest("tarball")]

Resolved(source) == CASE source = "repo" -> repoArtifact
                      [] source = "file" -> localArtifact
                      [] source = "github" -> githubArtifact

\* Bug: the artifacts are published without the swap of the server.
resolveArtifactsNoSwap(verified) ==
  LET art == Resolved(cmd.source) IN
  /\ cmd.pc = "resolve"
  /\ IF ~verified THEN Fatal
     ELSE cmd' = [cmd EXCEPT !.file = art.file, !.sha = art.sha,
                             !.pc = IF cmd.serverOnly THEN "swap" ELSE "publish"]
  /\ UNCHANGED <<invocations, serverVersion, published, fleetRun>>

resolveArtifacts(verified) ==
  LET art == Resolved(cmd.source) IN
  /\ cmd.pc = "resolve"
  /\ IF ~verified THEN Fatal
     ELSE cmd' = [cmd EXCEPT !.file = art.file, !.sha = art.sha,
                             !.pc = IF cmd.target = serverVersion THEN "publish" ELSE "swap"]
  /\ UNCHANGED <<invocations, serverVersion, published, fleetRun>>

(* update-server.sh refuses a file whose digest is not the one it is given; *)
(* after the swap it proves the server healthy or puts the old one back.    *)
supervisedSwap(healthy) ==
  /\ cmd.pc = "swap"
  /\ IF cmd.sha = Digest(cmd.file) /\ healthy
     THEN /\ serverVersion' = cmd.target
          /\ Goto(IF cmd.serverOnly THEN "done" ELSE "publish")
     ELSE Fatal /\ UNCHANGED serverVersion
  /\ UNCHANGED <<invocations, published, fleetRun>>

(* An upload whose digest is not that of its bytes is refused with 400;    *)
(* otherwise 201, or 409 for a release that exists and is used again.      *)
publishAgentRelease ==
  /\ cmd.pc = "publish"
  /\ IF cmd.sha = Digest(cmd.file)
     THEN published' = published \cup {cmd.target} /\ Goto("rollout")
     ELSE Fatal /\ UNCHANGED published
  /\ UNCHANGED <<invocations, serverVersion, fleetRun>>

(* A run parked on an approval is answered with 202, which the command     *)
(* takes for an error before it looks at the state in the answer.          *)
startRollout(outcome) ==
  /\ cmd.pc = "rollout"
  /\ CASE outcome = "started" ->
            fleetRun' = [version |-> cmd.target, status |-> "active"] /\ Goto("watch")
       [] outcome = "pending" ->
            fleetRun' = [version |-> cmd.target, status |-> "active"] /\ Fatal
       [] outcome = "refused" -> Fatal /\ UNCHANGED fleetRun
  /\ UNCHANGED <<invocations, serverVersion, published>>

fleetRunMoves(status) ==
  /\ fleetRun.status = "active"
  /\ fleetRun' = [fleetRun EXCEPT !.status = status]
  /\ UNCHANGED <<cmd, invocations, serverVersion, published>>

watchRollout ==
  /\ cmd.pc = "watch"
  /\ \/ fleetRun.status = "completed" /\ Goto("done")
     \/ fleetRun.status \in {"failed", "aborted"} /\ Fatal
     \/ fleetRun.status = "active" /\ Fatal          \* 60 minutes have passed
  /\ UNCHANGED <<invocations, serverVersion, published, fleetRun>>

UpdateCommandNext ==
  \/ \E source \in Sources, target \in UpdateVersions, serverOnly, check \in BOOLEAN :
       runUpdate(source, target, serverOnly, check)
  \/ \E ok \in BOOLEAN : resolveArtifacts(ok) \/ supervisedSwap(ok)
  \/ publishAgentRelease \/ watchRollout
  \/ \E o \in {"started", "pending", "refused"} : startRollout(o)
  \/ \E s \in {"completed", "failed", "aborted"} : fleetRunMoves(s)

UpdateCommandSpec == UpdateCommandInit /\ [][UpdateCommandNext]_updateCommandVars

-----------------------------------------------------------------------------
(* cmd/partout/update.go: the server goes first.  A rollout is started     *)
(* only for a version the server has run, whichever way the command came   *)
(* to it and however often it failed before.                               *)
ServerLeadsFleet ==
  [][fleetRun'.version # fleetRun.version \/ (fleetRun.status # "active" /\ fleetRun'.status = "active")
       => serverVersion = fleetRun'.version /\ fleetRun'.version \in published]_updateCommandVars

(* cmd/partout/update.go, fetchGitHubArtifact: "Returns the binary path    *)
(* and its sha256 (hex)".  The digest a resolved artifact is passed on     *)
(* with is that of the file it is passed on with.                          *)
ArtifactDigestIsItsOwn ==
  cmd.pc \in {"swap", "publish"} => cmd.sha = Digest(cmd.file)
=============================================================================
