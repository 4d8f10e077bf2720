----------------------------- MODULE SelfUpdate -----------------------------
(***************************************************************************)
(* The self-update of one agent: the files beside its binary, the boot     *)
(* marker, the steps of execUpdate, the boot guard of the service unit and *)
(* the checks at start and at the first connect.  The process may die      *)
(* between any two steps; a version may be unable to run at all.           *)
(***************************************************************************)
EXTENDS Integers

CONSTANTS Versions,      \* released versions
          FirstVersion,  \* what is installed
          Broken,        \* versions that validate but crash when they run as the agent
          MaxDirectives, \* bound on directives received
          MaxAgentCrashes

ASSUME SelfUpdateAssumption ==
  /\ FirstVersion \in Versions /\ Broken \subseteq Versions \ {FirstVersion}
  /\ Versions \cap {"none", "absent", "down"} = {}
  /\ MaxDirectives \in Nat /\ MaxAgentCrashes \in Nat

VARIABLES bin,       \* version of the installed binary
          prev,      \* version of partout.old, or "absent"
          marker,    \* update.json: target, and whether it is past the health window
          proc,      \* version of the running process, or "down"
          step,      \* step of execUpdate
          target,    \* version of the directive in progress
          before,    \* version that ran when the update in progress began
          connected, \* has this process had a stream
          verdicts,  \* versions reported verified
          guarded,   \* does the service unit start the agent through the guard
          directives, agentCrashes

selfUpdateVars == <<bin, prev, marker, proc, step, target, before, connected,
                    verdicts, guarded, directives, agentCrashes>>

files == <<bin, prev, marker>>
aim == <<target, before>>
tally == <<verdicts, guarded, directives, agentCrashes>>

NoMarker == [target |-> "none", stale |-> FALSE]

SelfUpdateInit ==
  /\ bin = FirstVersion /\ prev = "absent" /\ marker = NoMarker
  /\ proc = "down" /\ step = "idle" /\ target = "none" /\ before = FirstVersion
  /\ connected = FALSE /\ verdicts = {} /\ guarded \in BOOLEAN
  /\ directives = 0 /\ agentCrashes = 0

-----------------------------------------------------------------------------
(* Start of the service. *)

RestoreN1 == /\ bin' = IF prev = "absent" THEN bin ELSE prev
             /\ prev' = "absent"

\* Bug: the guard lets a marker of the installed version stand however old.
GuardIgnoresAge == guarded /\ marker # NoMarker /\ marker.target # bin

(* The guard runs the binary as it is without a marker, and a fresh marker *)
(* whose target is the installed version; otherwise it rolls back.  The    *)
(* agent then resolves the marker again before it connects (PostBootCheck);*)
(* after the guard it finds none, or its own version.                      *)
GuardRollsBack == guarded /\ marker # NoMarker /\ (marker.target # bin \/ marker.stale)

Boot ==
  /\ proc = "down"
  /\ IF GuardRollsBack THEN RestoreN1 /\ marker' = NoMarker
     ELSE UNCHANGED files
  /\ proc' = bin'
  /\ connected' = FALSE /\ step' = "idle"
  /\ UNCHANGED <<aim, tally>>

PostBootCheck ==
  /\ proc # "down" /\ ~connected /\ marker # NoMarker /\ marker.target # proc
  /\ step = "idle"
  /\ RestoreN1 /\ marker' = NoMarker
  /\ UNCHANGED <<proc, step, connected, aim, tally>>

(* A version that cannot run dies; the supervisor starts it again. *)
CrashLoop ==
  /\ proc \in Broken
  /\ proc' = "down"
  /\ UNCHANGED <<step, connected, files, aim, tally>>

postConnectUpdateCheck ==
  /\ proc \notin Broken \cup {"down"} /\ ~connected
  /\ ~(marker # NoMarker /\ marker.target # proc)
  /\ connected' = TRUE
  /\ marker' = NoMarker
  /\ verdicts' = IF marker.target = proc THEN verdicts \cup {proc} ELSE verdicts
  /\ UNCHANGED <<guarded, bin, prev, proc, step, directives, agentCrashes, aim>>

-----------------------------------------------------------------------------
(* execUpdate.  Verification, download, digest and the trial run of the    *)
(* candidate touch nothing: they end in Validated or in a failed report.   *)

Directive(v) ==
  /\ connected /\ proc # "down" /\ step = "idle" /\ directives < MaxDirectives
  /\ directives' = directives + 1
  /\ IF v = proc
     THEN verdicts' = verdicts \cup {v} /\ UNCHANGED <<step, aim>>
     ELSE step' = "fetching" /\ target' = v /\ before' = proc /\ UNCHANGED verdicts
  /\ UNCHANGED <<guarded, proc, connected, agentCrashes, files>>

Validated ==
  /\ step = "fetching"
  /\ step' = "validated"
  /\ UNCHANGED <<proc, connected, files, aim, tally>>

FailBeforeSwap ==
  /\ step \in {"fetching", "validated"}
  /\ step' = "idle"
  /\ UNCHANGED <<proc, connected, files, aim, tally>>

WriteMarker ==
  /\ step = "validated"
  /\ marker' = [target |-> target, stale |-> FALSE]
  /\ step' = "marked"
  /\ UNCHANGED <<bin, prev, proc, connected, aim, tally>>

(* Swap: the copy of the running binary, then the staged file renamed. *)
SwapRetain ==
  /\ step = "marked"
  /\ prev' = bin
  /\ step' = "retained"
  /\ UNCHANGED <<bin, marker, proc, connected, aim, tally>>

SwapRename ==
  /\ step = "retained"
  /\ bin' = target
  /\ step' = "swapped"
  /\ UNCHANGED <<prev, marker, proc, connected, aim, tally>>

SwapFails ==
  /\ step \in {"marked", "retained"}
  /\ marker' = NoMarker
  /\ step' = "idle"
  /\ UNCHANGED <<bin, prev, proc, connected, aim, tally>>

Exit ==
  /\ step = "swapped"
  /\ proc' = "down" /\ step' = "idle"
  /\ UNCHANGED <<connected, files, aim, tally>>

-----------------------------------------------------------------------------
AgentCrash ==
  /\ proc # "down" /\ agentCrashes < MaxAgentCrashes
  /\ agentCrashes' = agentCrashes + 1
  /\ proc' = "down" /\ step' = "idle"
  /\ UNCHANGED <<guarded, connected, verdicts, directives, files, aim>>

MarkerAges ==
  /\ marker # NoMarker /\ ~marker.stale
  /\ marker' = [marker EXCEPT !.stale = TRUE]
  /\ UNCHANGED <<bin, prev, proc, step, connected, aim, tally>>

SelfUpdateNext ==
  \/ Boot \/ PostBootCheck \/ CrashLoop \/ postConnectUpdateCheck
  \/ \E v \in Versions : Directive(v)
  \/ Validated \/ FailBeforeSwap \/ WriteMarker \/ SwapRetain \/ SwapRename
  \/ SwapFails \/ Exit \/ AgentCrash \/ MarkerAges

(* The service manager starts the unit again, the process runs, and time   *)
(* passes.                                                                 *)
SelfUpdateFairness ==
  /\ WF_selfUpdateVars(Boot) /\ WF_selfUpdateVars(CrashLoop)
  /\ WF_selfUpdateVars(MarkerAges) /\ WF_selfUpdateVars(postConnectUpdateCheck)

SelfUpdateSpec == SelfUpdateInit /\ [][SelfUpdateNext]_selfUpdateVars /\ SelfUpdateFairness

-----------------------------------------------------------------------------
SelfUpdateTypeOK ==
  /\ bin \in Versions /\ prev \in Versions \cup {"absent"}
  /\ marker.target \in Versions \cup {"none"} /\ marker.stale \in BOOLEAN
  /\ proc \in Versions \cup {"down"} /\ before \in Versions
  /\ step \in {"idle", "fetching", "validated", "marked", "retained", "swapped"}
  /\ connected \in BOOLEAN /\ guarded \in BOOLEAN /\ verdicts \subseteq Versions
  /\ directives \in 0..MaxDirectives /\ agentCrashes \in 0..MaxAgentCrashes

(* agent.go, execUpdate: "With the marker written first, every crash       *)
(* window is covered".  A binary that cannot run is installed only under a *)
(* marker for it and beside a retained version that can.                   *)
BrokenIsSupervised ==
  bin \in Broken => marker.target = bin /\ prev \in Versions \ Broken

(* update.go, Swap: "Consecutive updates (v1 -> v2 -> v3) must roll a      *)
(* failed v3 back to v2, not to the stale v1": a rollback of an installed  *)
(* update brings back the version that ran when it began.                  *)
RollbackIsNMinus1 ==
  [][bin' # bin /\ step' = "idle" /\ bin = target => bin' = before]_selfUpdateVars

(* Only a version that ran and connected is reported verified. *)
VerifiedCanRun == verdicts \cap Broken = {}

(* agent.go, execUpdate: "after the marker but before the rename the       *)
(* on-disk version still != target, so the boot guard aborts the update    *)
(* and runs the old binary": an update that never reached the rename       *)
(* leaves the binary that ran before it.                                   *)
AbortedUpdateKeepsBinary ==
  [][bin' # bin => bin' = target \/ bin = target]_selfUpdateVars

(* The guard's promise of "no human on the host": whatever update is       *)
(* tried, a version that can run is running again and again.               *)
HostRecovers == guarded => []<>(proc \in Versions \ Broken)

(* A guarded host survives any update, broken ones and crashes at every    *)
(* step of the swap included: a binary that cannot run stays supervised,   *)
(* the rollback is to N-1, and a version that can run comes back.          *)
UpdateRecovers ==
  [](SelfUpdateTypeOK /\ BrokenIsSupervised /\ VerifiedCanRun) /\ RollbackIsNMinus1 /\ HostRecovers
=============================================================================
