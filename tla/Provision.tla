----------------------------- MODULE Provision -----------------------------
(***************************************************************************)
(* Provisioning runs over SSH, for one target host.  A run is a row and,   *)
(* while its server process lives, a goroutine that walks the five steps.  *)
(* The operators' calls read the row first and write it later, so a call   *)
(* that changes a row is two actions when another write may come between.  *)
(* An SSH command, a key scan or a copy may fail whenever it is tried.     *)
(***************************************************************************)
EXTENDS Integers, FiniteSets

CONSTANTS ProvRuns,     \* the run ids that may be created
          MaxProvCalls  \* bound on operator calls, host events and restarts

ASSUME ProvAssumption == MaxProvCalls \in Nat

VARIABLES provState,    \* provision_runs.state, "none" before the row exists
          provPc,       \* where the run's goroutine is, "none" without one
          provCancelled,\* runs whose context is cancelled
          provConfirmed,\* runs whose confirm channel is closed
          provLinked,   \* provision_runs.agent_id is set
          knownHost,    \* the host's key is in known_hosts
          captured,     \* runs with a captured key line
          provCall,     \* the call that has read a row and not written yet
          agentUp,      \* the host's agent: "none", "old" or "new", connected
          vetted,       \* runs whose captured key was accepted and written
          provCalls

provVars == <<provState, provPc, provCancelled, provConfirmed, provLinked, knownHost,
              captured, provCall, agentUp, vetted, provCalls>>

NoProvCall == <<"none", "none">>
StepNames == {"preflight", "transfer", "install", "wait"}

isTerminal(s) == s \in {"failed", "cancelled", "connected", "handoff"}

ProvInit ==
  /\ provState = [r \in ProvRuns |-> "none"] /\ provPc = [r \in ProvRuns |-> "none"]
  /\ provCancelled = {} /\ provConfirmed = {} /\ provLinked = {} /\ captured = {}
  /\ knownHost \in BOOLEAN /\ vetted = {}
  /\ provCall = NoProvCall /\ agentUp \in {"none", "old"} /\ provCalls = 0

-----------------------------------------------------------------------------
(* The rows: a state is written whatever the row says. *)

SetProvisionRunState(r, s) == [provState EXCEPT ![r] = s]

setTerminal(r, s) == IF isTerminal(provState[r]) THEN provState ELSE SetProvisionRunState(r, s)

ProvCalled == provCalls < MaxProvCalls /\ provCalls' = provCalls + 1

-----------------------------------------------------------------------------
(* Start: the look for a busy host and the new row are two steps.          *)

StartCheck(r) ==
  /\ provCall = NoProvCall /\ ProvCalled /\ provState[r] = "none"
  /\ \A q \in ProvRuns : provState[q] = "none" \/ isTerminal(provState[q])
  /\ provCall' = <<"start", r>>
  /\ UNCHANGED <<provState, provPc, provCancelled, provConfirmed, provLinked, knownHost,
                 captured, agentUp, vetted>>

\* The token may be refused by the store: the row is left without a goroutine.
StartRun ==
  /\ provCall[1] = "start" /\ provCall' = NoProvCall
  /\ LET r == provCall[2]
     IN  /\ provState' = SetProvisionRunState(r, "queued")
         /\ provPc' \in {[provPc EXCEPT ![r] = "connect"], provPc}
  /\ UNCHANGED <<provCancelled, provConfirmed, provLinked, knownHost, captured, agentUp,
                 vetted, provCalls>>

-----------------------------------------------------------------------------
(* The goroutine.  A step that fails ends it; only the first step does not:*)
(* its false means "paused", so a failed first step waits at the gate too. *)

Advance(r, s, pc) == provState' = s /\ provPc' = [provPc EXCEPT ![r] = pc]

HasHost(r) == knownHost

\* The key line the host presents now, kept on the row.
HostKey(r) == captured' = captured \cup {r}

stepConnect(r) ==
  /\ provPc[r] = "connect"
  /\ \/ /\ HasHost(r) /\ Advance(r, SetProvisionRunState(r, "connecting"), "preflight")
        /\ UNCHANGED captured
     \/ /\ ~ HasHost(r) /\ Advance(r, SetProvisionRunState(r, "key_confirm"), "gate")
        /\ HostKey(r)
     \/ /\ Advance(r, SetProvisionRunState(r, "failed"), "gate") /\ UNCHANGED captured
  /\ UNCHANGED <<provCancelled, provConfirmed, provLinked, knownHost, provCall, agentUp,
                 vetted, provCalls>>

(* The gate is left by a confirmation or by a cancelled context, whichever *)
(* the select picks when both are there.                                   *)
GateConfirmed(r) ==
  /\ provPc[r] = "gate" /\ r \in provConfirmed
  /\ Advance(r, provState, "preflight")
  /\ UNCHANGED <<provCancelled, provConfirmed, provLinked, knownHost, captured, provCall,
                 agentUp, vetted, provCalls>>

GateCancelled(r) ==
  /\ provPc[r] = "gate" /\ r \in provCancelled
  /\ Advance(r, IF provState[r] = "key_confirm" THEN setTerminal(r, "cancelled") ELSE provState, "none")
  /\ UNCHANGED <<provCancelled, provConfirmed, provLinked, knownHost, captured, provCall,
                 agentUp, vetted, provCalls>>

StateOf(pc) == CASE pc = "preflight" -> "preflight" [] pc = "transfer" -> "transferring"
                 [] pc = "install" -> "installing"  [] OTHER -> "enrolling"

\* Each step first writes its own state over whatever the row holds.
BeginStep(r) ==
  /\ provPc[r] \in StepNames /\ provState[r] # StateOf(provPc[r])
  /\ provState' = SetProvisionRunState(r, StateOf(provPc[r]))
  /\ UNCHANGED <<provPc, provCancelled, provConfirmed, provLinked, knownHost, captured,
                 provCall, agentUp, vetted, provCalls>>

Begun(r, pc) == provPc[r] = pc /\ provState[r] = StateOf(pc)

\* Strict checking refuses a host whose key is not in known_hosts.
SshRuns(r) == knownHost /\ r \notin provCancelled

failStep(r) ==
  /\ \E pc \in StepNames \ {"wait"} : Begun(r, pc)
  /\ Advance(r, setTerminal(r, "failed"), "none")
  /\ UNCHANGED <<provCancelled, provConfirmed, provLinked, knownHost, captured, provCall,
                 agentUp, vetted, provCalls>>

\* In join mode a run finds the agent the host already has and links to it.
stepPreflight(r) ==
  /\ Begun(r, "preflight") /\ SshRuns(r)
  /\ \/ Advance(r, provState, "transfer")
     \/ Advance(r, setTerminal(r, "handoff"), "none")
  /\ \/ provLinked' = provLinked
     \/ agentUp # "none" /\ provLinked' = provLinked \cup {r}
  /\ UNCHANGED <<provCancelled, provConfirmed, knownHost, captured, provCall, agentUp,
                 vetted, provCalls>>

stepTransfer(r) ==
  /\ Begun(r, "transfer") /\ SshRuns(r) /\ Advance(r, provState, "install")
  /\ UNCHANGED <<provCancelled, provConfirmed, provLinked, knownHost, captured, provCall,
                 agentUp, vetted, provCalls>>

\* The install script stops the old agent and starts the new one, which
\* enrolls in its own time.
stepInstall(r) ==
  /\ Begun(r, "install") /\ SshRuns(r) /\ Advance(r, provState, "wait")
  /\ agentUp' = "none"
  /\ UNCHANGED <<provCancelled, provConfirmed, provLinked, knownHost, captured, provCall,
                 vetted, provCalls>>

\* Bug: the wait has no deadline, only a connected agent ends it.
WaitTimesOutNever(r) == FALSE

WaitTimesOut(r) == Begun(r, "wait")

stepWaitEnroll(r) ==
  \/ /\ Begun(r, "wait") /\ r \in provLinked /\ agentUp = "new"
     /\ Advance(r, setTerminal(r, "connected"), "none")
     /\ UNCHANGED <<provCancelled, provConfirmed, provLinked, knownHost, captured, provCall,
                    agentUp, vetted, provCalls>>
  \/ /\ WaitTimesOut(r) /\ Advance(r, setTerminal(r, "failed"), "none")
     /\ UNCHANGED <<provCancelled, provConfirmed, provLinked, knownHost, captured, provCall,
                    agentUp, vetted, provCalls>>
  \/ /\ Begun(r, "wait") /\ r \in provCancelled /\ Advance(r, provState, "none")
     /\ UNCHANGED <<provCancelled, provConfirmed, provLinked, knownHost, captured, provCall,
                    agentUp, vetted, provCalls>>

-----------------------------------------------------------------------------
(* The operator's calls. *)

ConfirmRead(r) ==
  /\ provCall = NoProvCall /\ ProvCalled
  /\ provState[r] = "key_confirm" /\ r \in captured /\ provPc[r] # "none"
  /\ provCall' = <<"confirm", r>>
  /\ UNCHANGED <<provState, provPc, provCancelled, provConfirmed, provLinked, knownHost,
                 captured, agentUp, vetted>>

AddKey(r) == knownHost' = TRUE /\ vetted' = vetted \cup {r}

(* The row leaves key_confirm, the key is written to known_hosts and the   *)
(* channel is closed; when the key cannot be written the row goes back.    *)
ConfirmKey ==
  /\ provCall[1] = "confirm" /\ provCall' = NoProvCall
  /\ LET r == provCall[2]
     IN  \/ /\ provState' = SetProvisionRunState(r, "confirming")
            /\ AddKey(r)
            /\ provConfirmed' = provConfirmed \cup {r}
         \/ /\ provState' = SetProvisionRunState(r, "key_confirm")
            /\ UNCHANGED <<knownHost, vetted, provConfirmed>>
  /\ UNCHANGED <<provPc, provCancelled, provLinked, captured, agentUp, provCalls>>

\* A run that waits at the gate and lost its goroutine is failed.
ConfirmLost(r) ==
  /\ provCall = NoProvCall /\ ProvCalled
  /\ provState[r] = "key_confirm" /\ provPc[r] = "none"
  /\ provState' = setTerminal(r, "failed")
  /\ UNCHANGED <<provPc, provCancelled, provConfirmed, provLinked, knownHost, captured,
                 provCall, agentUp, vetted>>

DenyKey(r) ==
  /\ provCall = NoProvCall /\ ProvCalled /\ provState[r] = "key_confirm"
  /\ provState' = SetProvisionRunState(r, "cancelled")
  /\ provCancelled' = IF provPc[r] # "none" THEN provCancelled \cup {r} ELSE provCancelled
  /\ UNCHANGED <<provPc, provConfirmed, provLinked, knownHost, captured, provCall, agentUp, vetted>>

CancelRead(r) ==
  /\ provCall = NoProvCall /\ ProvCalled
  /\ provState[r] # "none" /\ ~ isTerminal(provState[r])
  /\ provCall' = <<"cancel", r>>
  /\ UNCHANGED <<provState, provPc, provCancelled, provConfirmed, provLinked, knownHost,
                 captured, agentUp, vetted>>

CancelRun ==
  /\ provCall[1] = "cancel" /\ provCall' = NoProvCall
  /\ LET r == provCall[2]
     IN  /\ provState' = SetProvisionRunState(r, "cancelled")
         /\ provCancelled' = IF provPc[r] # "none" THEN provCancelled \cup {r} ELSE provCancelled
  /\ UNCHANGED <<provPc, provConfirmed, provLinked, knownHost, captured, agentUp, vetted, provCalls>>

RemoveHost(r) == knownHost' = FALSE /\ vetted' = vetted \ {r}

\* The gate again for a failed run without a goroutine: the old key is
\* dropped, the current one captured, a fresh token and goroutine made.
ReconfirmKey(r) ==
  /\ provCall = NoProvCall /\ ProvCalled
  /\ provPc[r] = "none" /\ provState[r] = "failed"
  /\ RemoveHost(r)
  /\ \/ /\ Advance(r, SetProvisionRunState(r, "key_confirm"), "gate")
        /\ HostKey(r)
        /\ provConfirmed' = provConfirmed \ {r} /\ provCancelled' = provCancelled \ {r}
     \/ UNCHANGED <<provState, provPc, captured, provConfirmed, provCancelled>>  \* no key from the host
  /\ UNCHANGED <<provLinked, provCall, agentUp>>

-----------------------------------------------------------------------------
(* The host and the server process. *)

\* The started agent enrolls with the run's token, which links the run.
AgentEnrolls(r) ==
  /\ agentUp = "none" /\ provState[r] # "none" /\ provPc[r] = "wait"
  /\ agentUp' = "new" /\ provLinked' = provLinked \cup {r}
  /\ UNCHANGED <<provState, provPc, provCancelled, provConfirmed, knownHost, captured,
                 provCall, vetted, provCalls>>

\* A new process: no goroutines; every run that is not over is failed.
ReapStale ==
  /\ ProvCalled /\ provCall' = NoProvCall
  /\ provPc' = [r \in ProvRuns |-> "none"]
  /\ provCancelled' = {} /\ provConfirmed' = {}
  /\ provState' = [r \in ProvRuns |-> IF provState[r] = "none" \/ isTerminal(provState[r])
                                      THEN provState[r] ELSE "failed"]
  /\ UNCHANGED <<provLinked, knownHost, captured, agentUp, vetted>>

Goroutine(r) ==
  \/ stepConnect(r) \/ GateConfirmed(r) \/ GateCancelled(r) \/ BeginStep(r) \/ failStep(r)
  \/ stepPreflight(r) \/ stepTransfer(r) \/ stepInstall(r) \/ stepWaitEnroll(r)

-----------------------------------------------------------------------------
(* The API. *)

handleCreateRun(r) == StartCheck(r)

\* Only an agent some run has brought up has a target to join again.
handleRejoin(r) == (\E q \in provLinked : provState[q] = "connected") /\ StartCheck(r)

handleConfirmKey(r) == ConfirmRead(r) \/ ConfirmLost(r) \/ DenyKey(r)

handleReconfirmKey(r) == ReconfirmKey(r)

handleCancelRun(r) == CancelRead(r)

ProvNext ==
  \/ \E r \in ProvRuns : handleCreateRun(r) \/ handleRejoin(r) \/ Goroutine(r)
  \/ StartRun \/ ConfirmKey \/ CancelRun
  \/ \E r \in ProvRuns : handleConfirmKey(r) \/ handleReconfirmKey(r) \/ handleCancelRun(r)
  \/ \E r \in ProvRuns : AgentEnrolls(r)
  \/ ReapStale

\* The goroutine of a run keeps running; the wait ends at its deadline.
ProvFairness == \A r \in ProvRuns : WF_provVars(Goroutine(r)) /\ WF_provVars(WaitTimesOut(r) /\ stepWaitEnroll(r))

ProvSpec == ProvInit /\ [][ProvNext]_provVars /\ ProvFairness

-----------------------------------------------------------------------------
(* Properties. *)

ProvTypeOK ==
  /\ \A r \in ProvRuns : /\ provPc[r] \in StepNames \cup {"none", "connect", "gate"}
                         /\ provState[r] = "none" => provPc[r] = "none"
  /\ knownHost \in BOOLEAN /\ agentUp \in {"none", "old", "new"}

(* A run that was stopped at the fingerprint gate goes on only after its   *)
(* own captured key was accepted and written to known_hosts, over retries, *)
(* re-confirmations, cancels and restarts (ConfirmKey, reconfirmWait).     *)
TrustBeforeSteps ==
  [][ \A r \in ProvRuns :
        (provPc[r] = "gate" /\ provPc'[r] = "preflight") => r \in vetted ]_provVars

(* A run whose goroutine is past the gate comes to an end, whatever the    *)
(* host does: the last step has a deadline of its own (stepWaitEnroll).    *)
RunEnds == \A r \in ProvRuns : provPc[r] \in StepNames ~> provPc[r] \notin StepNames

(* A provisioning run passes the fingerprint gate on a trusted key only,   *)
(* and past the gate it ends.                                              *)
ProvisionEnds == []ProvTypeOK /\ TrustBeforeSteps /\ RunEnds

(* "a 'cancelled' run is never silently overwritten by a late 'failed'",   *)
(* says setTerminal; the state a step begins with is written unguarded.    *)
CancelledStays ==
  [][ \A r \in ProvRuns : provState[r] = "cancelled" => provState'[r] = "cancelled" ]_provVars

(* ReapStale runs at boot so that no row is left "that can never make      *)
(* progress" and keep its host busy; between two boots a row that is not   *)
(* over has a goroutine.                                                   *)
ProvRunIsDriven ==
  \A r \in ProvRuns :
    (provState[r] # "none" /\ ~ isTerminal(provState[r])) => provPc[r] # "none"
=============================================================================
