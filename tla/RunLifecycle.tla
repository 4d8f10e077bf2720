---------------------------- MODULE RunLifecycle ----------------------------
(***************************************************************************)
(* What the server promises about a run, without saying how: the row of a  *)
(* run is created once, moves forward between open states, and settles     *)
(* once, either on an outcome the run had on its host or on a verdict of   *)
(* the server's own; the host starts the command only when policy allowed  *)
(* it.  Several rows may move in one step (a disconnect interrupts all of  *)
(* a host's runs).  Executions is shown to implement it.                   *)
(***************************************************************************)
EXTENDS Naturals, RunStore

CONSTANTS Runs

VARIABLES runState,  \* the row's state
          verdict,   \* the policy decision
          starts,    \* how often the host started the command
          outcomes   \* outcomes the run had on the host

runVars == <<runState, verdict, starts, outcomes>>

Init ==
  /\ runState = [r \in Runs |-> "none"]
  /\ verdict  = [r \in Runs |-> "none"]
  /\ starts   = [r \in Runs |-> 0]
  /\ outcomes = [r \in Runs |-> {}]

\* The open states an open row may move to; "queued" is never entered again and
\* parking is only possible from it.
Forward(s) ==
  CASE s = "queued"            -> {"queued_offline", "awaiting_approval", "delivered"}
    [] s = "queued_offline"    -> {"delivered"}
    [] s = "awaiting_approval" -> {"queued_offline", "delivered"}
    [] s = "delivered"         -> {"running", "interrupted"}
    [] s = "running"           -> {"delivered", "interrupted"}
    [] s = "interrupted"       -> {"delivered"}
    [] OTHER                   -> {}

\* The row is untouched or takes one step of its life.
RowStep(r) ==
  \/ runState'[r] = runState[r] /\ verdict'[r] = verdict[r]
  \/ /\ runState[r] = "none" /\ runState'[r] = "queued"
     /\ verdict[r] = "none" /\ verdict'[r] \in {"allow", "deny", "require_approval"}
  \/ /\ runState[r] \in OpenStates /\ verdict'[r] = verdict[r]
     /\ runState'[r] \in Forward(runState[r]) \cup outcomes[r] \cup GiveUpStates

\* The host is idle, starts the command, or the command ends.
HostStep(r) ==
  \/ starts'[r] = starts[r] /\ outcomes'[r] = outcomes[r]
  \/ /\ verdict[r] = "allow"
     /\ starts'[r] = starts[r] + 1 /\ outcomes'[r] = outcomes[r]
  \/ /\ starts[r] > 0 /\ starts'[r] = starts[r]
     /\ \E o \in ResultStates : outcomes'[r] = outcomes[r] \cup {o}

Next == \A r \in Runs : RowStep(r) /\ HostStep(r)

Spec == Init /\ [][Next]_runVars
=============================================================================
