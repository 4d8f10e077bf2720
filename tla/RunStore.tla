------------------------------ MODULE RunStore ------------------------------
(***************************************************************************)
(* The execution_runs table as the server sees it: the values of its state *)
(* column and the guarded SQL statements that move one row               *)
(* (internal/store/exec.go, paging.go, agents.go), and the aggregate that *)
(* Control.FinalizeExecution computes from an execution's rows             *)
(* (internal/control/control.go).  SQLite is opened with one connection,  *)
(* so every statement is atomic; an operator below is one statement        *)
(* applied to one row.  "none" stands for a row that does not exist.       *)
(***************************************************************************)

\* Outcomes the agent's runner can report (internal/agent/exec/exec.go).
ResultStates == {"succeeded", "failed", "timed_out", "cancelled"}

\* States a command was actually handed to the agent in.
InFlightStates == {"delivered", "running"}

\* The states UpdateRunState's WHERE clause lets an update replace.
OpenStates == {"queued", "queued_offline", "awaiting_approval", "interrupted"}
                \cup InFlightStates

\* Verdicts the server reaches by itself, without a result from the host.
GiveUpStates == {"denied", "expired", "not_delivered", "cancelled"}

\* States no statement replaces.
FinalStates == ResultStates \cup GiveUpStates

\* terminalStates / IsTerminalRun: "interrupted" counts as terminal there.
TerminalStates == FinalStates \cup {"interrupted"}

RowStates == OpenStates \cup FinalStates

RunStates == RowStates \cup {"none"}

ExecStates == {"none", "pending", "dispatching", "running", "interrupted",
               "succeeded", "failed", "partial", "cancelled"}

\* The states in which CancelExecution refuses to cancel.
SettledExecStates == {"succeeded", "failed", "partial", "cancelled"}

-----------------------------------------------------------------------------
\* A bug it guards against: the UPDATE without its state guard.
UpdateRunState_Unguarded(s, new) == IF s = "none" THEN s ELSE new

UpdateRunState(s, new) == IF s \in OpenStates THEN new ELSE s

\* Bugs: the plain update the guarded one replaced, and a misspelt state.
MarkQueuedOfflineIfQueued_Unguarded(s) == UpdateRunState(s, "queued_offline")
MarkQueuedOfflineIfQueued_Misspelt(s) == IF s = "queued" THEN "offline" ELSE s

MarkQueuedOfflineIfQueued(s) == IF s = "queued" THEN "queued_offline" ELSE s

PromoteRunToRunning(s) == IF s = "delivered" THEN "running" ELSE s

InterruptRun(s) == IF s \in InFlightStates THEN "interrupted" ELSE s

\* Bug: a stranded run counted as failed.
ResolveStranded_AsFailed(s) == IF s = "interrupted" THEN "failed" ELSE s

ResolveStranded(s) == IF s = "interrupted" THEN "not_delivered" ELSE s

CancelNonTerminalRun(s) ==
  IF s \in OpenStates \ {"interrupted"} THEN "cancelled" ELSE s

\* Bug: queued commands are put back to "queued" though their queue is gone.
ExpireStaleOfflineRun_Requeue(s) == IF s = "queued_offline" THEN "queued" ELSE s

ExpireStaleOfflineRun(s) == IF s = "queued_offline" THEN "expired" ELSE s

\* The aggregate of a non-empty set of row states without "cancelled" (with
\* a cancelled row FinalizeExecution leaves the execution alone).
Aggregate(rows) ==
  LET interrupted == "interrupted" \in rows
      succeeded   == "succeeded" \in rows
      failed      == rows \cap {"failed", "timed_out", "not_delivered",
                                "denied", "expired"} # {}
      other       == rows \cap (OpenStates \ {"interrupted"}) # {}
  IN  CASE rows = {}              -> "pending"
        [] other                  -> "running"
        [] interrupted            -> "interrupted"
        [] succeeded /\ ~failed   -> "succeeded"
        [] failed /\ ~succeeded   -> "failed"
        [] OTHER                  -> "partial"
=============================================================================
