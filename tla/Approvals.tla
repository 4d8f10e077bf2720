----------------------------- MODULE Approvals -----------------------------
(***************************************************************************)
(* The approvals engine (internal/server/approvals, internal/store) on the *)
(* runs of one command execution that policy parked: Dispatch creates a    *)
(* request for every such run, administrators approve or deny, a listing   *)
(* expires what is past its TTL, and an approval dispatches the stored     *)
(* payload (Control.DispatchApprovedCommand).                              *)
(*                                                                         *)
(* A step is one SQL statement, one send or one half of FinalizeExecution. *)
(* Handlers that return an error before they wrote anything do nothing, so *)
(* their refusals are not steps: the guard of the handler's first step is  *)
(* the conjunction of the checks it passes.                                *)
(***************************************************************************)
EXTENDS Naturals, RunStore

CONSTANTS Requests,  \* approval requests; each has the run of the same name
          Admins,    \* request handlers serving approve and deny calls
          Listers,   \* request handlers serving list calls
          Results    \* results a host may report, a subset of ResultStates

\* The execution has a parked run, and every request handler is a goroutine of its own.
ASSUME HandlersAssumption ==
  /\ Requests # {} /\ Results \subseteq ResultStates
  /\ Admins \cap Listers = {} /\ "stream" \notin Admins \cup Listers

Deciding == {"idle", "terminal", "approve", "send", "delivered",
             "queued_offline", "not_delivered", "deny", "failed"}

VARIABLES
  reqState,  \* approval_requests.state
  late,      \* the request's expires_unix has passed
  runState,  \* execution_runs.state of the request's run
  execState, \* executions.state
  park,      \* where Dispatch is with the request's host
  adminAt,   \* the next step of an admin handler
  adminReq,  \* the request an admin handler works on
  pass,      \* a lister's ExpireApprovalRequests call: 0 none, 1 List's own,
             \* 2 the one inside ListApprovalRequests
  selected,  \* rows that call selected and has not updated yet
  expired,   \* rows it has gone through and will return
  owes,      \* threads that owe a FinalizeExecution
  finMu,     \* Control.finMu: {} or {<<thread, new state>>}
  sent,      \* commands handed to SendCommand and accepted
  reported,  \* results the host has reported
  cancelled  \* CancelExecution: "no", "rows" done, "yes"

reqVars  == <<reqState, late>>
rowVars  == <<runState, execState>>
adminVars == <<adminAt, adminReq>>
listVars == <<pass, selected, expired>>
finVars  == <<owes, finMu>>
hostVars == <<sent, reported>>
vars == <<reqVars, rowVars, park, adminVars, listVars, finVars, hostVars, cancelled>>

Threads == Admins \cup Listers \cup {"stream"}

Init ==
  /\ reqState  = [q \in Requests |-> "none"]
  /\ late      = [q \in Requests |-> FALSE]
  /\ runState  = [q \in Requests |-> "none"]
  /\ execState = "dispatching"
  /\ park      = [q \in Requests |-> "todo"]
  /\ adminAt   = [a \in Admins |-> "idle"]
  /\ adminReq  = [a \in Admins |-> "none"]
  /\ pass      = [l \in Listers |-> 0]
  /\ selected  = [l \in Listers |-> {}]
  /\ expired   = [l \in Listers |-> {}]
  /\ owes      = {}
  /\ finMu     = {}
  /\ sent      = [q \in Requests |-> 0]
  /\ reported  = [q \in Requests |-> {}]
  /\ cancelled = "no"

-----------------------------------------------------------------------------

\* Dispatch, one host after the other: the row, the request, the parked state.
CreateExecutionRun(q) ==
  /\ park[q] = "todo"
  /\ \A p \in Requests : park[p] \in {"todo", "done"}
  /\ park' = [park EXCEPT ![q] = "row"]
  /\ runState' = [runState EXCEPT ![q] = "queued"]
  /\ UNCHANGED <<reqVars, execState, adminVars, listVars, finVars, hostVars, cancelled>>

NewRequest(q) ==
  /\ park[q] = "row"
  /\ park' = [park EXCEPT ![q] = "requested"]
  /\ reqState' = [reqState EXCEPT ![q] = "pending"]
  /\ UNCHANGED <<late, rowVars, adminVars, listVars, finVars, hostVars, cancelled>>

ParkRun(q) ==
  /\ park[q] = "requested"
  /\ park' = [park EXCEPT ![q] = "done"]
  /\ runState' = [runState EXCEPT ![q] = UpdateRunState(@, "awaiting_approval")]
  /\ UNCHANGED <<reqVars, execState, adminVars, listVars, finVars, hostVars, cancelled>>

\* The clock passes a request's expires_unix.
PassTTL(q) ==
  /\ reqState[q] # "none" /\ ~late[q]
  /\ late' = [late EXCEPT ![q] = TRUE]
  /\ UNCHANGED <<reqState, rowVars, park, adminVars, listVars, finVars, hostVars, cancelled>>

-----------------------------------------------------------------------------
\* The UPDATE is guarded by state='pending'.
DecideApprovalRequest(q, new) ==
  reqState' = [reqState EXCEPT ![q] = IF @ = "pending" THEN new ELSE @]

GoTo(a, step) == adminAt' = [adminAt EXCEPT ![a] = step]

\* The handler answers its request.
Return(a) ==
  /\ adminAt' = [adminAt EXCEPT ![a] = "idle"]
  /\ adminReq' = [adminReq EXCEPT ![a] = "none"]

\* The next step of a handler that goes on only if ok holds.
Proceed(a, ok, step) ==
  \/ ok /\ GoTo(a, step) /\ UNCHANGED adminReq
  \/ ~ok /\ Return(a)

\* Approve reads the request: it must be pending and within its TTL.  (The
\* decision "expired" it writes for a late one is refused by the store, which
\* accepts only approved and denied.)
ApproveGet(a, q) ==
  /\ adminAt[a] = "idle" /\ a \notin owes
  /\ reqState[q] = "pending" /\ ~late[q]
  /\ adminReq' = [adminReq EXCEPT ![a] = q]
  /\ GoTo(a, "terminal")
  /\ UNCHANGED <<reqVars, rowVars, park, listVars, finVars, hostVars, cancelled>>

\* The parked run may have been finalized meanwhile.
ApproveCheckRun(a) ==
  /\ adminAt[a] = "terminal"
  /\ Proceed(a, runState[adminReq[a]] \notin TerminalStates, "approve")
  /\ UNCHANGED <<reqVars, rowVars, park, listVars, finVars, hostVars, cancelled>>

\* Bug: RowsAffected is not looked at.
ApproveDecide_IgnoresRowCount(a) ==
  /\ adminAt[a] = "approve"
  /\ DecideApprovalRequest(adminReq[a], "approved")
  /\ GoTo(a, "send")
  /\ UNCHANGED <<late, rowVars, park, adminReq, listVars, finVars, hostVars, cancelled>>

\* No row updated is an error: someone else decided, or a listing expired it.
ApproveDecide(a) ==
  /\ adminAt[a] = "approve"
  /\ DecideApprovalRequest(adminReq[a], "approved")
  /\ Proceed(a, reqState[adminReq[a]] = "pending", "send")
  /\ UNCHANGED <<late, rowVars, park, listVars, finVars, hostVars, cancelled>>

\* DispatchApprovedCommand: SendCommand sends, queues for an offline agent,
\* or fails.
SendApproved(a, how) ==
  /\ adminAt[a] = "send"
  /\ sent' = [sent EXCEPT ![adminReq[a]] = @ + (IF how = "not_delivered" THEN 0 ELSE 1)]
  /\ GoTo(a, how)
  /\ UNCHANGED <<reqVars, rowVars, park, adminReq, listVars, finVars, reported, cancelled>>

\* ... and then writes the row.
MarkApproved(a) ==
  /\ adminAt[a] \in {"delivered", "queued_offline", "not_delivered"}
  /\ runState' = [runState EXCEPT ![adminReq[a]] = UpdateRunState(@, adminAt[a])]
  /\ Return(a)
  /\ UNCHANGED <<reqVars, execState, park, listVars, finVars, hostVars, cancelled>>

DenyGet(a, q) ==
  /\ adminAt[a] = "idle" /\ a \notin owes
  /\ reqState[q] = "pending"
  /\ adminReq' = [adminReq EXCEPT ![a] = q]
  /\ GoTo(a, "deny")
  /\ UNCHANGED <<reqVars, rowVars, park, listVars, finVars, hostVars, cancelled>>

DenyDecide(a) ==
  /\ adminAt[a] = "deny"
  /\ DecideApprovalRequest(adminReq[a], "denied")
  /\ Proceed(a, reqState[adminReq[a]] = "pending", "failed")
  /\ UNCHANGED <<late, rowVars, park, listVars, finVars, hostVars, cancelled>>

\* Bug: the aggregate is not recomputed.
FinalizeParked_RunOnly(t, q) ==
  /\ runState' = [runState EXCEPT ![q] = UpdateRunState(@, "failed")]
  /\ UNCHANGED owes

\* finalizeParked: the run fails, and OnExecExpired finalizes the execution.
FinalizeParked(t, q) ==
  /\ runState' = [runState EXCEPT ![q] = UpdateRunState(@, "failed")]
  /\ owes' = owes \cup {t}

DenyFinalize(a) ==
  /\ adminAt[a] = "failed"
  /\ FinalizeParked(a, adminReq[a])
  /\ Return(a)
  /\ UNCHANGED <<reqVars, execState, park, listVars, finMu, hostVars, cancelled>>

-----------------------------------------------------------------------------
\* List: ExpireApprovalRequests selects the pending requests past their TTL,
\* updates them one by one, and returns all it selected.
ExpireSelect(l) ==
  /\ pass[l] = 0
  /\ pass' = [pass EXCEPT ![l] = 1]
  /\ selected' = [selected EXCEPT ![l] = {q \in Requests : reqState[q] = "pending" /\ late[q]}]
  /\ UNCHANGED <<reqVars, rowVars, park, adminVars, expired, finVars, hostVars, cancelled>>

\* Bug: the UPDATE without AND state='pending'.
ExpireUpdate_Unguarded(l, q) ==
  /\ q \in selected[l]
  /\ reqState' = [reqState EXCEPT ![q] = "expired"]
  /\ selected' = [selected EXCEPT ![l] = @ \ {q}]
  /\ expired' = [expired EXCEPT ![l] = @ \cup {q}]
  /\ UNCHANGED <<late, rowVars, park, adminVars, pass, finVars, hostVars, cancelled>>

ExpireUpdate(l, q) ==
  /\ q \in selected[l]
  /\ reqState' = [reqState EXCEPT ![q] = IF @ = "pending" THEN "expired" ELSE @]
  /\ selected' = [selected EXCEPT ![l] = @ \ {q}]
  /\ expired' = [expired EXCEPT ![l] = @ \cup {q}]
  /\ UNCHANGED <<late, rowVars, park, adminVars, pass, finVars, hostVars, cancelled>>

\* List finalizes the runs of the rows returned to it.
ExpireFinalize(l, q) ==
  /\ pass[l] = 1 /\ selected[l] = {} /\ l \notin owes
  /\ q \in expired[l]
  /\ FinalizeParked(l, q)
  /\ expired' = [expired EXCEPT ![l] = @ \ {q}]
  /\ UNCHANGED <<reqVars, execState, park, adminVars, pass, selected, finMu, hostVars, cancelled>>

\* ListApprovalRequests expires once more and drops the rows it is given.
ListSelect(l) ==
  /\ pass[l] = 1 /\ selected[l] = {} /\ expired[l] = {} /\ l \notin owes
  /\ pass' = [pass EXCEPT ![l] = 2]
  /\ selected' = [selected EXCEPT ![l] = {q \in Requests : reqState[q] = "pending" /\ late[q]}]
  /\ UNCHANGED <<reqVars, rowVars, park, adminVars, expired, finVars, hostVars, cancelled>>

ListReturn(l) ==
  /\ pass[l] = 2 /\ selected[l] = {}
  /\ pass' = [pass EXCEPT ![l] = 0]
  /\ expired' = [expired EXCEPT ![l] = {}]
  /\ UNCHANGED <<reqVars, rowVars, park, adminVars, selected, finVars, hostVars, cancelled>>

-----------------------------------------------------------------------------
\* The host's result for a command it was sent, and the hook that finalizes.
HandleResult(q, s) ==
  /\ sent[q] > 0 /\ reported[q] = {} /\ "stream" \notin owes
  /\ reported' = [reported EXCEPT ![q] = {s}]
  /\ runState' = [runState EXCEPT ![q] = UpdateRunState(@, s)]
  /\ owes' = owes \cup {"stream"}
  /\ UNCHANGED <<reqVars, execState, park, adminVars, listVars, finMu, sent, cancelled>>

\* CancelExecution: every row that is not terminal, then the execution.
CancelNonTerminalRuns ==
  /\ cancelled = "no" /\ execState \notin SettledExecStates
  /\ cancelled' = "rows"
  /\ runState' = [q \in Requests |-> CancelNonTerminalRun(runState[q])]
  /\ UNCHANGED <<reqVars, execState, park, adminVars, listVars, finVars, hostVars>>

CancelUpdateExecution ==
  /\ cancelled = "rows"
  /\ cancelled' = "yes"
  /\ execState' = "cancelled"
  /\ UNCHANGED <<reqVars, runState, park, adminVars, listVars, finVars, hostVars>>

\* FinalizeExecution under finMu: read the rows, then write their aggregate
\* unless one of them was cancelled.
FinRead(t) ==
  /\ t \in owes /\ finMu = {}
  /\ LET rows == {runState[q] : q \in Requests} \ {"none"}
     IN  finMu' = {<<t, IF "cancelled" \in rows THEN "keep" ELSE Aggregate(rows)>>}
  /\ UNCHANGED <<reqVars, rowVars, park, adminVars, listVars, owes, hostVars, cancelled>>

FinWrite ==
  \E job \in finMu :
    /\ execState' = IF job[2] = "keep" THEN execState ELSE job[2]
    /\ finMu' = {}
    /\ owes' = owes \ {job[1]}
    /\ UNCHANGED <<reqVars, runState, park, adminVars, listVars, hostVars, cancelled>>

Next ==
  \/ \E q \in Requests : CreateExecutionRun(q) \/ NewRequest(q) \/ ParkRun(q) \/ PassTTL(q)
  \/ \E a \in Admins :
       \/ \E q \in Requests : ApproveGet(a, q) \/ DenyGet(a, q)
       \/ ApproveCheckRun(a) \/ ApproveDecide(a) \/ MarkApproved(a)
       \/ \E how \in {"delivered", "queued_offline", "not_delivered"} : SendApproved(a, how)
       \/ DenyDecide(a) \/ DenyFinalize(a)
  \/ \E l \in Listers :
       \/ ExpireSelect(l) \/ ListSelect(l) \/ ListReturn(l)
       \/ \E q \in Requests : ExpireUpdate(l, q) \/ ExpireFinalize(l, q)
  \/ \E q \in Requests, s \in Results : HandleResult(q, s)
  \/ CancelNonTerminalRuns \/ CancelUpdateExecution
  \/ \E t \in Threads : FinRead(t)
  \/ FinWrite

Spec == Init /\ [][Next]_vars

-----------------------------------------------------------------------------
TypeOK ==
  /\ reqState \in [Requests -> {"none", "pending", "approved", "denied", "expired"}]
  /\ late \in [Requests -> BOOLEAN]
  /\ runState \in [Requests -> RunStates]
  /\ execState \in ExecStates
  /\ park \in [Requests -> {"todo", "row", "requested", "done"}]
  /\ adminAt \in [Admins -> Deciding]
  /\ adminReq \in [Admins -> Requests \cup {"none"}]
  /\ pass \in [Listers -> 0..2]
  /\ selected \in [Listers -> SUBSET Requests]
  /\ expired \in [Listers -> SUBSET Requests]
  /\ owes \subseteq Threads
  /\ finMu \subseteq Threads \X (ExecStates \cup {"keep"})
  /\ sent \in [Requests -> Nat]
  /\ reported \in [Requests -> SUBSET Results]
  /\ cancelled \in {"no", "rows", "yes"}

\* The stored payload is dispatched at most once and only for a request that
\* is approved, however approve, deny and list calls interleave: the decision
\* is claimed by the guarded UPDATE before the send.
ApprovedOnce ==
  \A q \in Requests : sent[q] <= 1 /\ (sent[q] > 0 => reqState[q] = "approved")

\* "An expired approval can never be retroactively honored": a decision, once
\* written, is never replaced by another one.
DecisionFinal ==
  [][\A q \in Requests :
       reqState[q] \in {"approved", "denied", "expired"} => reqState'[q] = reqState[q]]_vars

Quiet ==
  /\ owes = {} /\ cancelled # "rows"
  /\ \A q \in Requests : park[q] = "done"
  /\ \A a \in Admins : adminAt[a] = "idle"
  /\ \A l \in Listers : pass[l] = 0

\* Denying the parked runs ends them and their execution: once the handlers
\* have returned, a denied request's run is final, and when every request was
\* denied the execution, unless it was cancelled, has failed (field feedback F14).
DenySettles ==
  Quiet =>
    /\ \A q \in Requests : reqState[q] = "denied" => runState[q] \in FinalStates
    /\ cancelled = "no" /\ (\A q \in Requests : reqState[q] = "denied")
         => execState = "failed"

\* A run whose request was approved fails only when the host said so: the
\* listing fails only runs whose requests it has expired.
ApprovedRunsAreTheHosts ==
  \A q \in Requests :
    reqState[q] = "approved" /\ runState[q] = "failed" => "failed" \in reported[q]
=============================================================================
