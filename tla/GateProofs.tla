----------------------------- MODULE GateProofs -----------------------------
(***************************************************************************)
(* Proofs about what stands before a command: the stored payload of a      *)
(* request is dispatched at most once and only after its approval, a       *)
(* decision is never replaced and a denial settles the run (Approvals);    *)
(* gate, approval and guardrail reach one verdict (Policy); and whatever   *)
(* the agent enforces is a rule set that was in force at some time         *)
(* (PolicySync), for every pool of rules, number of requests, handlers,    *)
(* administrators, edits, streams and crashes.                             *)
(***************************************************************************)
EXTENDS Approvals, Policy, PolicySync, FiniteSetTheorems, TLAPS

-----------------------------------------------------------------------------
(* Approvals. *)

\* A request is inserted once, by the dispatcher that created its run.
Fresh ==
  /\ reqState \in [Requests -> {"none", "pending", "approved", "denied", "expired"}]
  /\ park \in [Requests -> {"todo", "row", "requested", "done"}]
  /\ \A q \in Requests : park[q] \in {"todo", "row"} => reqState[q] = "none"

DecidedStay ==
  \A q \in Requests :
    reqState[q] \in {"approved", "denied", "expired"} => reqState'[q] = reqState[q]

\* Only a pending request is decided or expired.
LEMMA FreshStep == Fresh /\ [Next]_vars => Fresh' /\ DecidedStay
<1> SUFFICES ASSUME Fresh, [Next]_vars PROVE Fresh' /\ DecidedStay
  OBVIOUS
<1> USE DEF Fresh, DecidedStay
<1>1. ASSUME NEW q \in Requests, CreateExecutionRun(q) \/ NewRequest(q) \/ ParkRun(q)
      PROVE Fresh' /\ DecidedStay
  BY <1>1 DEF CreateExecutionRun, NewRequest, ParkRun, reqVars
<1>2. ASSUME NEW l \in Listers, NEW q \in Requests, ExpireUpdate(l, q) PROVE Fresh' /\ DecidedStay
  BY <1>2 DEF ExpireUpdate
<1>3. ASSUME UNCHANGED <<reqState, park>> PROVE Fresh' /\ DecidedStay
  BY <1>3
<1>4. ASSUME NEW a \in Admins, ApproveDecide(a) \/ DenyDecide(a) PROVE Fresh' /\ DecidedStay
  BY <1>4 DEF ApproveDecide, DenyDecide, DecideApprovalRequest
<1>5. \/ UNCHANGED <<reqState, park>>
      \/ \E q \in Requests : CreateExecutionRun(q) \/ NewRequest(q) \/ ParkRun(q)
      \/ \E a \in Admins : ApproveDecide(a) \/ DenyDecide(a)
      \/ \E l \in Listers, q \in Requests : ExpireUpdate(l, q)
  BY DEF Next, vars, reqVars, PassTTL, ApproveGet, DenyGet, ApproveCheckRun, SendApproved,
         MarkApproved, DenyFinalize, ExpireSelect, ExpireFinalize, ListSelect, ListReturn,
         HandleResult, CancelNonTerminalRuns, CancelUpdateExecution, FinRead, FinWrite
<1> QED BY <1>1, <1>2, <1>3, <1>4, <1>5

\* What an approving handler knows between its guarded UPDATE and its send:
\* the request is approved, nothing was sent, and no other handler is there.
Sending(a, q) == adminAt[a] = "send" /\ adminReq[a] = q

Claims ==
  /\ Fresh
  /\ adminAt \in [Admins -> Deciding]
  /\ adminReq \in [Admins -> Requests \cup {"none"}]
  /\ sent \in [Requests -> Nat]
  /\ \A a \in Admins : adminAt[a] # "idle" => adminReq[a] \in Requests
  /\ \A q \in Requests :
       /\ sent[q] <= 1
       /\ sent[q] > 0 => reqState[q] = "approved"
       /\ \A a \in Admins : Sending(a, q) => reqState[q] = "approved" /\ sent[q] = 0
       /\ \A a, b \in Admins : Sending(a, q) /\ Sending(b, q) => a = b

\* A handler reaches its send only by having moved a pending request.
LEMMA ClaimsStep == Claims /\ [Next]_vars => Claims'
<1> SUFFICES ASSUME Claims, [Next]_vars PROVE Claims'
  OBVIOUS
<1>0. Fresh'
  BY FreshStep DEF Claims
<1> USE <1>0 DEF Claims, Sending, Deciding, Fresh
<1>1. ASSUME NEW q \in Requests, NewRequest(q) PROVE Claims'
  BY <1>1 DEF NewRequest, adminVars, hostVars
<1>2. ASSUME NEW a \in Admins, NEW q \in Requests, ApproveGet(a, q) \/ DenyGet(a, q)
      PROVE Claims'
  BY <1>2 DEF ApproveGet, DenyGet, GoTo, reqVars, hostVars
<1>3. ASSUME NEW a \in Admins, ApproveCheckRun(a) PROVE Claims'
  BY <1>3 DEF ApproveCheckRun, Proceed, Return, GoTo, reqVars, hostVars
<1>4. ASSUME NEW a \in Admins, ApproveDecide(a) PROVE Claims'
  BY <1>4 DEF ApproveDecide, DecideApprovalRequest, Proceed, Return, GoTo, hostVars
<1>5. ASSUME NEW a \in Admins, NEW how \in {"delivered", "queued_offline", "not_delivered"},
             SendApproved(a, how)
      PROVE Claims'
  BY <1>5 DEF SendApproved, GoTo, reqVars
<1>6. ASSUME NEW a \in Admins, MarkApproved(a) PROVE Claims'
  BY <1>6 DEF MarkApproved, Return, reqVars, hostVars
<1>7. ASSUME NEW a \in Admins, DenyDecide(a) PROVE Claims'
  BY <1>7 DEF DenyDecide, DecideApprovalRequest, Proceed, Return, GoTo, hostVars
<1>8. ASSUME NEW a \in Admins, DenyFinalize(a) PROVE Claims'
  BY <1>8 DEF DenyFinalize, Return, reqVars, hostVars
<1>9. ASSUME NEW l \in Listers, NEW q \in Requests, ExpireUpdate(l, q) PROVE Claims'
  BY <1>9 DEF ExpireUpdate, adminVars, hostVars
<1>10. ASSUME UNCHANGED <<reqState, adminVars, sent>> PROVE Claims'
  BY <1>10 DEF adminVars
<1>11. \/ UNCHANGED <<reqState, adminVars, sent>>
       \/ \E q \in Requests : NewRequest(q)
       \/ \E a \in Admins :
            \/ \E q \in Requests : ApproveGet(a, q) \/ DenyGet(a, q)
            \/ ApproveCheckRun(a) \/ ApproveDecide(a) \/ MarkApproved(a)
            \/ \E how \in {"delivered", "queued_offline", "not_delivered"} : SendApproved(a, how)
            \/ DenyDecide(a) \/ DenyFinalize(a)
       \/ \E l \in Listers, q \in Requests : ExpireUpdate(l, q)
  BY DEF Next, vars, reqVars, adminVars, hostVars, CreateExecutionRun, ParkRun, PassTTL,
         ExpireSelect, ExpireFinalize, ListSelect, ListReturn, HandleResult,
         CancelNonTerminalRuns, CancelUpdateExecution, FinRead, FinWrite
<1> QED BY <1>1, <1>2, <1>3, <1>4, <1>5, <1>6, <1>7, <1>8, <1>9, <1>10, <1>11

\* DispatchApprovedCommand is reached at most once per request, and only for
\* an approved one, whatever approve, deny, list and cancel calls do.
THEOREM DispatchedOnce == Spec => []ApprovedOnce
<1>1. Init => Claims
  BY DEF Init, Claims, Fresh, Sending, Deciding
<1>2. Claims /\ [Next]_vars => Claims'
  BY ClaimsStep
<1>3. Claims => ApprovedOnce
  BY DEF Claims, ApprovedOnce
<1> QED BY <1>1, <1>2, <1>3, PTL DEF Spec

\* approved, denied and expired are final: only a pending row is decided or
\* expired, and a request is inserted once.
THEOREM DecisionsStay == Spec => DecisionFinal
<1>1. Init => Fresh
  BY DEF Init, Fresh
<1>2. Fresh /\ [Next]_vars => Fresh'
  BY FreshStep
<1>3. Fresh /\ [Next]_vars => [DecidedStay]_vars
  BY FreshStep
<1> QED BY <1>1, <1>2, <1>3, PTL DEF Spec, DecisionFinal, DecidedStay
-----------------------------------------------------------------------------
(* Denying ends the parked runs and their execution *)

\* A handler owes no finalization while it works on a request, and the rows
\* that FinalizeExecution holds finMu for are owed by the thread that read them.
Owed ==
  /\ \A a \in Admins : adminAt[a] # "idle" => a \notin owes
  /\ \A job \in finMu : job[1] \in owes

\* A run leaves the parked states by an approval, a denial, an expiry or a cancel.
Parked ==
  /\ runState \in [Requests -> RunStates]
  /\ \A a \in Admins : adminAt[a] \in {"send", "delivered", "queued_offline", "not_delivered"}
                         => reqState[adminReq[a]] = "approved"
  /\ \A q \in Requests :
       /\ park[q] = "todo" <=> runState[q] = "none"
       /\ reqState[q] # "approved" =>
            runState[q] \in {"none", "queued", "awaiting_approval", "failed"}
                              \cup (IF cancelled = "no" THEN {} ELSE {"cancelled"})

\* A denied request's run has ended, or the handler that denied it ends it next.
DeniedEnds ==
  \A q \in Requests : reqState[q] = "denied" =>
    \/ runState[q] \in {"failed", "cancelled"}
    \/ \E a \in Admins : adminAt[a] = "failed" /\ adminReq[a] = q

\* Once every run has failed, the execution has, or a thread still owes it a
\* finalization that has not read older rows.
FailurePropagates ==
  (\A q \in Requests : runState[q] = "failed") /\ cancelled = "no" =>
    \/ execState = "failed" /\ \A job \in finMu : job[2] = "failed"
    \/ \E t \in owes : \A job \in finMu : job[1] = t => job[2] = "failed"

SettleInv == Claims /\ Owed /\ Parked /\ DeniedEnds /\ FailurePropagates
\* Only a thread itself takes on a finalization, and a handler does so as it returns.
LEMMA OwedStep ==
  ASSUME Claims, Owed, [Next]_vars
  PROVE  Owed'
<1> USE DEF Owed
<1> adminAt \in [Admins -> Deciding]
  BY DEF Claims
<1>1. ASSUME NEW a \in Admins, NEW q \in Requests, ApproveGet(a, q) \/ DenyGet(a, q)
      PROVE  Owed'
  BY <1>1 DEF ApproveGet, DenyGet, GoTo, finVars
<1>2. ASSUME NEW a \in Admins, \/ ApproveCheckRun(a) \/ ApproveDecide(a) \/ DenyDecide(a)
                               \/ \E how \in {"delivered", "queued_offline", "not_delivered"} :
                                    SendApproved(a, how)
      PROVE  Owed'
  <2>1. /\ adminAt[a] # "idle" /\ UNCHANGED finVars
        /\ \E step : adminAt' = [adminAt EXCEPT ![a] = step]
    BY <1>2 DEF ApproveCheckRun, ApproveDecide, DenyDecide, SendApproved, Proceed, Return, GoTo
  <2> QED BY <2>1 DEF finVars
<1>3. ASSUME NEW a \in Admins, MarkApproved(a)
      PROVE  Owed'
  BY <1>3 DEF MarkApproved, Return, finVars
<1>4. ASSUME NEW a \in Admins, DenyFinalize(a)
      PROVE  Owed'
  BY <1>4 DEF DenyFinalize, FinalizeParked, Return
<1>5. ASSUME NEW l \in Listers, NEW q \in Requests, ExpireFinalize(l, q)
      PROVE  Owed'
  BY <1>5, HandlersAssumption DEF ExpireFinalize, FinalizeParked, adminVars
<1>6. ASSUME NEW q \in Requests, NEW s \in Results, HandleResult(q, s)
      PROVE  Owed'
  BY <1>6, HandlersAssumption DEF HandleResult, adminVars
<1>7. ASSUME NEW t \in Threads, FinRead(t)
      PROVE  Owed'
  BY <1>7 DEF FinRead, adminVars
<1>8. CASE FinWrite
  BY <1>8 DEF FinWrite, adminVars
<1>9. CASE UNCHANGED <<adminAt, owes, finMu>>
  BY <1>9
<1> QED BY <1>1, <1>2, <1>3, <1>4, <1>5, <1>6, <1>7, <1>8, <1>9
        DEF Next, vars, adminVars, finVars, CreateExecutionRun, NewRequest, ParkRun, PassTTL,
            ExpireSelect, ListSelect, ListReturn, ExpireUpdate, CancelNonTerminalRuns,
            CancelUpdateExecution

\* The rows of requests that nobody approved stay within the parked states.
LEMMA ParkedStep ==
  ASSUME Claims, Parked, [Next]_vars
  PROVE  Parked'
<1>0. /\ adminAt \in [Admins -> Deciding] /\ adminReq \in [Admins -> Requests \cup {"none"}]
      /\ reqState \in [Requests -> {"none", "pending", "approved", "denied", "expired"}]
      /\ park \in [Requests -> {"todo", "row", "requested", "done"}]
      /\ \A a \in Admins : adminAt[a] # "idle" => adminReq[a] \in Requests
      /\ \A q \in Requests : sent[q] > 0 => reqState[q] = "approved"
      /\ \A q \in Requests : park[q] \in {"todo", "row"} => reqState[q] = "none"
      /\ runState \in [Requests -> RunStates]
  BY DEF Claims, Fresh, Parked
<1>1. \A q \in Requests : reqState[q] = "approved" => reqState'[q] = "approved"
  BY FreshStep DEF Claims, DecidedStay
<1> DEFINE Row(q) == /\ park[q] = "todo" <=> runState[q] = "none"
                     /\ reqState[q] # "approved" =>
                          runState[q] \in {"none", "queued", "awaiting_approval", "failed"}
                              \cup (IF cancelled = "no" THEN {} ELSE {"cancelled"})
           Handlers == \A a \in Admins :
              adminAt[a] \in {"send", "delivered", "queued_offline", "not_delivered"}
                         => reqState[adminReq[a]] = "approved"
           Rows == runState \in [Requests -> RunStates] /\ \A q \in Requests : Row(q)
<1>2. /\ Rows /\ Handlers
      /\ Rows' /\ Handlers' => Parked'
  BY DEF Parked
<1> RowStates \subseteq RunStates /\ {"queued", "awaiting_approval", "failed", "cancelled",
      "delivered", "queued_offline", "not_delivered"} \subseteq RunStates
    /\ Results \subseteq RunStates
  BY HandlersAssumption DEF RowStates, RunStates, OpenStates, InFlightStates, FinalStates,
     ResultStates, GiveUpStates
<1>3. ASSUME NEW q \in Requests, NEW new \in RunStates \ {"none"}, UNCHANGED <<park, cancelled>>,
             runState' = [runState EXCEPT ![q] = UpdateRunState(@, new)],
             reqState[q] = "approved" \/ new \in {"awaiting_approval", "failed"}
      PROVE  Rows'
  <2>1. \A p \in Requests : reqState'[p] # "approved" => reqState[p] # "approved"
    BY <1>1
  <2> QED BY <1>0, <1>2, <1>3, <2>1 DEF UpdateRunState, OpenStates, InFlightStates
<1>4. ASSUME UNCHANGED <<park, cancelled, runState>>
      PROVE  Rows'
  <2>1. \A p \in Requests : reqState'[p] # "approved" => reqState[p] # "approved"
    BY <1>1
  <2> QED BY <1>2, <1>4, <2>1
<1>5. ASSUME UNCHANGED adminVars
      PROVE  Handlers'
  BY <1>0, <1>1, <1>2, <1>5 DEF adminVars
<1>6. ASSUME NEW q \in Requests, CreateExecutionRun(q)
      PROVE  Rows'
  BY <1>0, <1>2, <1>6 DEF CreateExecutionRun, reqVars
<1>7. ASSUME NEW q \in Requests, NewRequest(q)
      PROVE  Rows'
  <2>1. \A p \in Requests : reqState'[p] # "approved" => reqState[p] # "approved"
    BY <1>1
  <2>2. UNCHANGED <<cancelled, runState>> /\ park' = [park EXCEPT ![q] = "requested"] /\ park[q] = "row"
    BY <1>7 DEF NewRequest, rowVars
  <2> QED BY <1>0, <1>2, <2>1, <2>2
<1>8. ASSUME NEW q \in Requests, ParkRun(q)
      PROVE  Rows'
  <2>1. UNCHANGED <<cancelled, reqState>> /\ park' = [park EXCEPT ![q] = "done"] /\ park[q] = "requested"
        /\ runState' = [runState EXCEPT ![q] = UpdateRunState(@, "awaiting_approval")]
    BY <1>8 DEF ParkRun, reqVars
  <2> QED BY <1>0, <1>2, <2>1 DEF UpdateRunState
<1>9. ASSUME NEW a \in Admins, MarkApproved(a)
      PROVE  Rows' /\ Handlers'
  <2>1. adminReq[a] \in Requests /\ reqState[adminReq[a]] = "approved" /\ adminAt[a] \in RunStates \ {"none"}
    BY <1>0, <1>2, <1>9 DEF MarkApproved
  <2>2. UNCHANGED <<park, cancelled, reqState>>
        /\ runState' = [runState EXCEPT ![adminReq[a]] = UpdateRunState(@, adminAt[a])]
    BY <1>9 DEF MarkApproved, reqVars
  <2>3. Handlers'
    BY <1>0, <1>2, <1>9 DEF MarkApproved, Return, reqVars
  <2> QED BY <1>3, <2>1, <2>2, <2>3
<1>10. ASSUME NEW a \in Admins, DenyFinalize(a)
       PROVE  Rows' /\ Handlers'
  <2>1. adminReq[a] \in Requests /\ "failed" \in RunStates \ {"none"}
    BY <1>0, <1>10 DEF DenyFinalize
  <2>2. UNCHANGED <<park, cancelled>>
        /\ runState' = [runState EXCEPT ![adminReq[a]] = UpdateRunState(@, "failed")]
    BY <1>10 DEF DenyFinalize, FinalizeParked
  <2>3. Handlers'
    BY <1>0, <1>2, <1>10 DEF DenyFinalize, Return, reqVars
  <2> QED BY <1>3, <2>1, <2>2, <2>3
<1>11. ASSUME NEW l \in Listers, NEW q \in Requests, ExpireFinalize(l, q)
       PROVE  Rows'
  <2>1. UNCHANGED <<park, cancelled>>
        /\ runState' = [runState EXCEPT ![q] = UpdateRunState(@, "failed")]
    BY <1>11 DEF ExpireFinalize, FinalizeParked
  <2>2. "failed" \in RunStates \ {"none"}
    OBVIOUS
  <2> QED BY <1>3, <2>1, <2>2
<1>12. ASSUME NEW q \in Requests, NEW s \in Results, HandleResult(q, s)
       PROVE  Rows'
  <2>1. reqState[q] = "approved" /\ s \in RunStates \ {"none"}
    BY <1>0, <1>12, HandlersAssumption DEF HandleResult, ResultStates
  <2> QED BY <1>3, <1>12, <2>1 DEF HandleResult
<1>13. CASE CancelNonTerminalRuns
  <2>1. UNCHANGED <<reqState, park>> /\ cancelled' = "rows"
        /\ runState' = [q \in Requests |-> CancelNonTerminalRun(runState[q])]
    BY <1>13 DEF CancelNonTerminalRuns, reqVars
  <2>2. Rows'
    BY <1>0, <1>2, <2>1 DEF CancelNonTerminalRun, OpenStates, InFlightStates
  <2> QED BY <1>2, <1>5, <1>13, <2>2 DEF CancelNonTerminalRuns
<1>14. CASE CancelUpdateExecution
  <2>1. UNCHANGED <<reqState, park, runState>> /\ cancelled' = "yes"
    BY <1>14 DEF CancelUpdateExecution, reqVars
  <2>2. Rows'
    BY <1>0, <1>2, <2>1
  <2> QED BY <1>2, <1>5, <1>14, <2>2 DEF CancelUpdateExecution
<1>15. ASSUME NEW a \in Admins, NEW q \in Requests, ApproveGet(a, q) \/ DenyGet(a, q)
       PROVE  Handlers' /\ UNCHANGED <<park, cancelled, runState>>
  BY <1>0, <1>2, <1>15 DEF ApproveGet, DenyGet, GoTo, reqVars, rowVars
<1>16. ASSUME NEW a \in Admins, ApproveCheckRun(a) \/ DenyDecide(a)
       PROVE  Handlers' /\ UNCHANGED <<park, cancelled, runState>>
  <2>1. /\ \E pc \in {"idle", "approve", "failed"} : adminAt' = [adminAt EXCEPT ![a] = pc]
        /\ \A b \in Admins : b # a => adminReq'[b] = adminReq[b]
        /\ UNCHANGED <<park, cancelled, runState>>
    BY <1>0, <1>16 DEF ApproveCheckRun, DenyDecide, Proceed, Return, GoTo, rowVars
  <2> QED BY <1>0, <1>1, <1>2, <2>1
<1>17. ASSUME NEW a \in Admins, ApproveDecide(a)
       PROVE  Handlers' /\ UNCHANGED <<park, cancelled, runState>>
  BY <1>0, <1>1, <1>2, <1>17 DEF ApproveDecide, DecideApprovalRequest, Proceed, Return, GoTo, rowVars
<1>18. ASSUME NEW a \in Admins, NEW how \in {"delivered", "queued_offline", "not_delivered"},
              SendApproved(a, how)
       PROVE  Handlers' /\ UNCHANGED <<park, cancelled, runState>>
  BY <1>0, <1>2, <1>18 DEF SendApproved, GoTo, reqVars, rowVars
<1>19. CASE UNCHANGED <<adminVars, park, cancelled, runState>>
  BY <1>2, <1>4, <1>5, <1>19
<1>20. ASSUME NEW q \in Requests, CreateExecutionRun(q) \/ NewRequest(q) \/ ParkRun(q)
       PROVE  UNCHANGED adminVars
  BY <1>20 DEF CreateExecutionRun, NewRequest, ParkRun
<1>21. (\E l \in Listers, q \in Requests : ExpireFinalize(l, q))
          \/ (\E q \in Requests, s \in Results : HandleResult(q, s)) => UNCHANGED adminVars
  BY DEF ExpireFinalize, HandleResult
<1>22. \/ UNCHANGED <<adminVars, park, cancelled, runState>>
       \/ \E q \in Requests : CreateExecutionRun(q) \/ NewRequest(q) \/ ParkRun(q)
       \/ \E a \in Admins :
            \/ \E q \in Requests : ApproveGet(a, q) \/ DenyGet(a, q)
            \/ ApproveCheckRun(a) \/ ApproveDecide(a) \/ MarkApproved(a)
            \/ \E how \in {"delivered", "queued_offline", "not_delivered"} : SendApproved(a, how)
            \/ DenyDecide(a) \/ DenyFinalize(a)
       \/ \E l \in Listers, q \in Requests : ExpireFinalize(l, q)
       \/ \E q \in Requests, s \in Results : HandleResult(q, s)
       \/ CancelNonTerminalRuns \/ CancelUpdateExecution
  BY DEF Next, vars, rowVars, PassTTL, ExpireSelect, ListSelect, ListReturn, ExpireUpdate, FinRead, FinWrite
<1> HIDE DEF Rows, Handlers
<1> QED BY <1>2, <1>4, <1>5, <1>6, <1>7, <1>8, <1>9, <1>10, <1>11, <1>12, <1>13, <1>14,
           <1>15, <1>16, <1>17, <1>18, <1>19, <1>20, <1>21, <1>22

\* A run that failed or was cancelled stays so, and a cancel is not undone.
LEMMA EndsStay ==
  ASSUME Parked, [Next]_vars, NEW q \in Requests
  PROVE  /\ runState[q] \in {"failed", "cancelled"} => runState'[q] = runState[q]
         /\ cancelled' = "no" => cancelled = "no"
<1>0. /\ runState \in [Requests -> RunStates]
      /\ \A p \in Requests : park[p] = "todo" => runState[p] = "none"
  BY DEF Parked
<1>1. "failed" \notin OpenStates /\ "cancelled" \notin OpenStates
  BY DEF OpenStates, InFlightStates
<1>2. \/ UNCHANGED runState
      \/ \E p, new : runState' = [runState EXCEPT ![p] = UpdateRunState(@, new)]
      \/ \E p \in Requests : park[p] = "todo" /\ runState' = [runState EXCEPT ![p] = "queued"]
      \/ runState' = [p \in Requests |-> CancelNonTerminalRun(runState[p])]
  <2>1. ASSUME NEW p \in Requests, CreateExecutionRun(p)
        PROVE  park[p] = "todo" /\ runState' = [runState EXCEPT ![p] = "queued"]
    BY <2>1 DEF CreateExecutionRun
  <2>2. ASSUME NEW p \in Requests, ParkRun(p)
        PROVE  \E x, new : runState' = [runState EXCEPT ![x] = UpdateRunState(@, new)]
    BY <2>2 DEF ParkRun
  <2>3. ASSUME NEW a \in Admins, MarkApproved(a)
        PROVE  \E x, new : runState' = [runState EXCEPT ![x] = UpdateRunState(@, new)]
    BY <2>3 DEF MarkApproved
  <2>4. ASSUME NEW a \in Admins, DenyFinalize(a)
        PROVE  \E x, new : runState' = [runState EXCEPT ![x] = UpdateRunState(@, new)]
    BY <2>4 DEF DenyFinalize, FinalizeParked
  <2>5. ASSUME NEW l \in Listers, NEW p \in Requests, ExpireFinalize(l, p)
        PROVE  \E x, new : runState' = [runState EXCEPT ![x] = UpdateRunState(@, new)]
    BY <2>5 DEF ExpireFinalize, FinalizeParked
  <2>6. ASSUME NEW p \in Requests, NEW s \in Results, HandleResult(p, s)
        PROVE  \E x, new : runState' = [runState EXCEPT ![x] = UpdateRunState(@, new)]
    BY <2>6 DEF HandleResult
  <2>7. CASE CancelNonTerminalRuns
    BY <2>7 DEF CancelNonTerminalRuns
  <2>8. CASE UNCHANGED runState
    BY <2>8
  <2> QED BY <2>1, <2>2, <2>3, <2>4, <2>5, <2>6, <2>7, <2>8
          DEF Next, vars, rowVars, NewRequest, PassTTL, ApproveGet, DenyGet, ApproveCheckRun,
              ApproveDecide, SendApproved, DenyDecide, ExpireSelect, ListSelect, ListReturn,
              ExpireUpdate, CancelUpdateExecution, FinRead, FinWrite
<1>3. runState[q] \in {"failed", "cancelled"} => runState'[q] = runState[q]
  BY <1>0, <1>1, <1>2 DEF UpdateRunState, CancelNonTerminalRun
<1>4. cancelled' = "no" => cancelled = "no"
  BY DEF Next, vars, CreateExecutionRun, NewRequest, ParkRun, PassTTL, ApproveGet, DenyGet,
         ApproveCheckRun, ApproveDecide, SendApproved, MarkApproved, DenyDecide, DenyFinalize,
         ExpireSelect, ListSelect, ListReturn, ExpireUpdate, ExpireFinalize, HandleResult,
         CancelNonTerminalRuns, CancelUpdateExecution, FinRead, FinWrite
<1> QED BY <1>3, <1>4

\* The handler that denied a request ends its run; nobody else takes it over.
LEMMA DeniedStep ==
  ASSUME Claims, Parked, DeniedEnds, [Next]_vars
  PROVE  DeniedEnds'
<1>0. /\ adminAt \in [Admins -> Deciding] /\ adminReq \in [Admins -> Requests \cup {"none"}]
      /\ reqState \in [Requests -> {"none", "pending", "approved", "denied", "expired"}]
      /\ runState \in [Requests -> RunStates]
      /\ \A a \in Admins : adminAt[a] # "idle" => adminReq[a] \in Requests
      /\ \A q \in Requests : park[q] \in {"todo", "row"} => reqState[q] = "none"
  BY DEF Claims, Fresh, Parked
<1> SUFFICES ASSUME NEW q \in Requests, reqState'[q] = "denied",
                    runState'[q] \notin {"failed", "cancelled"}
             PROVE  \E a \in Admins : adminAt'[a] = "failed" /\ adminReq'[a] = q
  BY DEF DeniedEnds
<1>1. runState[q] \notin {"failed", "cancelled"}
  BY EndsStay
<1>2. CASE reqState[q] = "denied"
  <2>1. PICK a \in Admins : adminAt[a] = "failed" /\ adminReq[a] = q
    BY <1>1, <1>2 DEF DeniedEnds
  <2>2. ~DenyFinalize(a)
    <3> SUFFICES ASSUME DenyFinalize(a) PROVE FALSE
      OBVIOUS
    <3>1. runState'[q] = UpdateRunState(runState[q], "failed")
      BY <1>0, <2>1 DEF DenyFinalize, FinalizeParked
    <3>2. runState[q] \in OpenStates
      <4>1. reqState[q] # "approved" /\ reqState[q] # "none" /\ park[q] # "todo"
        BY <1>0, <1>2
      <4> QED BY <1>1, <4>1 DEF Parked, OpenStates
    <3> QED BY <3>1, <3>2 DEF UpdateRunState
  <2>3. \A b \in Admins : DenyFinalize(b) => b # a
    BY <2>2
  <2>4. adminAt'[a] = adminAt[a] /\ adminReq'[a] = adminReq[a]
    <3>1. ASSUME NEW b \in Admins, NEW p \in Requests, ApproveGet(b, p) \/ DenyGet(b, p)
          PROVE  adminAt'[a] = adminAt[a] /\ adminReq'[a] = adminReq[a]
      BY <1>0, <2>1, <3>1 DEF ApproveGet, DenyGet, GoTo
    <3>2. ASSUME NEW b \in Admins, \/ ApproveCheckRun(b) \/ ApproveDecide(b) \/ DenyDecide(b)
                                   \/ \E how \in {"delivered", "queued_offline", "not_delivered"} :
                                        SendApproved(b, how)
          PROVE  adminAt'[a] = adminAt[a] /\ adminReq'[a] = adminReq[a]
      BY <1>0, <2>1, <3>2 DEF ApproveCheckRun, ApproveDecide, DenyDecide, SendApproved, Proceed, Return, GoTo
    <3>3. ASSUME NEW b \in Admins, MarkApproved(b) \/ DenyFinalize(b)
          PROVE  adminAt'[a] = adminAt[a] /\ adminReq'[a] = adminReq[a]
      BY <1>0, <2>1, <2>3, <3>3 DEF MarkApproved, DenyFinalize, Return
    <3>4. CASE UNCHANGED adminVars
      BY <3>4 DEF adminVars
    <3> QED BY <3>1, <3>2, <3>3, <3>4 DEF Next, vars, CreateExecutionRun, NewRequest, ParkRun,
               PassTTL, ExpireSelect, ListSelect, ListReturn, ExpireUpdate, ExpireFinalize,
               HandleResult, CancelNonTerminalRuns, CancelUpdateExecution, FinRead, FinWrite
  <2> QED BY <2>1, <2>4
<1>3. CASE reqState[q] # "denied"
  <2>1. PICK a \in Admins : DenyDecide(a) /\ adminReq[a] = q
    <3>1. ASSUME NEW p \in Requests, NewRequest(p)
          PROVE  FALSE
      BY <1>0, <1>3, <3>1 DEF NewRequest
    <3>2. ASSUME NEW b \in Admins, ApproveDecide(b)
          PROVE  FALSE
      BY <1>0, <1>3, <3>2 DEF ApproveDecide, DecideApprovalRequest
    <3>3. ASSUME NEW l \in Listers, NEW p \in Requests, ExpireUpdate(l, p)
          PROVE  FALSE
      BY <1>0, <1>3, <3>3 DEF ExpireUpdate
    <3>4. ASSUME NEW b \in Admins, DenyDecide(b)
          PROVE  adminReq[b] = q
      BY <1>0, <1>3, <3>4 DEF DenyDecide, DecideApprovalRequest
    <3>5. ~UNCHANGED reqState
      BY <1>3
    <3> QED BY <3>1, <3>2, <3>3, <3>4, <3>5 DEF Next, vars, reqVars, CreateExecutionRun, ParkRun,
               PassTTL, ApproveGet, DenyGet, ApproveCheckRun, SendApproved, MarkApproved,
               DenyFinalize, ExpireSelect, ListSelect, ListReturn, ExpireFinalize,
               HandleResult, CancelNonTerminalRuns, CancelUpdateExecution, FinRead, FinWrite
  <2>2. reqState[q] = "pending"
    BY <1>0, <1>3, <2>1 DEF DenyDecide, DecideApprovalRequest
  <2>3. adminAt' = [adminAt EXCEPT ![a] = "failed"] /\ UNCHANGED adminReq
    BY <2>1, <2>2 DEF DenyDecide, Proceed, GoTo
  <2> QED BY <1>0, <2>1, <2>3
<1> QED BY <1>2, <1>3

\* The last run to fail leaves its execution failed, or owed a finalization
\* that starts after it: finMu keeps an aggregate of older rows from landing last.
LEMMA FailureStep ==
  ASSUME Claims, Owed, Parked, FailurePropagates, [Next]_vars
  PROVE  FailurePropagates'
<1> DEFINE Failed == \A q \in Requests : runState[q] = "failed"
           Done   == execState = "failed" /\ \A job \in finMu : job[2] = "failed"
           Owes(t) == t \in owes /\ \A job \in finMu : job[1] = t => job[2] = "failed"
<1> SUFFICES ASSUME Failed', cancelled' = "no"
             PROVE  Done' \/ \E t : Owes(t)'
  BY DEF FailurePropagates
<1>0. cancelled = "no" /\ (\A job \in finMu : job[1] \in owes) /\ runState \in [Requests -> RunStates]
  BY HandlersAssumption, EndsStay DEF Owed, Parked
<1>1. ASSUME Failed
      PROVE  Done \/ \E t : Owes(t)
  BY <1>0, <1>1 DEF FailurePropagates
<1>2. ASSUME NEW t, t \notin owes, owes' = owes \cup {t}, UNCHANGED finMu
      PROVE  \E x : Owes(x)'
  <2>1. Owes(t)'
    BY <1>0, <1>2
  <2> QED BY <2>1
<1>3. ASSUME NEW a \in Admins, DenyFinalize(a)
      PROVE  \E t : Owes(t)'
  <2>1. a \notin owes
    BY <1>3 DEF Owed, DenyFinalize
  <2> QED BY <1>2, <1>3, <2>1 DEF DenyFinalize, FinalizeParked
<1>4. ASSUME NEW l \in Listers, NEW q \in Requests, ExpireFinalize(l, q)
      PROVE  \E t : Owes(t)'
  BY <1>2, <1>4 DEF ExpireFinalize, FinalizeParked
<1>5. ASSUME NEW q \in Requests, NEW s \in Results, HandleResult(q, s)
      PROVE  \E t : Owes(t)'
  BY <1>2, <1>5 DEF HandleResult
<1>6. ASSUME NEW t \in Threads, FinRead(t)
      PROVE  Done' \/ \E x : Owes(x)'
  <2>1. Failed
    BY <1>6 DEF FinRead, rowVars
  <2>2. {runState[q] : q \in Requests} \ {"none"} = {"failed"}
    BY <2>1, HandlersAssumption
  <2>3. finMu' = {<<t, Aggregate({"failed"})>>}
    BY <1>6, <2>2 DEF FinRead
  <2>4. Aggregate({"failed"}) = "failed"
    BY DEF Aggregate, OpenStates, InFlightStates
  <2>5. t \in owes'
    BY <1>6 DEF FinRead
  <2>6. Owes(t)'
    BY <2>3, <2>4, <2>5
  <2> QED BY <2>6
<1>7. CASE FinWrite
  <2>1. PICK job \in finMu : /\ execState' = IF job[2] = "keep" THEN execState ELSE job[2]
                             /\ finMu' = {} /\ owes' = owes \ {job[1]}
    BY <1>7 DEF FinWrite
  <2>2. Failed
    BY <1>7 DEF FinWrite
  <2>3. CASE Done
    BY <2>1, <2>3
  <2>4. ASSUME NEW t, Owes(t)
        PROVE  Done' \/ Owes(t)'
    BY <2>1, <2>4
  <2> QED BY <1>1, <2>2, <2>3, <2>4
<1>8. ASSUME UNCHANGED <<owes, finMu, execState>>, Failed
      PROVE  Done' \/ \E t : Owes(t)'
  BY <1>1, <1>8
<1>9. ASSUME NEW q \in Requests, CreateExecutionRun(q) \/ ParkRun(q)
      PROVE  Failed /\ UNCHANGED <<owes, finMu, execState>>
  <2>1. CASE CreateExecutionRun(q)
    BY <1>0, <2>1 DEF CreateExecutionRun
  <2>2. CASE ParkRun(q)
    <3>1. runState' = [runState EXCEPT ![q] = UpdateRunState(@, "awaiting_approval")]
      BY <2>2 DEF ParkRun
    <3>2. Failed
      BY <1>0, <3>1 DEF UpdateRunState
    <3> QED BY <2>2, <3>2 DEF ParkRun, finVars
  <2> QED BY <1>9, <2>1, <2>2
<1>10. ASSUME NEW a \in Admins, MarkApproved(a)
       PROVE  Failed /\ UNCHANGED <<owes, finMu, execState>>
  <2>1. /\ runState' = [runState EXCEPT ![adminReq[a]] = UpdateRunState(@, adminAt[a])]
        /\ adminAt[a] # "failed"
    BY <1>10 DEF MarkApproved
  <2>2. Failed
    BY <1>0, <2>1 DEF UpdateRunState
  <2> QED BY <1>10, <2>2 DEF MarkApproved, finVars
<1>11. ~CancelNonTerminalRuns /\ ~CancelUpdateExecution
  BY DEF CancelNonTerminalRuns, CancelUpdateExecution
<1>12. CASE UNCHANGED <<runState, owes, finMu, execState>>
  BY <1>8, <1>12
<1> HIDE DEF Failed, Done, Owes
<1> QED BY <1>3, <1>4, <1>5, <1>6, <1>7, <1>8, <1>9, <1>10, <1>11, <1>12
        DEF Next, vars, rowVars, finVars, NewRequest, PassTTL, ApproveGet, DenyGet,
            ApproveCheckRun, ApproveDecide, SendApproved, DenyDecide, ExpireSelect,
            ListSelect, ListReturn, ExpireUpdate

\* Once the handlers have returned, a denied run is final, and when every run
\* was denied its execution has failed: the denial reaches the aggregate whatever
\* listings, results and other finalizations run at the same time.
THEOREM DenialsSettle == Spec => []DenySettles
<1>1. Init => SettleInv
  BY HandlersAssumption DEF Init, SettleInv, Claims, Fresh, Sending, Deciding, Owed, Parked,
     DeniedEnds, FailurePropagates, RunStates
<1>2. SettleInv /\ [Next]_vars => SettleInv'
  BY ClaimsStep, OwedStep, ParkedStep, DeniedStep, FailureStep DEF SettleInv
<1>3. SettleInv => DenySettles
  <2> SUFFICES ASSUME SettleInv, Quiet
               PROVE  /\ \A q \in Requests : reqState[q] = "denied" => runState[q] \in FinalStates
                      /\ cancelled = "no" /\ (\A q \in Requests : reqState[q] = "denied")
                           => execState = "failed"
    BY DEF DenySettles
  <2>1. \A q \in Requests : reqState[q] = "denied" => runState[q] \in {"failed", "cancelled"}
    BY DEF SettleInv, DeniedEnds, Quiet
  <2>2. ASSUME cancelled = "no", \A q \in Requests : reqState[q] = "denied"
        PROVE  execState = "failed"
    <3>1. \A q \in Requests : runState[q] = "failed"
      BY <2>1, <2>2 DEF SettleInv, Parked
    <3> QED BY <2>2, <3>1 DEF SettleInv, FailurePropagates, Quiet
  <2> QED BY <2>1, <2>2 DEF FinalStates, ResultStates, GiveUpStates
<1> QED BY <1>1, <1>2, <1>3, PTL DEF Spec

-----------------------------------------------------------------------------
(* The evaluator: what a verdict says about the rules that match. *)

\* A rule of effect e applies to some action of a set.
Applies(rules, acts, e) ==
  \E a \in acts, r \in rules : matchesRule(r, a) /\ r.effect = e

\* Evaluate takes the worst effect of the matching rules, whatever their order.
LEMMA EvaluateMeans ==
  ASSUME NEW rules, NEW a
  PROVE  /\ Evaluate(rules, a) = "deny" <=> Applies(rules, {a}, "deny")
         /\ Evaluate(rules, a) = "require_approval" <=>
              Applies(rules, {a}, "require_approval") /\ ~Applies(rules, {a}, "deny")
         /\ Evaluate(rules, a) \in Effects
  BY DEF Evaluate, Applies, Effects

\* So does Worst over a set of actions.
LEMMA WorstMeans ==
  ASSUME NEW rules, NEW acts
  PROVE  /\ Worst(rules, acts) = "deny" <=> Applies(rules, acts, "deny")
         /\ Worst(rules, acts) = "allow" <=>
              ~Applies(rules, acts, "deny") /\ ~Applies(rules, acts, "require_approval")
         /\ Worst(rules, acts) \in Effects
<1> DEFINE E == {Evaluate(rules, a) : a \in acts}
<1>1. "deny" \in E <=> Applies(rules, acts, "deny")
  BY EvaluateMeans DEF Applies
<1>2. ~("deny" \in E) =>
        ("require_approval" \in E <=> Applies(rules, acts, "require_approval"))
  BY EvaluateMeans DEF Applies
<1>3. Worst(rules, acts) = IF "deny" \in E THEN "deny"
                           ELSE IF "require_approval" \in E THEN "require_approval" ELSE "allow"
  BY DEF Worst
<1> HIDE DEF E
<1> QED  BY <1>1, <1>2, <1>3 DEF Effects

\* More rules apply at least where fewer do.
LEMMA AppliesGrows ==
  ASSUME NEW rules, NEW more, NEW acts, NEW e, rules \subseteq more, Applies(rules, acts, e)
  PROVE  Applies(more, acts, e)
  BY DEF Applies

-----------------------------------------------------------------------------
(* Gate and guardrail. *)

\* With the bundle's state of the host the agent's own state, the guardrail
\* evaluates the host the gate was asked about, decision signed or approved.
LEMMA GuardSeesHost ==
  ASSUME NEW q \in GateRequests, NEW ap \in BOOLEAN
  PROVE  GuardHost(q, ap, q.h.eol) = q.h
<1>1. /\ q.h \in [facts : SUBSET HostFacts, eol : EOLStates]
      /\ EolState(q, ap) \in {"", q.h.eol}
  BY DEF GateRequests, EolState
<1>2. GuardHost(q, ap, q.h.eol) = [q.h EXCEPT !.eol = q.h.eol]
  BY <1>1 DEF GuardHost
<1> QED  BY <1>1, <1>2

\* Dropping the host's state, as the file and session gates do, loses the
\* rules scoped to a state and no others.
LEMMA DroppedState ==
  ASSUME NEW h \in [facts : SUBSET HostFacts, eol : EOLStates], NEW role, NEW class,
         NEW line, NEW r
  PROVE  /\ matchesRule(r, Act(WithoutEOL(h), role, class, line)) =>
              matchesRule(r, Act(h, role, class, line))
         /\ r.eol = "" /\ matchesRule(r, Act(h, role, class, line)) =>
              matchesRule(r, Act(WithoutEOL(h), role, class, line))
<1> DEFINE a == Act(h, role, class, line)
           b == Act(WithoutEOL(h), role, class, line)
<1>1. /\ a.facts = b.facts /\ a.role = b.role /\ a.class = b.class /\ a.line = b.line
      /\ a.eol = h.eol /\ b.eol = ""
  BY DEF Act, WithoutEOL
<1> HIDE DEF a, b
<1>2. /\ matchesRule(r, b) => matchesRule(r, a)
      /\ r.eol = "" /\ matchesRule(r, a) => matchesRule(r, b)
  BY <1>1 DEF matchesRule, matchHosts, matchActions, matchActorRoles, matchEOL
<1> QED  BY <1>2 DEF a, b

\* The gate of a surface and the guardrail's check of it, rule by rule.
LEMMA GuardSeesActions ==
  ASSUME NEW q \in GateRequests, NEW rules, NEW e
  PROVE  /\ q.surface \in {"exec", "pkg", "task"} => GuardActions(q, q.h) = GateActions(q)
         /\ Applies(rules, GateActions(q), e) => Applies(rules, GuardActions(q, q.h), e)
         /\ Applies(rules, GuardActions(q, q.h), e) =>
              \/ Applies(rules, GateActions(q), e)
              \/ q.surface \in {"file", "session"} /\ \E r \in rules : r.eol # ""
<1> DEFINE c == IF q.surface = "session" THEN "exec" ELSE "file.write"
<1>1. q.surface \in Surfaces /\ q.h \in [facts : SUBSET HostFacts, eol : EOLStates]
  BY DEF GateRequests
<1>2. q.surface \in {"exec", "pkg", "task"} => GuardActions(q, q.h) = GateActions(q)
  BY DEF GuardActions, GateActions
<1>3. q.surface \in {"session", "file"} =>
        /\ GateActions(q) = {Act(WithoutEOL(q.h), q.role, c, q.line)}
        /\ GuardActions(q, q.h) = {Act(q.h, q.role, c, q.line)}
  BY DEF GuardActions, GateActions
<1> HIDE DEF c
<1>4. CASE q.surface \in {"exec", "pkg", "task"}
  BY <1>2, <1>4
<1>5. CASE q.surface \in {"session", "file"}
  <2> DEFINE a == Act(q.h, q.role, c, q.line)
             b == Act(WithoutEOL(q.h), q.role, c, q.line)
  <2>1. \A r \in rules : /\ matchesRule(r, b) => matchesRule(r, a)
                         /\ r.eol = "" /\ matchesRule(r, a) => matchesRule(r, b)
    BY <1>1, DroppedState
  <2>2. GateActions(q) = {b} /\ GuardActions(q, q.h) = {a}
    BY <1>3, <1>5
  <2> HIDE DEF a, b
  <2>3. Applies(rules, GateActions(q), e) => Applies(rules, GuardActions(q, q.h), e)
    BY <2>1, <2>2 DEF Applies
  <2>4. ASSUME Applies(rules, GuardActions(q, q.h), e), \A r \in rules : r.eol = ""
        PROVE  Applies(rules, GateActions(q), e)
    BY <2>1, <2>2, <2>4 DEF Applies
  <2> QED  BY <1>2, <1>5, <2>3, <2>4
<1> QED  BY <1>1, <1>4, <1>5 DEF Surfaces

-----------------------------------------------------------------------------
(* What each phase of an action says about the rules in force. *)

PhaseInv ==
  LET v == Gate(gate.rules, gate.req)
      ok == Recheck(gate.rules, gate.req, gate.approved, gate.req.h.eol)
  IN  /\ gate.phase \in {"none", "denied", "held"} => gate.approved = FALSE
      /\ gate.phase = "denied" => v = "deny"
      /\ gate.phase = "held" => v # "allow"
      /\ gate.phase \in {"sent", "refused", "admitted"} /\ ~gate.approved => v = "allow"
      /\ gate.phase = "admitted" => ok
      /\ gate.phase = "refused" => ~ok

PInv == PolicyTypeOK /\ PhaseInv

CaseType == [phase : Phases, rules : SUBSET RulePool, req : GateRequests \cup {<<>>},
             approved : BOOLEAN]

PStrong == gate \in CaseType /\ PInv

\* An action that has not been decided carries no verdict.
LEMMA PolicyInitInv == PolicyInit => PStrong
  BY DEF PolicyInit, NoCase, PStrong, CaseType, PInv, PolicyTypeOK, PhaseInv, Phases

\* Gate, Approve and GuardCheck keep the verdict of the phase; a rule created
\* while the action is held adds to what applies.
LEMMA PolicyStep == PStrong /\ [PolicyNext]_gate => PStrong'
<1> SUFFICES ASSUME PStrong, [PolicyNext]_gate PROVE PStrong'
  OBVIOUS
<1>1. CASE Decide
  <2>1. PICK R \in {R \in SUBSET RulePool : Cardinality(R) <= MaxRules},
             s \in Surfaces, f \in SUBSET HostFacts, e \in EOLStates, o \in ActorRoles,
             l \in CommandLines, steps \in SUBSET TaskSteps :
       /\ s \in {"pkg", "task"} => l = ""
       /\ s # "task" => steps = {}
       /\ LET q == [surface |-> s, h |-> [facts |-> f, eol |-> e], role |-> o,
                    line |-> l, steps |-> steps]
              v == Gate(R, q)
          IN  gate' = [phase |-> CASE v = "deny" -> "denied" [] v = "allow" -> "sent"
                                   [] OTHER -> "held",
                       rules |-> R, req |-> q, approved |-> FALSE]
    BY <1>1 DEF Decide
  <2> DEFINE q == [surface |-> s, h |-> [facts |-> f, eol |-> e], role |-> o,
                   line |-> l, steps |-> steps]
             v == Gate(R, q)
  <2>2. q \in GateRequests
    BY DEF GateRequests
  <2>3. /\ gate'.phase = IF v = "deny" THEN "denied" ELSE IF v = "allow" THEN "sent" ELSE "held"
        /\ gate'.rules = R /\ gate'.req = q /\ gate'.approved = FALSE
    BY <2>1
  <2>4. gate' \in CaseType
    BY <2>1, <2>2 DEF CaseType, Phases
  <2> HIDE DEF q
  <2>5. PhaseInv'
    BY <2>3 DEF PhaseInv
  <2> QED  BY <2>2, <2>3, <2>4, <2>5 DEF PStrong, PInv, PolicyTypeOK, Phases
<1>2. CASE EditRules
  <2>1. PICK r \in RulePool : gate' = [gate EXCEPT !.rules = @ \cup {r}]
    BY <1>2 DEF EditRules
  <2>2. gate \in CaseType /\ gate.phase = "held"
    BY <1>2 DEF EditRules, PStrong
  <2>3. /\ gate'.phase = "held" /\ gate'.rules = gate.rules \cup {r}
        /\ gate'.req = gate.req /\ gate'.approved = gate.approved /\ gate' \in CaseType
    BY <2>1, <2>2 DEF CaseType
  <2>4. Gate(gate.rules, gate.req) # "allow" => Gate(gate'.rules, gate.req) # "allow"
    BY <2>3, WorstMeans, AppliesGrows DEF Gate
  <2>5. PhaseInv'
    BY <2>2, <2>3, <2>4 DEF PStrong, PInv, PhaseInv
  <2> QED  BY <2>2, <2>3, <2>5 DEF PStrong, PInv, PolicyTypeOK, CaseType
<1>3. CASE ApproveHeld
  <2>1. /\ gate'.phase = "sent" /\ gate'.rules = gate.rules /\ gate.phase = "held"
        /\ gate'.req = gate.req /\ gate'.approved = TRUE /\ gate' \in CaseType
    BY <1>3 DEF ApproveHeld, PStrong, CaseType, Phases
  <2> QED  BY <2>1 DEF PStrong, PInv, PolicyTypeOK, PhaseInv, Phases
<1>4. CASE GuardCheck
  <2> DEFINE ok == Recheck(gate.rules, gate.req, gate.approved, gate.req.h.eol)
  <2>1. /\ gate'.phase = IF ok THEN "admitted" ELSE "refused"
        /\ gate.phase = "sent" /\ gate'.rules = gate.rules
        /\ gate'.req = gate.req /\ gate'.approved = gate.approved /\ gate' \in CaseType
    BY <1>4 DEF GuardCheck, PStrong, CaseType, Phases
  <2>2. PhaseInv'
    BY <2>1 DEF PStrong, PInv, PhaseInv
  <2> QED  BY <2>1, <2>2 DEF PStrong, PInv, PolicyTypeOK, Phases
<1>5. CASE UNCHANGED gate
  BY <1>5 DEF PStrong, PInv, PolicyTypeOK, PhaseInv
<1> QED  BY <1>1, <1>2, <1>3, <1>4, <1>5 DEF PolicyNext

\* The phases' verdicts are what the three claims about them need.
LEMMA PolicyImplied == PStrong => PolicyInv
<1> SUFFICES ASSUME PStrong PROVE PolicyInv
  OBVIOUS
<1> DEFINE q == gate.req
<1>1. gate.phase # "none" => q \in GateRequests
  BY DEF PStrong, PInv, PolicyTypeOK
<1>2. gate.approved \in BOOLEAN
  BY DEF PStrong, CaseType
<1>3. GuardAgreesWithGate
  <2> SUFFICES ASSUME gate.phase = "refused", ~gate.approved
               PROVE  q.surface \in {"file", "session"} /\ \E r \in gate.rules : r.eol # ""
    BY DEF GuardAgreesWithGate
  <2>1. Gate(gate.rules, q) = "allow"
        /\ ~Recheck(gate.rules, q, FALSE, q.h.eol)
    BY <1>2 DEF PStrong, PInv, PhaseInv
  <2>2. Worst(gate.rules, GuardActions(q, q.h)) # "allow"
    BY <1>1, <2>1, GuardSeesHost DEF Recheck
  <2>3. PICK e \in {"deny", "require_approval"} : Applies(gate.rules, GuardActions(q, q.h), e)
    BY <2>2, WorstMeans
  <2>4. ~Applies(gate.rules, GateActions(q), e)
    BY <2>1, WorstMeans DEF Gate
  <2> QED  BY <1>1, <2>3, <2>4, GuardSeesActions
<1>4. DenyBeatsApproval
  <2> SUFFICES ASSUME gate.phase = "admitted", q.surface # "task"
               PROVE  Gate(gate.rules, q) # "deny"
    BY DEF DenyBeatsApproval
  <2>1. Recheck(gate.rules, q, gate.approved, q.h.eol)
    BY DEF PStrong, PInv, PhaseInv
  <2>2. ApprovalActions(q, q.h) = GuardActions(q, q.h)
    BY DEF ApprovalActions
  <2>3. Worst(gate.rules, GuardActions(q, q.h)) # "deny"
    BY <1>1, <1>2, <2>1, <2>2, GuardSeesHost DEF Recheck
  <2> QED  BY <1>1, <2>3, WorstMeans, GuardSeesActions DEF Gate
<1>5. NoRuleLoosens
  <2> SUFFICES ASSUME gate.phase \in {"denied", "held"}, NEW r \in RulePool
               PROVE  LET v == Gate(gate.rules \cup {r}, q)
                      IN  v = "deny" \/ (gate.phase = "held" /\ v = "require_approval")
    BY DEF NoRuleLoosens
  <2>1. /\ gate.phase = "denied" => Gate(gate.rules, q) = "deny"
        /\ gate.phase = "held" => Gate(gate.rules, q) # "allow"
    BY DEF PStrong, PInv, PhaseInv
  <2>2. ASSUME NEW e, Applies(gate.rules, GateActions(q), e)
        PROVE  Applies(gate.rules \cup {r}, GateActions(q), e)
    BY <2>2, AppliesGrows
  <2> QED  BY <2>1, <2>2, WorstMeans DEF Gate, Effects
<1> QED  BY <1>3, <1>4, <1>5 DEF PolicyInv, PStrong, PInv

\* Gate, approval and guardrail reach one verdict: an agent refuses what the
\* server allowed only over a state-scoped rule of a surface whose gate drops
\* the host's state, a deny rule created before the approval wins over it, and
\* no new rule weakens a verdict.
THEOREM OneVerdict == PolicySpec => []PolicyInv
<1>1. PolicyInit => PStrong
  BY PolicyInitInv
<1>2. PStrong /\ [PolicyNext]_gate => PStrong'
  BY PolicyStep
<1>3. PStrong => PolicyInv
  BY PolicyImplied
<1> QED  BY <1>1, <1>2, <1>3, PTL DEF PolicySpec

-----------------------------------------------------------------------------
(* Bundles on their way: every copy of the rules outside the table. *)

Bundles(S)     == [rules : S, version : Nat]
PusherState(S) == [pc : {"idle", "read", "bump", "sessions", "rules", "version", "send"},
                   seen : Nat, rows : S, version : Nat, to : Nat]
StreamState(S) == [up : BOOLEAN, chan : Seq(Bundles(S))]
GuardState(S)  == [loaded : BOOLEAN, rules : S, version : Nat]
DiskState(S)   == [rules : S, version : Nat, exists : BOOLEAN,
                   todo : Seq({"policy.json", "policy.meta"})]
EditCounts     == [edits : Nat, streams : Nat, crashes : Nat]

\* The rows a goroutine has read, the bundles in flight, the guardrail's copy
\* and the file on disk are each a rule set the table has held.
Provenance ==
  /\ stored \subseteq SUBSET PolicyIds /\ {} \in stored
  /\ table \in [rows : stored, version : Nat]
  /\ pushers \in [Pushers -> PusherState(stored)]
  /\ stream \in StreamState(stored)
  /\ guard \in GuardState(stored)
  /\ disk \in DiskState(stored)
  /\ counts \in EditCounts

\* The first bundle of a channel and the rest of it.
LEMMA ChannelTakes ==
  ASSUME NEW S, NEW s \in Seq(S), s # << >>
  PROVE  Head(s) \in S /\ Tail(s) \in Seq(S)
  OBVIOUS

\* What was a copy of a stored set stays one when more sets are stored.
LEMMA ProvenanceGrows ==
  ASSUME NEW S, NEW T, S \subseteq T
  PROVE  /\ PusherState(S) \subseteq PusherState(T)
         /\ StreamState(S) \subseteq StreamState(T)
         /\ GuardState(S) \subseteq GuardState(T)
         /\ DiskState(S) \subseteq DiskState(T)
<1>1. Bundles(S) \subseteq Bundles(T)
  BY DEF Bundles
<1>2. Seq(Bundles(S)) \subseteq Seq(Bundles(T))
  BY <1>1
<1>3. StreamState(S) \subseteq StreamState(T)
  BY <1>2 DEF StreamState
<1>4. PusherState(S) \subseteq PusherState(T)
  BY DEF PusherState
<1>5. GuardState(S) \subseteq GuardState(T) /\ DiskState(S) \subseteq DiskState(T)
  BY DEF GuardState, DiskState
<1> QED  BY <1>3, <1>4, <1>5

\* A step of one goroutine changes its own state only.
LEMMA PusherStep ==
  ASSUME Provenance, NEW p \in Pushers, NEW x \in PusherState(stored),
         pushers' = [pushers EXCEPT ![p] = x]
  PROVE  pushers' \in [Pushers -> PusherState(stored)]
  BY DEF Provenance

\* A goroutine's state with the field a step assigns replaced.
LEMMA PusherFields ==
  ASSUME NEW S, NEW x \in PusherState(S), NEW n \in Nat, NEW R \in S,
         NEW pc \in {"idle", "read", "bump", "sessions", "rules", "version", "send"}
  PROVE  /\ [x EXCEPT !.pc = pc] \in PusherState(S)
         /\ [x EXCEPT !.pc = pc, !.seen = n] \in PusherState(S)
         /\ [x EXCEPT !.pc = pc, !.to = n] \in PusherState(S)
         /\ [x EXCEPT !.pc = pc, !.rows = R] \in PusherState(S)
         /\ [x EXCEPT !.pc = pc, !.version = n] \in PusherState(S)
  BY DEF PusherState

\* The steps of an edit and of a push.
LEMMA PushSteps ==
  ASSUME Provenance, NEW p \in Pushers,
         EditRow(p) \/ BumpRead(p) \/ BumpWrite(p) \/ ListSessions(p)
           \/ BuildRules(p) \/ BuildVersion(p) \/ SendBundle(p)
  PROVE  Provenance'
<1> DEFINE x == pushers[p]
<1>1. x \in PusherState(stored)
  BY DEF Provenance
<1>2. /\ x.seen \in Nat /\ x.rows \in stored /\ x.version \in Nat
  BY <1>1 DEF PusherState
<1>3. table.rows \in stored /\ table.version \in Nat /\ counts.streams \in Nat /\ {} \in stored
  BY DEF Provenance, EditCounts
<1>4. AtRest \in PusherState(stored)
  BY <1>3 DEF AtRest, PusherState
<1>5. CASE EditRow(p)
  <2>1. PICK r \in PolicyIds :
          table' = [table EXCEPT !.rows = IF r \in @ THEN @ \ {r} ELSE @ \cup {r}]
    BY <1>5 DEF EditRow
  <2>2. table' \in [rows : {table'.rows}, version : Nat] /\ table'.rows \subseteq PolicyIds
    BY <2>1 DEF Provenance
  <2>3. stored' = stored \cup {table'.rows} /\ UNCHANGED <<stream, guard, disk>>
    BY <1>5 DEF EditRow
  <2>4. counts' \in EditCounts
    BY <1>5 DEF EditRow, Provenance, EditCounts
  <2>5. pushers' = [pushers EXCEPT ![p] = [x EXCEPT !.pc = "read"]]
    BY <1>5 DEF EditRow, Step
  <2>6. pushers' \in [Pushers -> PusherState(stored)]
    BY <1>1, <1>3, <2>5, PusherFields, PusherStep
  <2>7. /\ PusherState(stored) \subseteq PusherState(stored')
        /\ StreamState(stored) \subseteq StreamState(stored')
        /\ GuardState(stored) \subseteq GuardState(stored')
        /\ DiskState(stored) \subseteq DiskState(stored')
    BY <2>3, ProvenanceGrows
  <2>8. pushers' \in [Pushers -> PusherState(stored')]
    BY <2>6, <2>7
  <2>9. table' \in [rows : stored', version : Nat]
    BY <2>2, <2>3
  <2> QED  BY <2>2, <2>3, <2>4, <2>7, <2>8, <2>9 DEF Provenance
<1>6. CASE BumpRead(p)
  <2>1. pushers' = [pushers EXCEPT ![p] = [x EXCEPT !.pc = "bump", !.seen = table.version]]
    BY <1>6 DEF BumpRead
  <2>2. pushers' \in [Pushers -> PusherState(stored)]
    BY <1>1, <1>3, <2>1, PusherFields, PusherStep
  <2> QED  BY <1>6, <2>2 DEF BumpRead, Provenance
<1>7. CASE BumpWrite(p)
  <2>1. pushers' = [pushers EXCEPT ![p] = [x EXCEPT !.pc = "sessions"]]
    BY <1>7 DEF BumpWrite, Step
  <2>2. pushers' \in [Pushers -> PusherState(stored)]
    BY <1>1, <1>3, <2>1, PusherFields, PusherStep
  <2>3. table' \in [rows : stored, version : Nat]
    BY <1>7, <1>2 DEF BumpWrite, Provenance
  <2> QED  BY <1>7, <2>2, <2>3 DEF BumpWrite, Provenance
<1>8. CASE ListSessions(p)
  <2>1. pushers' = [pushers EXCEPT ![p] = IF stream.up
          THEN [x EXCEPT !.pc = "rules", !.to = counts.streams] ELSE AtRest]
    BY <1>8 DEF ListSessions, Provenance
  <2>2. pushers' \in [Pushers -> PusherState(stored)]
    BY <1>1, <1>3, <1>4, <2>1, PusherFields, PusherStep
  <2> QED  BY <1>8, <2>2 DEF ListSessions, Provenance
<1>9. CASE BuildRules(p)
  <2>1. pushers' = [pushers EXCEPT ![p] = [x EXCEPT !.pc = "version", !.rows = table.rows]]
    BY <1>9 DEF BuildRules
  <2>2. pushers' \in [Pushers -> PusherState(stored)]
    BY <1>1, <1>3, <2>1, PusherFields, PusherStep
  <2> QED  BY <1>9, <2>2 DEF BuildRules, Provenance
<1>10. CASE BuildVersion(p)
  <2>1. Cardinality(x.rows) \in Nat
    BY <1>2, SyncAssumption, FS_Subset, FS_CardinalityType DEF Provenance
  <2>2. pushers' = [pushers EXCEPT ![p] = [x EXCEPT !.pc = "send",
          !.version = IF table.version > 0 THEN table.version ELSE Cardinality(x.rows)]]
    BY <1>10 DEF BuildVersion
  <2>3. pushers' \in [Pushers -> PusherState(stored)]
    BY <1>1, <1>3, <2>1, <2>2, PusherFields, PusherStep
  <2> QED  BY <1>10, <2>3 DEF BuildVersion, Provenance
<1>11. CASE SendBundle(p)
  <2> DEFINE b == [rules |-> x.rows, version |-> x.version]
  <2>1. b \in Bundles(stored)
    BY <1>2 DEF Bundles
  <2>2. \/ stream' = stream
        \/ stream' = [stream EXCEPT !.chan = Append(@, b)]
    BY <1>11 DEF SendBundle
  <2> HIDE DEF b
  <2>3. stream.chan \in Seq(Bundles(stored)) /\ stream \in StreamState(stored)
    BY DEF Provenance, StreamState
  <2>4. Append(stream.chan, b) \in Seq(Bundles(stored))
    BY <2>1, <2>3
  <2>5. stream' \in StreamState(stored)
    BY <2>2, <2>3, <2>4 DEF StreamState
  <2>6. pushers' = [pushers EXCEPT ![p] = AtRest]
    BY <1>11 DEF SendBundle
  <2>7. pushers' \in [Pushers -> PusherState(stored)]
    BY <1>4, <2>6, PusherStep
  <2> QED  BY <1>11, <2>5, <2>7 DEF SendBundle, Provenance
<1> QED  BY <1>5, <1>6, <1>7, <1>8, <1>9, <1>10, <1>11

\* The steps of the stream and of the agent, the crash among them.
LEMMA AgentSteps ==
  ASSUME Provenance, OpenStream \/ DropStream \/ OnBundle \/ PersistFile \/ CrashGuard
  PROVE  Provenance'
<1>0. [up |-> FALSE, chan |-> <<>>] \in StreamState(stored)
      /\ [up |-> TRUE, chan |-> <<>>] \in StreamState(stored)
  BY DEF StreamState
<1>1. CASE OpenStream
  <2>1. [AtRest EXCEPT !.pc = "rules", !.to = counts.streams + 1] \in PusherState(stored)
    <3>1. AtRest \in PusherState(stored) /\ {} \in stored
      BY DEF AtRest, PusherState, Provenance
    <3>2. counts.streams + 1 \in Nat
      BY DEF Provenance, EditCounts
    <3> QED  BY <3>1, <3>2, PusherFields
  <2>2. pushers' \in [Pushers -> PusherState(stored)]
    BY <1>1, <2>1, PusherStep DEF OpenStream, Pushers
  <2>3. counts' \in EditCounts
    BY <1>1 DEF OpenStream, Provenance, EditCounts
  <2>4. stream' \in StreamState(stored)
    BY <1>0, <1>1 DEF OpenStream
  <2> QED  BY <1>1, <2>2, <2>3, <2>4 DEF OpenStream, Provenance
<1>2. CASE DropStream
  BY <1>0, <1>2 DEF DropStream, Provenance
<1>3. CASE OnBundle
  <2>1. stream \in StreamState(stored) /\ stream.chan \in Seq(Bundles(stored))
    BY DEF Provenance, StreamState
  <2>2. /\ Head(stream.chan) \in Bundles(stored) /\ Tail(stream.chan) \in Seq(Bundles(stored))
    BY <1>3, <2>1, ChannelTakes DEF OnBundle
  <2>3. guard' \in GuardState(stored)
    BY <1>3, <2>2 DEF OnBundle, Bundles, GuardState
  <2>4. /\ disk' = [disk EXCEPT !.todo = <<"policy.json", "policy.meta">>]
        /\ stream' = [stream EXCEPT !.chan = Tail(@)]
        /\ UNCHANGED <<table, pushers, stored, counts>>
    BY <1>3 DEF OnBundle
  <2>5. <<"policy.json", "policy.meta">> \in Seq({"policy.json", "policy.meta"})
    OBVIOUS
  <2>6. disk' \in DiskState(stored)
    BY <2>4, <2>5 DEF Provenance, DiskState
  <2>7. stream' \in StreamState(stored)
    BY <2>1, <2>2, <2>4 DEF StreamState
  <2> QED  BY <2>3, <2>4, <2>6, <2>7 DEF Provenance
<1>4. CASE PersistFile
  <2>1. Tail(disk.todo) \in Seq({"policy.json", "policy.meta"})
    BY <1>4, ChannelTakes DEF PersistFile, Provenance, DiskState
  <2>2. disk' \in DiskState(stored)
    BY <1>4, <2>1 DEF PersistFile, Provenance, DiskState, GuardState
  <2> QED  BY <1>4, <2>2 DEF PersistFile, Provenance
<1>5. CASE CrashGuard
  <2>1. counts' \in EditCounts
    BY <1>5 DEF CrashGuard, Provenance, EditCounts
  <2>2. disk' \in DiskState(stored)
    <3>1. disk' = [disk EXCEPT !.todo = <<>>] /\ disk \in DiskState(stored)
      BY <1>5 DEF CrashGuard, Provenance
    <3>2. <<>> \in Seq({"policy.json", "policy.meta"})
      OBVIOUS
    <3> QED  BY <3>1, <3>2 DEF DiskState
  <2>3. guard' \in GuardState(stored)
    BY <1>5 DEF CrashGuard, Provenance, DiskState, GuardState, NoGuard
  <2>4. stream' \in StreamState(stored) /\ UNCHANGED <<table, pushers, stored>>
    BY <1>0, <1>5 DEF CrashGuard
  <2> QED  BY <2>1, <2>2, <2>3, <2>4 DEF Provenance
<1> QED  BY <1>1, <1>2, <1>3, <1>4, <1>5

\* Whatever edits run while a bundle is built, sent, lost or stored, and
\* wherever the agent crashes between the two files, the rules the guardrail
\* enforces are a set that was in force at some time: never a mixture.
THEOREM EnforcedSetsWereStored == SyncSpec => []EnforcesAStoredSet
<1>1. SyncInit => Provenance
  BY DEF SyncInit, Provenance, AtRest, PusherState, NoGuard, NoFile, StreamState, GuardState,
         DiskState, EditCounts
<1>2. Provenance /\ [SyncNext]_syncVars => Provenance'
  <2>1. CASE UNCHANGED syncVars
    BY <2>1 DEF syncVars, Provenance
  <2> QED  BY <2>1, PushSteps, AgentSteps DEF SyncNext
<1>3. Provenance => EnforcesAStoredSet
  BY DEF Provenance, EnforcesAStoredSet, GuardState
<1> QED  BY <1>1, <1>2, <1>3, PTL DEF SyncSpec
=============================================================================
