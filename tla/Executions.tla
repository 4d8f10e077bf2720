----------------------------- MODULE Executions -----------------------------
(***************************************************************************)
(* Command executions from dispatch to verdict: the orchestration engine   *)
(* (internal/control), the server side of the agent stream with its        *)
(* offline queue (internal/server/stream), the run rows they both write    *)
(* (RunStore) and the agent that runs the command, streams or spools its   *)
(* result and replays it (internal/agent).                                 *)
(*                                                                         *)
(* Every goroutine is a thread of the model: one dispatcher and one cancel *)
(* handler per execution, one stream handler per accepted stream, the      *)
(* interrupted-run sweeper and the offline-queue sweeper.  A step is one   *)
(* SQL statement, one critical section or one send; FinalizeExecution is   *)
(* the two steps FinRead and FinWrite under finMu, and a thread that owes  *)
(* a finalization does nothing else first.                                 *)
(***************************************************************************)
EXTENDS Naturals, Sequences, FiniteSets, RunStore

CONSTANTS Execs,        \* executions (ids are fresh per Dispatch)
          Hosts,        \* enrolled hosts
          Effects,      \* policy decisions that can occur
          Cancellable,  \* executions an operator may cancel
          MaxConn,      \* streams a host opens (bound)
          OfflineCap,   \* Handler.offlineCap
          MaxRestarts,  \* server restarts (bound)
          MaxCrashes,   \* agent crashes per host (bound)
          SpoolLossy,   \* may the bounded spool drop a run (TTL or caps)?
          MayRefuse,    \* may the agent's guardrail refuse a command?
          Exits,        \* how a process that is not cancelled may end
          Chatty        \* executions whose command writes output

ASSUME ConstantsAssumption ==
  /\ Hosts # {} /\ Execs # {}
  /\ Effects \subseteq {"allow", "deny", "require_approval"}
  /\ Cancellable \subseteq Execs
  /\ MaxConn \in Nat /\ MaxRestarts \in Nat /\ MaxCrashes \in Nat
  /\ OfflineCap \in Nat \ {0}
  /\ SpoolLossy \in BOOLEAN /\ MayRefuse \in BOOLEAN
  /\ Exits # {} /\ Exits \subseteq {"succeeded", "failed", "timed_out"}
  /\ Chatty \subseteq Execs

Conns   == 1..MaxConn
Streams == Hosts \X Conns
Runs    == Execs \X Hosts

StrandSweeper  == <<"RunInterruptSweeper">>
OfflineSweeper == <<"StartOfflineSweeper">>
Dispatcher(e)  == <<"Dispatch", e>>
Handler(s)     == <<"Stream", s[1], s[2]>>
Threads == {Dispatcher(e) : e \in Execs} \cup {Handler(s) : s \in Streams}
             \cup {StrandSweeper, OfflineSweeper}

UpKinds  == ResultStates \cup {"output"}
UpMsgs   == [e : Execs, is : UpKinds]
DownMsgs == [e : Execs, op : {"command", "cancel"}]

VARIABLES
  execState,    \* executions.state
  runState,     \* execution_runs.state
  hostState,    \* agents.state
  verdict,      \* the policy decision taken for a run
  disp,         \* Dispatch goroutines: "idle", "loop", "done"
  at,           \* where the Dispatch goroutine is with a run
  via,          \* the stream SendCommand looked up for a run, 0 for none
  victim,       \* the envelope a run's queueOffline evicted
  cancel,       \* CancelExecution goroutines
  toSignal,     \* hosts CancelExecution still has to signal
  sessions,     \* Handler.sessions: host -> registered stream, 0 for none
  offlineQueue, \* Handler.offlineQueue: host -> queued command envelopes
  srv,          \* Stream goroutines
  batch,        \* the queue a stream's drainOffline is working through
  hit,          \* executions a stream's InterruptAgentRuns selected
  strand,       \* rows StrandedInterruptedRuns has selected
  expiring,     \* envelopes the offline sweeper has taken off the queues
  fin,          \* executions each thread still has to finalize
  finMu,        \* Control.finMu: {} or {<<thread, execution, new state>>}
  restarts,     \* server restarts so far
  link,         \* each stream's transport: "none", "up", "cut"
  down, up,     \* envelopes in flight on each stream
  agentConn,    \* the stream the agent holds, 0 when it is between streams
  ready,        \* the agent drained its spool and reads the stream
  live,         \* processes of the run alive on the host
  starts,       \* times the host started the run's command
  chunked,      \* the process has produced its output
  cancelReq,    \* the agent cancelled the run's context
  outcomes,     \* outcomes the run has had on the host
  spooled,      \* Agent.spooled: the run's records go to the spool
  spool,        \* the run's spooled records
  crashes       \* agent crashes so far

dbVars     == <<execState, runState, hostState, verdict>>
dispVars   == <<disp, at, via, victim>>
cancelVars == <<cancel, toSignal>>
srvVars    == <<srv, batch, hit>>
serverVars == <<dispVars, cancelVars, sessions, offlineQueue, srvVars, strand,
                expiring, fin, finMu, restarts>>
agentVars  == <<agentConn, ready, live, starts, chunked, cancelReq, outcomes, spooled, spool, crashes>>
netVars    == <<link, down, up>>
vars       == <<dbVars, serverVars, agentVars, netVars>>

Init ==
  /\ execState = [e \in Execs |-> "none"]
  /\ runState  = [r \in Runs |-> "none"]
  /\ hostState = [h \in Hosts |-> "disconnected"]
  /\ verdict   = [r \in Runs |-> "none"]
  /\ disp      = [e \in Execs |-> "idle"]
  /\ at        = [r \in Runs |-> "idle"]
  /\ via       = [r \in Runs |-> 0]
  /\ victim    = [r \in Runs |-> {}]
  /\ cancel    = [e \in Execs |-> "idle"]
  /\ toSignal  = [e \in Execs |-> {}]
  /\ sessions  = [h \in Hosts |-> 0]
  /\ offlineQueue = [h \in Hosts |-> <<>>]
  /\ srv       = [s \in Streams |-> "none"]
  /\ batch     = [s \in Streams |-> <<>>]
  /\ hit       = [s \in Streams |-> {}]
  /\ strand = {} /\ expiring = {}
  /\ fin = [t \in Threads |-> {}] /\ finMu = {}
  /\ restarts = 0
  /\ link = [s \in Streams |-> "none"]
  /\ down = [s \in Streams |-> <<>>]
  /\ up   = [s \in Streams |-> <<>>]
  /\ agentConn = [h \in Hosts |-> 0]
  /\ ready     = [h \in Hosts |-> FALSE]
  /\ live      = [r \in Runs |-> 0]
  /\ starts    = [r \in Runs |-> 0]
  /\ chunked   = [r \in Runs |-> FALSE]
  /\ cancelReq = [r \in Runs |-> FALSE]
  /\ outcomes  = [r \in Runs |-> {}]
  /\ spooled   = [r \in Runs |-> FALSE]
  /\ spool     = [r \in Runs |-> <<>>]
  /\ crashes   = [h \in Hosts |-> 0]

-----------------------------------------------------------------------------
(* Statements and sends shared by the threads. *)

\* UPDATE execution_runs ... WHERE id = r.
SetRun(r, new) ==
  runState' = [runState EXCEPT ![r] = UpdateRunState(runState[r], new)]

\* sess.send(m) returning nil: the envelope is handed to the transport, which
\* may already be broken without the server knowing.
SendOK(s, m) ==
  /\ srv[s] # "closed"
  /\ down' = IF link[s] = "up" THEN [down EXCEPT ![s] = Append(@, m)] ELSE down

\* sess.send(m) returning an error: the transport is known to be broken.
SendErr(s) == link[s] = "cut" /\ UNCHANGED down

Owes(t, es) == fin' = [fin EXCEPT ![t] = es]

Rows(e) == {runState[<<e, h>>] : h \in Hosts} \ {"none"}

-----------------------------------------------------------------------------
(* Control.Dispatch: one host after the other.  A run is at "todo" until its  *)
(* turn comes and ends at "terminal" or "open" (allTerminal becomes false).   *)

Waiting == {"idle", "todo", "terminal", "open"}

DispUnchanged == UNCHANGED <<hostState, cancelVars, sessions, srvVars, strand,
                             expiring, finMu, restarts, link, up, agentVars>>

\* ResolveSelector, then CreateExecution.
CreateExecution(e) ==
  /\ execState[e] = "none" /\ disp[e] = "idle"
  /\ execState' = [execState EXCEPT ![e] = "dispatching"]
  /\ disp' = [disp EXCEPT ![e] = "loop"]
  /\ \E T \in SUBSET Hosts \ {{}} :
       at' = [r \in Runs |-> IF r[1] = e /\ r[2] \in T THEN "todo" ELSE at[r]]
  /\ UNCHANGED <<runState, verdict, via, victim, offlineQueue, fin, down>>
  /\ DispUnchanged

\* Bug: require_approval falls through to the send.
CreateRun_FallsThrough(r) ==
  /\ at[r] = "todo" /\ \A h \in Hosts : at[<<r[1], h>>] \in Waiting
  /\ runState' = [runState EXCEPT ![r] = "queued"]
  /\ \E eff \in Effects :
       /\ verdict' = [verdict EXCEPT ![r] = eff]
       /\ at' = [at EXCEPT ![r] = IF eff = "deny" THEN "deny" ELSE "allow"]
  /\ UNCHANGED <<execState, disp, via, victim, offlineQueue, fin, down>>
  /\ DispUnchanged

\* policy.Evaluate for one host, then CreateExecutionRun.
CreateRun(r) ==
  /\ at[r] = "todo" /\ \A h \in Hosts : at[<<r[1], h>>] \in Waiting
  /\ runState' = [runState EXCEPT ![r] = "queued"]
  /\ \E eff \in Effects :
       /\ verdict' = [verdict EXCEPT ![r] = eff]
       /\ at' = [at EXCEPT ![r] = eff]
  /\ UNCHANGED <<execState, disp, via, victim, offlineQueue, fin, down>>
  /\ DispUnchanged

\* The dispatcher writes its run's row and goes on to the next host.
CloseRun(r, from, new, to) ==
  /\ at[r] = from
  /\ SetRun(r, new)
  /\ at' = [at EXCEPT ![r] = to]
  /\ via' = [via EXCEPT ![r] = 0]
  /\ UNCHANGED <<execState, verdict, disp, victim, offlineQueue, fin, down>>
  /\ DispUnchanged

DenyRun(r)         == CloseRun(r, "deny", "denied", "terminal")
ParkRun(r)         == CloseRun(r, "require_approval", "awaiting_approval", "open")
MarkDelivered(r)   == CloseRun(r, "sent", "delivered", "open")
MarkUndelivered(r) == CloseRun(r, "unsent", "not_delivered", "terminal")

\* SendCommand reads Handler.sessions under mu.
LookupSession(r) ==
  /\ at[r] = "allow"
  /\ via' = [via EXCEPT ![r] = sessions[r[2]]]
  /\ at' = [at EXCEPT ![r] = IF sessions[r[2]] = 0 THEN "offline" ELSE "live"]
  /\ UNCHANGED <<execState, runState, verdict, disp, victim, offlineQueue, fin, down>>
  /\ DispUnchanged

\* SendCommand with a session: sess.send after mu is released.
SendLive(r) ==
  /\ at[r] = "live"
  /\ \/ /\ SendOK(<<r[2], via[r]>>, [e |-> r[1], op |-> "command"])
        /\ at' = [at EXCEPT ![r] = "sent"]
     \/ /\ SendErr(<<r[2], via[r]>>)
        /\ at' = [at EXCEPT ![r] = "unsent"]
  /\ UNCHANGED <<execState, runState, verdict, disp, via, victim, offlineQueue, fin>>
  /\ DispUnchanged

\* queueOffline: append, evicting the oldest envelope at the cap.
QueueOffline(r) ==
  /\ at[r] = "offline"
  /\ LET q    == offlineQueue[r[2]]
         full == Len(q) >= OfflineCap
     IN  /\ offlineQueue' =
              [offlineQueue EXCEPT ![r[2]] = Append(IF full THEN Tail(q) ELSE q, r[1])]
         /\ at' = [at EXCEPT ![r] = IF full THEN "evict" ELSE "park"]
         /\ victim' = [victim EXCEPT ![r] = IF full THEN {Head(q)} ELSE {}]
  /\ UNCHANGED <<execState, runState, verdict, disp, via, fin, down>>
  /\ DispUnchanged

\* Bug: the evicted run is expired but its execution is not finalized.
ExpireEvicted_NoHook(r) ==
  /\ at[r] = "evict"
  /\ \E v \in victim[r] : SetRun(<<v, r[2]>>, "expired")
  /\ at' = [at EXCEPT ![r] = "park"]
  /\ victim' = [victim EXCEPT ![r] = {}]
  /\ UNCHANGED <<execState, verdict, disp, via, offlineQueue, fin, down>>
  /\ DispUnchanged

\* queueOffline, after the lock: expireQueued(dropped).
ExpireEvicted(r) ==
  /\ at[r] = "evict"
  /\ \E v \in victim[r] : SetRun(<<v, r[2]>>, "expired")
  /\ Owes(Dispatcher(r[1]), victim[r])
  /\ at' = [at EXCEPT ![r] = "park"]
  /\ victim' = [victim EXCEPT ![r] = {}]
  /\ UNCHANGED <<execState, verdict, disp, via, offlineQueue, down>>
  /\ DispUnchanged

\* ErrAgentOffline: MarkQueuedOfflineIfQueued.
MarkQueuedOffline(r) ==
  /\ at[r] = "park" /\ fin[Dispatcher(r[1])] = {}
  /\ runState' = [runState EXCEPT ![r] = MarkQueuedOfflineIfQueued(@)]
  /\ at' = [at EXCEPT ![r] = "open"]
  /\ UNCHANGED <<execState, verdict, disp, via, victim, offlineQueue, fin, down>>
  /\ DispUnchanged

\* After the last host: finalize at once when every run is terminal already.
FinishDispatch(e) ==
  /\ disp[e] = "loop"
  /\ \A h \in Hosts : at[<<e, h>>] \in Waiting \ {"todo"}
  /\ Owes(Dispatcher(e), IF \E h \in Hosts : at[<<e, h>>] = "open" THEN {} ELSE {e})
  /\ disp' = [disp EXCEPT ![e] = "done"]
  /\ at' = [r \in Runs |-> IF r[1] = e THEN "idle" ELSE at[r]]
  /\ UNCHANGED <<execState, runState, verdict, via, victim, offlineQueue, down>>
  /\ DispUnchanged

DispatchRun(r) ==
  \/ CreateRun(r) \/ DenyRun(r) \/ ParkRun(r)
  \/ LookupSession(r) \/ SendLive(r) \/ MarkDelivered(r) \/ MarkUndelivered(r)
  \/ QueueOffline(r) \/ ExpireEvicted(r) \/ MarkQueuedOffline(r)

Dispatch(e) ==
  \/ CreateExecution(e) \/ FinishDispatch(e)
  \/ \E h \in Hosts : DispatchRun(<<e, h>>)

-----------------------------------------------------------------------------
(* Control.FinalizeExecution and Control.CancelExecution *)

\* Lock finMu and list the rows; a cancelled row ends the call at once.
FinRead(t, e) ==
  /\ finMu = {} /\ e \in fin[t]
  /\ IF "cancelled" \in Rows(e)
       THEN fin' = [fin EXCEPT ![t] = @ \ {e}] /\ UNCHANGED finMu
       ELSE finMu' = {<<t, e, Aggregate(Rows(e))>>} /\ UNCHANGED fin
  /\ UNCHANGED <<dbVars, dispVars, cancelVars, sessions, offlineQueue, srvVars,
                 strand, expiring, restarts, agentVars, netVars>>

\* UpdateExecutionState and unlock.
FinWrite ==
  /\ \E m \in finMu :
       /\ execState' = [execState EXCEPT ![m[2]] = m[3]]
       /\ fin' = [fin EXCEPT ![m[1]] = @ \ {m[2]}]
  /\ finMu' = {}
  /\ UNCHANGED <<runState, hostState, verdict, dispVars, cancelVars, sessions,
                 offlineQueue, srvVars, strand, expiring, restarts,
                 agentVars, netVars>>

CancelUnchanged == UNCHANGED <<hostState, verdict, dispVars, sessions,
                               offlineQueue, srvVars, strand, expiring, fin,
                               finMu, restarts, link, up, agentVars>>

\* GetExecution and the refusal of a settled execution.
CancelCheck(e) ==
  /\ e \in Cancellable /\ cancel[e] = "idle"
  /\ execState[e] \notin SettledExecStates \cup {"none"}
  /\ cancel' = [cancel EXCEPT ![e] = "list"]
  /\ UNCHANGED <<execState, runState, toSignal, down>>
  /\ CancelUnchanged

\* ListRunsForExecution: the runs to signal.
CancelList(e) ==
  /\ cancel[e] = "list"
  /\ cancel' = [cancel EXCEPT ![e] = "signal"]
  /\ toSignal' = [toSignal EXCEPT
       ![e] = {h \in Hosts : runState[<<e, h>>] \in InFlightStates}]
  /\ UNCHANGED <<execState, runState, down>>
  /\ CancelUnchanged

\* SendCancel to one host, best effort.
CancelSignal(e, h) ==
  /\ cancel[e] = "signal" /\ h \in toSignal[e]
  /\ toSignal' = [toSignal EXCEPT ![e] = @ \ {h}]
  /\ IF sessions[h] # 0 /\ link[<<h, sessions[h]>>] = "up"
       THEN down' = [down EXCEPT ![<<h, sessions[h]>>] =
                                   Append(@, [e |-> e, op |-> "cancel"])]
       ELSE UNCHANGED down
  /\ UNCHANGED <<execState, runState, cancel>>
  /\ CancelUnchanged

\* CancelNonTerminalRuns.
CancelRuns(e) ==
  /\ cancel[e] = "signal" /\ toSignal[e] = {}
  /\ runState' = [r \in Runs |-> IF r[1] = e THEN CancelNonTerminalRun(runState[r])
                                             ELSE runState[r]]
  /\ cancel' = [cancel EXCEPT ![e] = "state"]
  /\ UNCHANGED <<execState, toSignal, down>>
  /\ CancelUnchanged

\* UpdateExecutionState(cancelled).
CancelState(e) ==
  /\ cancel[e] = "state"
  /\ execState' = [execState EXCEPT ![e] = "cancelled"]
  /\ cancel' = [cancel EXCEPT ![e] = "done"]
  /\ UNCHANGED <<runState, toSignal, down>>
  /\ CancelUnchanged

CancelExecution(e) ==
  \/ CancelCheck(e) \/ CancelList(e) \/ CancelRuns(e) \/ CancelState(e)
  \/ \E h \in Hosts : CancelSignal(e, h)

-----------------------------------------------------------------------------
(* Handler.Stream: one goroutine per accepted stream *)

StreamUnchanged == UNCHANGED <<execState, verdict, dispVars, cancelVars, strand,
                               expiring, finMu, restarts>>

Goto(s, pc) == srv' = [srv EXCEPT ![s] = pc]

\* The agent dials and proves its identity; the handler marks the host
\* connected.
Connect(s) ==
  /\ srv[s] = "none" /\ agentConn[s[1]] = 0
  /\ \A k \in 1..(s[2] - 1) : srv[<<s[1], k>>] # "none"
  /\ link' = [link EXCEPT ![s] = "up"]
  /\ agentConn' = [agentConn EXCEPT ![s[1]] = s[2]]
  /\ hostState' = [hostState EXCEPT ![s[1]] = "connected"]
  /\ Goto(s, "register")
  /\ UNCHANGED <<batch, hit, runState, sessions, offlineQueue, fin, down, up, ready, live, starts,
                 chunked, cancelReq, outcomes, spooled, spool, crashes>>
  /\ StreamUnchanged

Register(s) ==
  /\ srv[s] = "register"
  /\ sessions' = [sessions EXCEPT ![s[1]] = s[2]]
  /\ Goto(s, "drain")
  /\ UNCHANGED <<batch, hit, runState, hostState, offlineQueue, fin, agentVars, netVars>>
  /\ StreamUnchanged

\* drainOffline reads the queue, releases offlineMu ...
DrainRead(s) ==
  /\ srv[s] = "drain"
  /\ Goto(s, IF offlineQueue[s[1]] = <<>> THEN "loop" ELSE "take")
  /\ batch' = [batch EXCEPT ![s] = offlineQueue[s[1]]]
  /\ UNCHANGED <<hit, runState, hostState, sessions, offlineQueue, fin, agentVars, netVars>>
  /\ StreamUnchanged

\* ... and takes it again to delete the queue.
DrainTake(s) ==
  /\ srv[s] = "take"
  /\ offlineQueue' = [offlineQueue EXCEPT ![s[1]] = <<>>]
  /\ Goto(s, "deliver")
  /\ UNCHANGED <<batch, hit, runState, hostState, sessions, fin, agentVars, netVars>>
  /\ StreamUnchanged

\* One envelope of the snapshot: past its TTL, sent, or not sent, in which
\* case it and the tail are queued again (requeueOffline).
DrainStep(s) ==
  /\ srv[s] = "deliver" /\ batch[s] # <<>> /\ fin[Handler(s)] = {}
  /\ LET q == batch[s]
     IN  \/ /\ SetRun(<<Head(q), s[1]>>, "expired")
            /\ Owes(Handler(s), {Head(q)})
            /\ batch' = [batch EXCEPT ![s] = Tail(q)]
            /\ UNCHANGED <<srv, offlineQueue, down>>
         \/ /\ SendOK(s, [e |-> Head(q), op |-> "command"])
            /\ Goto(s, "mark")
            /\ UNCHANGED <<batch, runState, offlineQueue, fin>>
         \/ /\ SendErr(s)
            /\ offlineQueue' = [offlineQueue EXCEPT ![s[1]] = @ \o q]
            /\ Goto(s, "loop")
            /\ batch' = [batch EXCEPT ![s] = <<>>]
            /\ UNCHANGED <<runState, fin>>
  /\ UNCHANGED <<hit, hostState, sessions, link, up, agentVars>>
  /\ StreamUnchanged

DrainMark(s) ==
  /\ srv[s] = "mark"
  /\ SetRun(<<Head(batch[s]), s[1]>>, "delivered")
  /\ Goto(s, "deliver")
  /\ batch' = [batch EXCEPT ![s] = Tail(@)]
  /\ UNCHANGED <<hit, hostState, sessions, offlineQueue, fin, agentVars, netVars>>
  /\ StreamUnchanged

DrainDone(s) ==
  /\ srv[s] = "deliver" /\ batch[s] = <<>> /\ fin[Handler(s)] = {}
  /\ Goto(s, "loop")
  /\ UNCHANGED <<batch, hit, runState, hostState, sessions, offlineQueue, fin, agentVars, netVars>>
  /\ StreamUnchanged

\* handleUp: output promotes the run, a result is written and finalized.
HandleUp(s) ==
  /\ srv[s] = "loop" /\ up[s] # <<>> /\ fin[Handler(s)] = {}
  /\ LET m == Head(up[s])
         r == <<m.e, s[1]>>
     IN  IF m.is = "output"
           THEN /\ runState' = [runState EXCEPT ![r] = PromoteRunToRunning(@)]
                /\ UNCHANGED fin
           ELSE SetRun(r, m.is) /\ Owes(Handler(s), {m.e})
  /\ up' = [up EXCEPT ![s] = Tail(@)]
  /\ UNCHANGED <<hostState, sessions, offlineQueue, srvVars, link, down, agentVars>>
  /\ StreamUnchanged

\* Bug: the teardown forgets the session entry.
Unregister_KeepsSession(s) ==
  /\ srv[s] = "loop" /\ link[s] = "cut" /\ up[s] = <<>> /\ fin[Handler(s)] = {}
  /\ Goto(s, "offline")
  /\ UNCHANGED <<batch, hit, runState, hostState, sessions, offlineQueue, fin, agentVars, netVars>>
  /\ StreamUnchanged

\* Recv fails: the deferred teardown deletes the host's session entry ...
Unregister(s) ==
  /\ srv[s] = "loop" /\ link[s] = "cut" /\ up[s] = <<>> /\ fin[Handler(s)] = {}
  /\ sessions' = [sessions EXCEPT ![s[1]] = 0]
  /\ Goto(s, "offline")
  /\ UNCHANGED <<batch, hit, runState, hostState, offlineQueue, fin, agentVars, netVars>>
  /\ StreamUnchanged

\* ... marks the host disconnected ...
MarkDisconnected(s) ==
  /\ srv[s] = "offline"
  /\ hostState' = [hostState EXCEPT ![s[1]] = "disconnected"]
  /\ Goto(s, "select")
  /\ UNCHANGED <<batch, hit, runState, sessions, offlineQueue, fin, agentVars, netVars>>
  /\ StreamUnchanged

\* ... and runs onAgentDisconnect: InterruptAgentRuns selects, updates, and
\* the executions it selected are finalized.
InterruptSelect(s) ==
  /\ srv[s] = "select"
  /\ LET found == {e \in Execs : runState[<<e, s[1]>>] \in InFlightStates}
     IN  /\ Goto(s, IF found = {} THEN "closed" ELSE "interrupt")
         /\ hit' = [hit EXCEPT ![s] = found]
  /\ UNCHANGED <<batch, runState, hostState, sessions, offlineQueue, fin, agentVars, netVars>>
  /\ StreamUnchanged

InterruptUpdate(s) ==
  /\ srv[s] = "interrupt"
  /\ runState' = [r \in Runs |-> IF r[2] = s[1] THEN InterruptRun(runState[r])
                                                ELSE runState[r]]
  /\ Owes(Handler(s), hit[s])
  /\ Goto(s, "closed")
  /\ hit' = [hit EXCEPT ![s] = {}]
  /\ UNCHANGED <<batch, hostState, sessions, offlineQueue, agentVars, netVars>>
  /\ StreamUnchanged

ServeDrain(s) == DrainRead(s) \/ DrainTake(s) \/ DrainStep(s) \/ DrainMark(s) \/ DrainDone(s)
Teardown(s)   == Unregister(s) \/ MarkDisconnected(s) \/ InterruptSelect(s) \/ InterruptUpdate(s)
Serve(s)      == Register(s) \/ ServeDrain(s) \/ HandleUp(s) \/ Teardown(s)

-----------------------------------------------------------------------------
(* The sweepers and a server restart *)

SweepUnchanged == UNCHANGED <<execState, hostState, verdict, dispVars, cancelVars,
                              sessions, srvVars, finMu, restarts, agentVars, netVars>>

\* StrandedInterruptedRuns: SELECT rows interrupted before the cutoff ...
StrandSelect ==
  /\ strand = {} /\ fin[StrandSweeper] = {}
  /\ \E S \in SUBSET {r \in Runs : runState[r] = "interrupted"} \ {{}} : strand' = S
  /\ UNCHANGED <<runState, offlineQueue, expiring, fin>>
  /\ SweepUnchanged

\* Bug: the sweep resolves the rows but not their executions.
StrandUpdate_NoFinalize ==
  /\ strand # {}
  /\ runState' = [r \in Runs |-> IF r \in strand THEN ResolveStranded(runState[r])
                                                 ELSE runState[r]]
  /\ strand' = {}
  /\ UNCHANGED <<offlineQueue, expiring, fin>>
  /\ SweepUnchanged

\* ... UPDATE them, then SweepInterrupted finalizes their executions.
StrandUpdate ==
  /\ strand # {}
  /\ runState' = [r \in Runs |-> IF r \in strand THEN ResolveStranded(runState[r])
                                                 ELSE runState[r]]
  /\ Owes(StrandSweeper, {r[1] : r \in strand})
  /\ strand' = {}
  /\ UNCHANGED <<offlineQueue, expiring>>
  /\ SweepUnchanged

Queued(r) == \E i \in DOMAIN offlineQueue[r[2]] : offlineQueue[r[2]][i] = r[1]

Envelopes == UNION {{h} \X DOMAIN offlineQueue[h] : h \in Hosts}

\* The envelopes of a queue at the positions I, in order.
Keep(q, I) ==
  [n \in 1..Cardinality(I) |->
     q[CHOOSE i \in I : Cardinality({j \in I : j <= i}) = n]]

\* Bug: the sweeper skips hosts that have a session.
ExpireSweep_OfflineOnly ==
  /\ expiring = {} /\ fin[OfflineSweeper] = {}
  /\ \E old \in SUBSET {x \in Envelopes : sessions[x[1]] = 0} \ {{}} :
       /\ expiring' = {<<offlineQueue[x[1]][x[2]], x[1]>> : x \in old}
       /\ offlineQueue' = [h \in Hosts |->
            Keep(offlineQueue[h], {i \in DOMAIN offlineQueue[h] : <<h, i>> \notin old})]
  /\ UNCHANGED <<runState, strand, fin>>
  /\ SweepUnchanged

\* One tick of the offline sweeper: envelopes past their TTL leave the queues
\* under offlineMu ...
ExpireSweep ==
  /\ expiring = {} /\ fin[OfflineSweeper] = {}
  /\ \E old \in SUBSET Envelopes \ {{}} :
       /\ expiring' = {<<offlineQueue[x[1]][x[2]], x[1]>> : x \in old}
       /\ offlineQueue' = [h \in Hosts |->
            Keep(offlineQueue[h], {i \in DOMAIN offlineQueue[h] : <<h, i>> \notin old})]
  /\ UNCHANGED <<runState, strand, fin>>
  /\ SweepUnchanged

\* Bug: expireQueued without the result hook.
ExpireQueued_NoHook(r) ==
  /\ r \in expiring /\ fin[OfflineSweeper] = {}
  /\ SetRun(r, "expired")
  /\ expiring' = expiring \ {r}
  /\ UNCHANGED <<offlineQueue, strand, fin>>
  /\ SweepUnchanged

\* ... and are expired one by one outside it.
ExpireQueued(r) ==
  /\ r \in expiring /\ fin[OfflineSweeper] = {}
  /\ SetRun(r, "expired")
  /\ Owes(OfflineSweeper, {r[1]})
  /\ expiring' = expiring \ {r}
  /\ UNCHANGED <<offlineQueue, strand>>
  /\ SweepUnchanged

Sweep == StrandSelect \/ StrandUpdate \/ ExpireSweep \/ \E r \in Runs : ExpireQueued(r)

\* The process dies and starts again: memory and streams are gone; before it
\* serves, MarkAllDisconnected and ExpireStaleOfflineRuns repair the rows and
\* the executions concerned are finalized.
ServerRestart ==
  /\ restarts < MaxRestarts
  /\ restarts' = restarts + 1
  /\ runState' = [r \in Runs |-> ExpireStaleOfflineRun(runState[r])]
  /\ execState' = [e \in Execs |->
       LET rows == {runState'[<<e, h>>] : h \in Hosts} \ {"none"}
       IN  IF "queued_offline" \in Rows(e) /\ "cancelled" \notin rows
             THEN Aggregate(rows) ELSE execState[e]]
  /\ hostState' = [h \in Hosts |-> "disconnected"]
  /\ disp' = [e \in Execs |-> IF disp[e] = "idle" THEN "idle" ELSE "done"]
  /\ at' = [r \in Runs |-> "idle"]
  /\ via' = [r \in Runs |-> 0]
  /\ victim' = [r \in Runs |-> {}]
  /\ cancel' = [e \in Execs |-> IF cancel[e] = "idle" THEN "idle" ELSE "done"]
  /\ toSignal' = [e \in Execs |-> {}]
  /\ sessions' = [h \in Hosts |-> 0]
  /\ offlineQueue' = [h \in Hosts |-> <<>>]
  /\ srv' = [s \in Streams |-> IF srv[s] = "none" THEN "none" ELSE "closed"]
  /\ batch' = [s \in Streams |-> <<>>]
  /\ hit' = [s \in Streams |-> {}]
  /\ strand' = {} /\ expiring' = {} /\ finMu' = {}
  /\ fin' = [t \in Threads |-> {}]
  /\ link' = [s \in Streams |-> IF link[s] = "none" THEN "none" ELSE "cut"]
  /\ down' = [s \in Streams |-> <<>>]
  /\ up'   = [s \in Streams |-> <<>>]
  /\ UNCHANGED <<verdict, agentVars>>

-----------------------------------------------------------------------------
(* The transport *)

\* The link of a stream breaks: down envelopes in flight are lost, of the up
\* envelopes some prefix has reached the server.
Cut(s) ==
  /\ link[s] = "up"
  /\ link' = [link EXCEPT ![s] = "cut"]
  /\ down' = [down EXCEPT ![s] = <<>>]
  /\ \E n \in 0..Len(up[s]) : up' = [up EXCEPT ![s] = SubSeq(@, 1, n)]
  /\ UNCHANGED <<dbVars, serverVars, agentVars>>

-----------------------------------------------------------------------------
(* The agent: connectAndStream, handleDown, execCommand, drainSpool *)

AgentUnchanged == UNCHANGED <<dbVars, serverVars>>

AgentStream(h) == <<h, agentConn[h]>>

\* Send or Recv fails: connectAndStream returns and the stream is closed.
AgentNotice(h) ==
  /\ agentConn[h] # 0 /\ link[AgentStream(h)] = "cut"
  /\ agentConn' = [agentConn EXCEPT ![h] = 0]
  /\ ready' = [ready EXCEPT ![h] = FALSE]
  /\ UNCHANGED <<live, starts, chunked, cancelReq, outcomes,
                 spooled, spool, crashes, netVars>>
  /\ AgentUnchanged

\* A run Drain considers: its records include the result.
Complete(r) == \E i \in DOMAIN spool[r] : spool[r][i] \in ResultStates

\* The drain made on connecting is over; the envelope loop starts.
EnterLoop(h) ==
  /\ agentConn[h] # 0 /\ ~ready[h]
  /\ \A e \in Execs : ~Complete(<<e, h>>)
  /\ ready' = [ready EXCEPT ![h] = TRUE]
  /\ UNCHANGED <<agentConn, live, starts, chunked, cancelReq, outcomes,
                 spooled, spool, crashes, netVars>>
  /\ AgentUnchanged

\* handleDown: a command passes the guardrail and starts, or is refused with
\* an ACK the server only logs; a cancel reaches a live run's context.
Receive(h) ==
  /\ agentConn[h] # 0 /\ ready[h] /\ down[AgentStream(h)] # <<>>
  /\ down' = [down EXCEPT ![AgentStream(h)] = Tail(@)]
  /\ LET m == Head(down[AgentStream(h)])
         r == <<m.e, h>>
     IN  \/ /\ m.op = "command"
            /\ live' = [live EXCEPT ![r] = @ + 1]
            /\ starts' = [starts EXCEPT ![r] = @ + 1]
            /\ UNCHANGED cancelReq
         \/ /\ m.op = "command" /\ MayRefuse
            /\ UNCHANGED <<live, starts, cancelReq>>
         \/ /\ m.op = "cancel"
            /\ cancelReq' = [cancelReq EXCEPT ![r] = @ \/ live[r] > 0]
            /\ UNCHANGED <<live, starts>>
  /\ UNCHANGED <<agentConn, ready, chunked, outcomes, spooled, spool, crashes,
                 link, up>>
  /\ AgentUnchanged

\* deliver: the stream takes the record (and may lose it), or the run is in
\* spool mode, or Send fails and the run enters spool mode.
Deliver(r, kind) ==
  LET s == AgentStream(r[2])
  IN  \/ /\ ~spooled[r] /\ agentConn[r[2]] # 0
         /\ up' = IF link[s] = "up"
                    THEN [up EXCEPT ![s] = Append(@, [e |-> r[1], is |-> kind])]
                    ELSE up
         /\ UNCHANGED <<spooled, spool>>
      \/ /\ ~(~spooled[r] /\ agentConn[r[2]] # 0 /\ link[s] = "up")
         /\ spooled' = [spooled EXCEPT ![r] = TRUE]
         /\ spool' = [spool EXCEPT ![r] = Append(@, kind)]
         /\ UNCHANGED up

\* onChunk; the model's command writes one chunk.
Output(r) ==
  /\ live[r] > 0 /\ r[1] \in Chatty /\ ~chunked[r]
  /\ chunked' = [chunked EXCEPT ![r] = TRUE]
  /\ Deliver(r, "output")
  /\ UNCHANGED <<agentConn, ready, live, starts, cancelReq, outcomes,
                 crashes, link, down>>
  /\ AgentUnchanged

\* Bug: the run's context derives from the stream, so a disconnect kills it.
Finish_SessionContext(r) ==
  /\ live[r] > 0
  /\ live' = [live EXCEPT ![r] = @ - 1]
  /\ \E o \in IF cancelReq[r] \/ agentConn[r[2]] = 0 THEN {"cancelled"} ELSE Exits :
       /\ outcomes' = [outcomes EXCEPT ![r] = @ \cup {o}]
       /\ Deliver(r, o)
  /\ UNCHANGED <<agentConn, ready, starts, chunked, cancelReq, crashes,
                 link, down>>
  /\ AgentUnchanged

\* The process ends and execCommand delivers its result.
Finish(r) ==
  /\ live[r] > 0
  /\ live' = [live EXCEPT ![r] = @ - 1]
  /\ \E o \in IF cancelReq[r] THEN {"cancelled", "timed_out", "failed"} ELSE Exits :
       /\ outcomes' = [outcomes EXCEPT ![r] = @ \cup {o}]
       /\ Deliver(r, o)
  /\ UNCHANGED <<agentConn, ready, starts, chunked, cancelReq, crashes,
                 link, down>>
  /\ AgentUnchanged

Replayed(r) == [i \in DOMAIN spool[r] |-> [e |-> r[1], is |-> spool[r][i]]]

\* Spool.Drain of one complete run: every Send returned nil, so the run leaves
\* the spool, whether or not the transport still carries the records.
DrainSpool(r) ==
  /\ Complete(r) /\ agentConn[r[2]] # 0
  /\ LET s == AgentStream(r[2])
     IN  up' = IF link[s] = "up" THEN [up EXCEPT ![s] = @ \o Replayed(r)] ELSE up
  /\ spool' = [spool EXCEPT ![r] = <<>>]
  /\ spooled' = [spooled EXCEPT ![r] = FALSE]
  /\ UNCHANGED <<agentConn, ready, live, starts, chunked, cancelReq, outcomes, crashes, link, down>>
  /\ AgentUnchanged

\* A Send of the drain fails: the whole run is kept for the next attempt.
DrainCut(r) ==
  /\ Complete(r) /\ agentConn[r[2]] # 0 /\ link[AgentStream(r[2])] = "up"
  /\ LET s == AgentStream(r[2])
     IN  /\ \E n \in 0..(Len(spool[r]) - 1) :
              up' = [up EXCEPT ![s] = @ \o SubSeq(Replayed(r), 1, n)]
         /\ link' = [link EXCEPT ![s] = "cut"]
         /\ down' = [down EXCEPT ![s] = <<>>]
  /\ UNCHANGED agentVars
  /\ AgentUnchanged

\* The TTL or a cap drops a run wholesale; the run stays in spool mode.
SpoolDrop(r) ==
  /\ SpoolLossy /\ spool[r] # <<>>
  /\ spool' = [spool EXCEPT ![r] = <<>>]
  /\ UNCHANGED <<agentConn, ready, live, starts, chunked, cancelReq, outcomes, spooled, crashes, netVars>>
  /\ AgentUnchanged

\* The agent dies: its processes and the RAM tier of the spool are gone, runs
\* that had been spilled to disk are adopted by the next process.
AgentCrash(h) ==
  /\ crashes[h] < MaxCrashes
  /\ crashes' = [crashes EXCEPT ![h] = @ + 1]
  /\ live' = [r \in Runs |-> IF r[2] = h THEN 0 ELSE live[r]]
  /\ spooled' = [r \in Runs |-> spooled[r] /\ r[2] # h]
  /\ \E D \in SUBSET {r \in Runs : r[2] = h /\ spool[r] # <<>>} :
       spool' = [r \in Runs |-> IF r[2] = h /\ r \notin D THEN <<>> ELSE spool[r]]
  /\ agentConn' = [agentConn EXCEPT ![h] = 0]
  /\ ready' = [ready EXCEPT ![h] = FALSE]
  /\ LET s == AgentStream(h)
     IN  IF agentConn[h] # 0 /\ link[s] = "up"
           THEN /\ link' = [link EXCEPT ![s] = "cut"]
                /\ down' = [down EXCEPT ![s] = <<>>]
           ELSE UNCHANGED <<link, down>>
  /\ UNCHANGED <<starts, chunked, cancelReq, outcomes, up>>
  /\ AgentUnchanged

RunStep(r)   == Output(r) \/ Finish(r)
SpoolStep(r) == DrainSpool(r) \/ DrainCut(r) \/ SpoolDrop(r)

-----------------------------------------------------------------------------
Finalize == FinWrite \/ \E t \in Threads, e \in Execs : FinRead(t, e)

Next ==
  \/ \E e \in Execs : Dispatch(e) \/ CancelExecution(e)
  \/ Finalize
  \/ \E s \in Streams : Connect(s) \/ Serve(s) \/ Cut(s)
  \/ Sweep \/ ServerRestart
  \/ \E h \in Hosts : AgentNotice(h) \/ EnterLoop(h) \/ Receive(h) \/ AgentCrash(h)
  \/ \E r \in Runs : RunStep(r) \/ SpoolStep(r)

Spec == Init /\ [][Next]_vars

\* The two sweepers tick and finMu is handed on.
SweepFairness ==
  /\ WF_vars(Finalize)
  /\ WF_vars(StrandSelect \/ StrandUpdate)
  /\ WF_vars(ExpireSweep \/ \E r \in Runs : ExpireQueued(r))

SweepSpec == Spec /\ SweepFairness

-----------------------------------------------------------------------------
(* Properties *)

Positions == Waiting \cup {"deny", "require_approval", "allow", "live", "sent",
                           "unsent", "offline", "evict", "park"}
CancelPCs == {"idle", "list", "signal", "state", "done"}
Serving   == {"drain", "take", "deliver", "mark", "loop"}
SrvPCs    == Serving \cup {"none", "register", "offline", "select", "interrupt", "closed"}

DbType ==
  /\ execState \in [Execs -> ExecStates]
  /\ runState \in [Runs -> RunStates]
  /\ hostState \in [Hosts -> {"connected", "disconnected"}]
  /\ verdict \in [Runs -> {"none", "allow", "deny", "require_approval"}]

ControlType ==
  /\ disp \in [Execs -> {"idle", "loop", "done"}]
  /\ at \in [Runs -> Positions]
  /\ via \in [Runs -> 0..MaxConn]
  /\ victim \in [Runs -> SUBSET Execs]
  /\ cancel \in [Execs -> CancelPCs]
  /\ toSignal \in [Execs -> SUBSET Hosts]
  /\ fin \in [Threads -> SUBSET Execs]
  /\ finMu \in SUBSET (Threads \X Execs \X ExecStates)

StreamType ==
  /\ sessions \in [Hosts -> 0..MaxConn]
  /\ offlineQueue \in [Hosts -> Seq(Execs)]
  /\ srv \in [Streams -> SrvPCs]
  /\ batch \in [Streams -> Seq(Execs)]
  /\ hit \in [Streams -> SUBSET Execs]
  /\ strand \in SUBSET Runs
  /\ expiring \in SUBSET Runs
  /\ restarts \in Nat

NetType ==
  /\ link \in [Streams -> {"none", "up", "cut"}]
  /\ down \in [Streams -> Seq(DownMsgs)]
  /\ up \in [Streams -> Seq(UpMsgs)]

AgentType ==
  /\ agentConn \in [Hosts -> 0..MaxConn]
  /\ ready \in [Hosts -> BOOLEAN]
  /\ live \in [Runs -> Nat]
  /\ starts \in [Runs -> Nat]
  /\ chunked \in [Runs -> BOOLEAN]
  /\ cancelReq \in [Runs -> BOOLEAN]
  /\ outcomes \in [Runs -> SUBSET ResultStates]
  /\ spooled \in [Runs -> BOOLEAN]
  /\ spool \in [Runs -> Seq(UpKinds)]
  /\ crashes \in [Hosts -> Nat]

\* Every variable of the server (rows, goroutines, queues), the transport and
\* the agents keeps its type.
TypeOK == DbType /\ ControlType /\ StreamType /\ NetType /\ AgentType

\* A run whose row says succeeded, failed or timed_out really had that outcome
\* on the host: no replay, sweep, eviction or restart invents a result
\* (architecture 3.4: a lost run is "never silently succeeded").
TruthfulVerdict ==
  \A r \in Runs : runState[r] \in ResultStates \ {"cancelled"} => runState[r] \in outcomes[r]

\* A command only starts on a host after policy.Evaluate allowed that run,
\* whichever way it travelled (live send, offline queue, requeue).
GatedStart ==
  \A r \in Runs : starts[r] > 0 => verdict[r] = "allow"

Quiet(e) ==
  /\ disp[e] = "done" /\ cancel[e] = "idle"
  /\ \A t \in Threads : e \notin fin[t]

\* Once every goroutine that owes an execution nobody cancels a finalization is
\* done and its rows are final, executions.state is the aggregate of the rows.
SettledAggregate ==
  \A e \in Execs :
    Quiet(e) /\ Rows(e) # {} /\ Rows(e) \subseteq FinalStates \ {"cancelled"}
      => execState[e] = Aggregate(Rows(e))

\* The registered session of a host is a stream whose handler still serves it:
\* SendCommand never finds a session whose goroutine has begun its teardown.
SessionServed ==
  \A h \in Hosts : sessions[h] # 0 =>
    srv[<<h, sessions[h]>>] \in Serving

\* A final row is never rewritten: late results, replays, sweeps and the
\* dispatcher's own late writes all lose against it (UpdateRunState's WHERE).
FinalIsFinal ==
  [][\A r \in Runs : runState[r] \in FinalStates => runState'[r] = runState[r]]_vars

\* The aggregate "interrupted" is transient: FinalizeExecution reaches the true
\* outcome once the last interrupted run resolves, unless a second delivery has
\* put a run back in flight.
AggregateConverges ==
  \A e \in Execs : execState[e] = "interrupted" ~>
    \/ execState[e] # "interrupted"
    \/ Rows(e) \cap InFlightStates # {}

\* A queued envelope leaves its offline queue: delivered, evicted or swept.
QueueDrains ==
  \A r \in Runs : Queued(r) ~> ~Queued(r)

\* Nobody's run is cancelled unasked: a row, or a process on a host, is only
\* cancelled for an execution whose CancelExecution got past its check.
NoUnaskedCancel ==
  \A r \in Runs :
    runState[r] = "cancelled" \/ "cancelled" \in outcomes[r] \/ cancelReq[r]
      => cancel[r[1]] \notin {"idle", "list"}

\* The rows and the hosts behave as RunLifecycle promises.
Lifecycle == INSTANCE RunLifecycle WITH
  Runs <- Runs, runState <- runState, verdict <- verdict, starts <- starts, outcomes <- outcomes
ImplementsLifecycle == Lifecycle!Spec

-----------------------------------------------------------------------------
(* What comments and documents say, and the code does not keep. *)

\* control.go, CancelExecution stops an execution: once it returned, no cancelled
\* run is started on its host.
CancelledNeverStarts ==
  [][\A r \in Runs : runState[r] = "cancelled" /\ cancel[r[1]] = "done"
                       => starts'[r] = starts[r]]_vars

\* stream.go, drainOffline: nothing is wedged in a non-terminal state with no
\* sweepable queue entry.
InDrain(r) ==
  \E k \in Conns : \E i \in DOMAIN batch[<<r[2], k>>] : batch[<<r[2], k>>][i] = r[1]
NoWedge ==
  \A r \in Runs : runState[r] = "queued_offline" /\ disp[r[1]] = "done"
                    => Queued(r) \/ InDrain(r) \/ r \in expiring

=============================================================================
