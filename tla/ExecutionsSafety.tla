-------------------------- MODULE ExecutionsSafety --------------------------
(***************************************************************************)
(* The safety invariants of Executions and its refinement of RunLifecycle, *)
(* for every set of executions and hosts and every value of the bounds.    *)
(*                                                                         *)
(* An envelope or a record of a run is made in one place and read in       *)
(* another, with queues, a transport and a spool in between, so the        *)
(* inductive invariant follows it: whatever is queued, in flight or        *)
(* spooled is what policy allowed, an operator asked for or a process      *)
(* reported.                                                               *)
(***************************************************************************)
EXTENDS ExecutionsProofs

\* The executions policy allowed on a host, and those an operator cancels.
Allowed(h) == {e \in Execs : verdict[<<e, h>>] = "allow"}
Asked      == {e \in Execs : cancel[e] \notin {"idle", "list"}}

\* What the agent may report of a run, and the envelopes a host's streams may carry.
Reportable(r) == outcomes[r] \cup {"output"}
DownOK(h) == {m \in DownMsgs : m.e \in IF m.op = "command" THEN Allowed(h) ELSE Asked}
UpOK(h)   == {m \in UpMsgs : m.is \in Reportable(<<m.e, h>>)}

\* Where Dispatch is with a run only when policy allowed it.
Sending == {"allow", "live", "sent", "unsent", "offline", "evict", "park"}

\* A decision is recorded with the row, and Dispatch follows it; nothing but a
\* cancel touches a row that is about to be parked.
Decided ==
  \A r \in Runs :
    /\ runState[r] = "none" => verdict[r] = "none"
    /\ at[r] \in Sending => verdict[r] = "allow"
    /\ at[r] = "require_approval" =>
         verdict[r] = "require_approval" /\ runState[r] \in {"queued"} \cup FinalStates

\* Only allowed executions are queued for a host or drained to it.
QueuesAllowed ==
  /\ \A h \in Hosts : offlineQueue[h] \in Seq(Allowed(h))
  /\ \A s \in Streams : batch[s] \in Seq(Allowed(s[1]))

EnvelopesOK == \A s \in Streams : down[s] \in Seq(DownOK(s[1]))

RecordsOK ==
  /\ \A s \in Streams : up[s] \in Seq(UpOK(s[1]))
  /\ \A r \in Runs : spool[r] \in Seq(Reportable(r))

\* A process runs because policy allowed it, and is cancelled because it was asked.
ProcessesOK ==
  \A r \in Runs :
    /\ starts[r] > 0 => verdict[r] = "allow"
    /\ live[r] > 0 => starts[r] > 0
    /\ cancelReq[r] \/ "cancelled" \in outcomes[r] => r[1] \in Asked

\* A row's verdict is an outcome of the host or the server's own.
RowsOK ==
  \A r \in Runs :
    /\ runState[r] \in ResultStates \ {"cancelled"} => runState[r] \in outcomes[r]
    /\ runState[r] = "cancelled" => r[1] \in Asked

SafeInv ==
  /\ Decided /\ QueuesAllowed /\ EnvelopesOK /\ RecordsOK /\ ProcessesOK /\ RowsOK
  /\ SessionServed

-----------------------------------------------------------------------------
(* What grows, and with it what is in order *)

\* Sequences over a set are sequences over a larger one.
LEMMA SeqGrows ==
  ASSUME NEW S, NEW T, S \subseteq T, NEW q \in Seq(S)
  PROVE  q \in Seq(T)
  OBVIOUS

\* Taking from a queue, cutting it short and joining two keeps what they hold.
LEMMA SeqTakes ==
  ASSUME NEW S, NEW q \in Seq(S)
  PROVE  /\ q # <<>> => Head(q) \in S /\ Tail(q) \in Seq(S)
         /\ \A x \in S : Append(q, x) \in Seq(S)
         /\ \A p \in Seq(S) : p \o q \in Seq(S)
         /\ \A n \in 0..Len(q) : SubSeq(q, 1, n) \in Seq(S)
         /\ <<>> \in Seq(S)
  OBVIOUS

\* Policy is asked once per run, in CreateRun.
LEMMA VerdictMoves ==
  ASSUME Next, ~ \E r \in Runs : CreateRun(r)
  PROVE  UNCHANGED verdict
<1>1. ASSUME NEW e \in Execs, Dispatch(e)
      PROVE  UNCHANGED verdict
  <2>1. \A h \in Hosts : <<e, h>> \in Runs
    BY DEF Runs
  <2> QED BY <1>1, <2>1 DEF Dispatch, CreateExecution, FinishDispatch, DispatchRun, DenyRun,
             ParkRun, MarkDelivered, MarkUndelivered, CloseRun, LookupSession, SendLive,
             QueueOffline, ExpireEvicted, MarkQueuedOffline
<1>2. ASSUME NEW e \in Execs, CancelExecution(e)
      PROVE  UNCHANGED verdict
  BY <1>2 DEF CancelExecution, CancelCheck, CancelList, CancelSignal, CancelRuns,
              CancelState, CancelUnchanged
<1>3. ASSUME NEW s \in Streams, Connect(s) \/ Serve(s) \/ Cut(s)
      PROVE  UNCHANGED verdict
  BY <1>3 DEF Connect, Serve, ServeDrain, Teardown, Register, DrainRead, DrainTake,
              DrainStep, DrainMark, DrainDone, HandleUp, Unregister,
              MarkDisconnected, InterruptSelect, InterruptUpdate, StreamUnchanged,
              Cut, dbVars
<1>4. ASSUME Finalize \/ Sweep \/ ServerRestart
      PROVE  UNCHANGED verdict
  BY <1>4 DEF Finalize, FinRead, FinWrite, Sweep, StrandSelect, StrandUpdate,
              ExpireSweep, ExpireQueued, SweepUnchanged, ServerRestart, dbVars
<1>5. ASSUME NEW h \in Hosts, AgentNotice(h) \/ EnterLoop(h) \/ Receive(h) \/ AgentCrash(h)
      PROVE  UNCHANGED verdict
  BY <1>5 DEF AgentNotice, EnterLoop, Receive, AgentCrash, AgentUnchanged, dbVars
<1>6. ASSUME NEW r \in Runs, RunStep(r) \/ SpoolStep(r)
      PROVE  UNCHANGED verdict
  BY <1>6 DEF RunStep, Output, Finish, SpoolStep, DrainSpool, DrainCut, SpoolDrop,
              AgentUnchanged, dbVars
<1> QED BY <1>1, <1>2, <1>3, <1>4, <1>5, <1>6 DEF Next

\* CancelExecution moves its own state; a restart ends it.
LEMMA CancelMoves ==
  ASSUME Next, ~ \E e \in Execs : CancelExecution(e), ~ServerRestart
  PROVE  UNCHANGED cancel
<1>1. ASSUME NEW e \in Execs, Dispatch(e)
      PROVE  UNCHANGED cancel
  BY <1>1 DEF Dispatch, CreateExecution, FinishDispatch, DispatchRun, CreateRun,
         DenyRun, ParkRun, MarkDelivered, MarkUndelivered, CloseRun, LookupSession,
         SendLive, QueueOffline, ExpireEvicted, MarkQueuedOffline, DispUnchanged, cancelVars
<1>2. ASSUME NEW s \in Streams, Connect(s) \/ Serve(s) \/ Cut(s)
      PROVE  UNCHANGED cancel
  BY <1>2 DEF Connect, Serve, ServeDrain, Teardown, Register, DrainRead, DrainTake,
              DrainStep, DrainMark, DrainDone, HandleUp, Unregister,
              MarkDisconnected, InterruptSelect, InterruptUpdate, StreamUnchanged,
              Cut, serverVars, cancelVars
<1>3. ASSUME Finalize \/ Sweep
      PROVE  UNCHANGED cancel
  BY <1>3 DEF Finalize, FinRead, FinWrite, Sweep, StrandSelect, StrandUpdate,
              ExpireSweep, ExpireQueued, SweepUnchanged, cancelVars
<1>4. ASSUME NEW h \in Hosts, AgentNotice(h) \/ EnterLoop(h) \/ Receive(h) \/ AgentCrash(h)
      PROVE  UNCHANGED cancel
  BY <1>4 DEF AgentNotice, EnterLoop, Receive, AgentCrash, AgentUnchanged, serverVars, cancelVars
<1>5. ASSUME NEW r \in Runs, RunStep(r) \/ SpoolStep(r)
      PROVE  UNCHANGED cancel
  BY <1>5 DEF RunStep, Output, Finish, SpoolStep, DrainSpool, DrainCut, SpoolDrop,
              AgentUnchanged, serverVars, cancelVars
<1> QED BY <1>1, <1>2, <1>3, <1>4, <1>5 DEF Next

\* Only a process that ends has an outcome, and only a received envelope starts one.
LEMMA ProcessMoves ==
  ASSUME Next, ~ \E r \in Runs : Finish(r), ~ \E h \in Hosts : Receive(h) \/ AgentCrash(h)
  PROVE  UNCHANGED <<outcomes, starts, live, cancelReq>>
<1>1. ASSUME NEW e \in Execs, Dispatch(e)
      PROVE  UNCHANGED agentVars
  BY <1>1 DEF Dispatch, CreateExecution, FinishDispatch, DispatchRun, CreateRun,
         DenyRun, ParkRun, MarkDelivered, MarkUndelivered, CloseRun, LookupSession,
         SendLive, QueueOffline, ExpireEvicted, MarkQueuedOffline, DispUnchanged
<1>2. ASSUME NEW e \in Execs, CancelExecution(e)
      PROVE  UNCHANGED agentVars
  BY <1>2 DEF CancelExecution, CancelCheck, CancelList, CancelSignal, CancelRuns,
              CancelState, CancelUnchanged
<1>3. ASSUME NEW s \in Streams, Connect(s) \/ Serve(s) \/ Cut(s)
      PROVE  UNCHANGED <<outcomes, starts, live, cancelReq>>
  BY <1>3 DEF Connect, Serve, ServeDrain, Teardown, Register, DrainRead, DrainTake,
              DrainStep, DrainMark, DrainDone, HandleUp, Unregister,
              MarkDisconnected, InterruptSelect, InterruptUpdate, Cut, agentVars
<1>4. ASSUME Finalize \/ Sweep \/ ServerRestart
      PROVE  UNCHANGED agentVars
  BY <1>4 DEF Finalize, FinRead, FinWrite, Sweep, StrandSelect, StrandUpdate,
              ExpireSweep, ExpireQueued, SweepUnchanged, ServerRestart
<1>5. ASSUME NEW h \in Hosts, AgentNotice(h) \/ EnterLoop(h)
      PROVE  UNCHANGED <<outcomes, starts, live, cancelReq>>
  BY <1>5 DEF AgentNotice, EnterLoop
<1>6. ASSUME NEW r \in Runs, Output(r) \/ SpoolStep(r)
      PROVE  UNCHANGED <<outcomes, starts, live, cancelReq>>
  BY <1>6 DEF Output, SpoolStep, DrainSpool, DrainCut, SpoolDrop, agentVars
<1> QED BY <1>1, <1>2, <1>3, <1>4, <1>5, <1>6 DEF Next, RunStep, agentVars

\* Nothing that was decided, asked or reported is ever taken back.
LEMMA Grows ==
  ASSUME TypeInv, FreshRuns, Decided, Next
  PROVE  /\ \A h \in Hosts : Allowed(h) \subseteq Allowed(h)' /\ DownOK(h) \subseteq DownOK(h)'
         /\ \A h \in Hosts : UpOK(h) \subseteq UpOK(h)'
         /\ Asked \subseteq Asked'
         /\ \A r \in Runs : outcomes[r] \subseteq outcomes'[r]
         /\ \A r \in Runs : Reportable(r) \subseteq Reportable(r)'
<1> \A e \in Execs, h \in Hosts : <<e, h>> \in Runs
  BY DEF Runs
<1>1. ASSUME NEW h \in Hosts
      PROVE  Allowed(h) \subseteq Allowed(h)'
  <2>1. CASE \E r \in Runs : CreateRun(r)
    <3>1. PICK r \in Runs : CreateRun(r)
      BY <2>1
    <3>2. verdict[r] = "none"
      BY <3>1 DEF CreateRun, FreshRuns, Decided
    <3>3. \A q \in Runs : q # r => verdict'[q] = verdict[q]
      BY <3>1 DEF CreateRun, TypeInv, TypeOK, DbType
    <3> QED BY <3>2, <3>3 DEF Allowed
  <2>2. CASE ~ \E r \in Runs : CreateRun(r)
    BY <2>2, VerdictMoves DEF Allowed
  <2> QED BY <2>1, <2>2
<1>2. Asked \subseteq Asked'
  <2> cancel \in [Execs -> CancelPCs]
    BY DEF TypeInv, TypeOK, ControlType
  <2>1. CASE \E e \in Execs : CancelExecution(e)
    BY <2>1 DEF CancelExecution, CancelCheck, CancelList, CancelSignal, CancelRuns,
                CancelState, Asked
  <2>2. CASE ServerRestart
    BY <2>2 DEF ServerRestart, Asked
  <2>3. CASE UNCHANGED cancel
    BY <2>3 DEF Asked
  <2> QED BY <2>1, <2>2, <2>3, CancelMoves
<1>3. ASSUME NEW r \in Runs
      PROVE  outcomes[r] \subseteq outcomes'[r]
  <2>1. CASE \E q \in Runs : Finish(q)
    BY <2>1 DEF Finish, TypeInv, TypeOK, AgentType
  <2>2. CASE \E h \in Hosts : Receive(h) \/ AgentCrash(h)
    BY <2>2 DEF Receive, AgentCrash
  <2> QED BY <2>1, <2>2, ProcessMoves
<1>4. \A r \in Runs : Reportable(r) \subseteq Reportable(r)'
  BY <1>3 DEF Reportable
<1>5. \A h \in Hosts : DownOK(h) \subseteq DownOK(h)'
  BY <1>1, <1>2 DEF DownOK
<1>6. \A h \in Hosts : UpOK(h) \subseteq UpOK(h)'
  BY <1>4 DEF UpOK, UpMsgs
<1> QED BY <1>1, <1>2, <1>3, <1>4, <1>5, <1>6
-----------------------------------------------------------------------------
(* Envelopes on their way down *)

\* A stream only ever loses envelopes, or carries one more that is in order.
LEMMA SendInOrder ==
  ASSUME TypeInv, EnvelopesOK, NEW t \in Streams, NEW m \in DownOK(t[1]),
         SendOK(t, m) \/ SendErr(t)
  PROVE  \A s \in Streams : down'[s] \in Seq(DownOK(s[1]))
<1>1. down \in [Streams -> Seq(DownMsgs)] /\ down[t] \in Seq(DownOK(t[1]))
  BY DEF TypeInv, TypeOK, NetType, EnvelopesOK
<1>2. Append(down[t], m) \in Seq(DownOK(t[1]))
  BY <1>1
<1>3. down' = down \/ down' = [down EXCEPT ![t] = Append(@, m)]
  BY DEF SendOK, SendErr
<1> HIDE DEF DownOK
<1> QED BY <1>1, <1>2, <1>3 DEF EnvelopesOK

\* Breaking a stream loses what it carried.
LEMMA BreakInOrder ==
  ASSUME TypeInv, EnvelopesOK, NEW t, down' = [down EXCEPT ![t] = <<>>]
  PROVE  \A s \in Streams : down'[s] \in Seq(DownOK(s[1]))
<1>1. down \in [Streams -> Seq(DownMsgs)]
  BY DEF TypeInv, TypeOK, NetType
<1>2. \A S : <<>> \in Seq(S)
  OBVIOUS
<1> HIDE DEF DownOK
<1> QED BY <1>1, <1>2 DEF EnvelopesOK

\* Commands on a stream are allowed ones and cancels were asked for.
LEMMA EnvelopesStep ==
  ASSUME TypeInv, FreshRuns, SafeInv, Next
  PROVE  EnvelopesOK'
<1> DEFINE Now == \A s \in Streams : down'[s] \in Seq(DownOK(s[1]))
<1> \A e \in Execs, h \in Hosts : <<e, h>> \in Runs
  BY DEF Runs
<1>1. SUFFICES Now
  <2>1. ASSUME Now, NEW s \in Streams
        PROVE  down'[s] \in Seq(DownOK(s[1])')
    <3>1. s[1] \in Hosts
      BY DEF Streams
    <3>2. DownOK(s[1]) \subseteq DownOK(s[1])'
      BY <3>1, Grows DEF SafeInv
    <3> HIDE DEF DownOK
    <3> QED BY <2>1, <3>2, SeqGrows
  <2> QED BY <2>1 DEF EnvelopesOK
<1>2. ASSUME UNCHANGED down
      PROVE  Now
  BY <1>2 DEF SafeInv, EnvelopesOK
<1> EnvelopesOK
  BY DEF SafeInv
<1> HIDE DEF Now
<1>3. ASSUME NEW e \in Execs, Dispatch(e)
      PROVE  Now
  <2>1. ASSUME NEW h \in Hosts, SendLive(<<e, h>>)
        PROVE  Now
    <3> DEFINE r == <<e, h>>
               t == <<h, via[r]>>
               m == [e |-> e, op |-> "command"]
    <3>1. verdict[r] = "allow"
      BY <2>1 DEF SendLive, SafeInv, Decided, Sending
    <3>2. m \in DownOK(h)
      BY <3>1 DEF DownOK, DownMsgs, Allowed
    <3>3. SendOK(t, m) \/ SendErr(t)
      BY <2>1 DEF SendLive
    <3>4. CASE t \in Streams
      BY <3>2, <3>3, <3>4, SendInOrder DEF Now
    <3>5. CASE t \notin Streams
      <4>1. down \in [Streams -> Seq(DownMsgs)]
        BY DEF TypeInv, TypeOK, NetType
      <4>2. down' = down \/ down' = [down EXCEPT ![t] = Append(@, m)]
        BY <3>3 DEF SendOK, SendErr
      <4>3. down' = down
        BY <3>5, <4>1, <4>2
      <4> QED BY <1>2, <4>3
    <3> QED BY <3>4, <3>5
  <2>2. CASE ~ \E h \in Hosts : SendLive(<<e, h>>)
    BY <1>2, <1>3, <2>2 DEF Dispatch, CreateExecution, FinishDispatch, DispatchRun, CreateRun,
         DenyRun, ParkRun, MarkDelivered, MarkUndelivered, CloseRun, LookupSession,
         QueueOffline, ExpireEvicted, MarkQueuedOffline
  <2> QED BY <2>1, <2>2
<1>4. ASSUME NEW e \in Execs, CancelExecution(e)
      PROVE  Now
  <2>1. ASSUME NEW h \in Hosts, CancelSignal(e, h), ~UNCHANGED down
        PROVE  Now
    <3> DEFINE t == <<h, sessions[h]>>
               m == [e |-> e, op |-> "cancel"]
    <3>1. m \in DownOK(h)
      BY <2>1 DEF CancelSignal, DownOK, DownMsgs, Asked
    <3>2. t \in Streams
      BY <2>1 DEF CancelSignal, TypeInv, TypeOK, StreamType, Streams, Conns
    <3>3. down' = [down EXCEPT ![t] = Append(@, m)]
      BY <2>1 DEF CancelSignal
    <3>4. down \in [Streams -> Seq(DownMsgs)] /\ down[t] \in Seq(DownOK(t[1]))
      BY <3>2 DEF TypeInv, TypeOK, NetType, EnvelopesOK
    <3>5. Append(down[t], m) \in Seq(DownOK(t[1]))
      BY <3>1, <3>4
    <3> HIDE DEF DownOK
    <3> QED BY <3>2, <3>3, <3>4, <3>5 DEF EnvelopesOK, Now
  <2> QED BY <1>2, <1>4, <2>1 DEF CancelExecution, CancelCheck, CancelList, CancelRuns, CancelState
<1>5. ASSUME NEW s \in Streams, DrainStep(s)
      PROVE  Now
  <2> DEFINE q == batch[s]
             m == [e |-> Head(q), op |-> "command"]
  <2>1. s[1] \in Hosts /\ q \in Seq(Allowed(s[1])) /\ q # <<>>
    BY <1>5 DEF DrainStep, SafeInv, QueuesAllowed, Streams
  <2>2. Head(q) \in Allowed(s[1])
    BY <2>1
  <2>3. m \in DownOK(s[1])
    BY <2>2 DEF DownOK, DownMsgs, Allowed
  <2> HIDE DEF q
  <2>4. UNCHANGED down \/ SendOK(s, m) \/ SendErr(s)
    BY <1>5 DEF DrainStep, q
  <2> QED BY <1>2, <2>3, <2>4, SendInOrder DEF Now
<1>6. ASSUME NEW s \in Streams, Connect(s) \/ (Serve(s) /\ ~DrainStep(s))
      PROVE  Now
  BY <1>2, <1>6 DEF Connect, Serve, ServeDrain, Teardown, Register, DrainRead, DrainTake,
              DrainMark, DrainDone, HandleUp, Unregister, MarkDisconnected,
              InterruptSelect, InterruptUpdate, netVars
<1>7. ASSUME NEW s \in Streams, Cut(s)
      PROVE  Now
  BY <1>7, BreakInOrder DEF Cut, Now
<1>8. CASE Finalize \/ Sweep
  BY <1>2, <1>8 DEF Finalize, FinRead, FinWrite, Sweep, StrandSelect, StrandUpdate,
              ExpireSweep, ExpireQueued, SweepUnchanged, netVars
<1>9. CASE ServerRestart
  <2>1. \A s \in Streams : down'[s] = <<>>
    BY <1>9 DEF ServerRestart
  <2>2. \A S : <<>> \in Seq(S)
    OBVIOUS
  <2> HIDE DEF DownOK
  <2> QED BY <2>1, <2>2 DEF Now
<1>10. ASSUME NEW h \in Hosts, Receive(h)
       PROVE  Now
  <2> DEFINE t == AgentStream(h)
  <2>1. t \in Streams
    BY <1>10 DEF Receive, AgentStream, TypeInv, TypeOK, AgentType, Streams, Conns
  <2> HIDE DEF t
  <2>2. down' = [down EXCEPT ![t] = Tail(@)] /\ down[t] # <<>>
    BY <1>10 DEF Receive, t
  <2>3. down \in [Streams -> Seq(DownMsgs)] /\ down[t] \in Seq(DownOK(t[1]))
    BY <2>1 DEF TypeInv, TypeOK, NetType, EnvelopesOK
  <2>4. Tail(down[t]) \in Seq(DownOK(t[1]))
    BY <2>2, <2>3, SeqTakes
  <2> HIDE DEF DownOK
  <2> QED BY <2>2, <2>3, <2>4 DEF EnvelopesOK, Now
<1>11. ASSUME NEW h \in Hosts, AgentNotice(h) \/ EnterLoop(h) \/ AgentCrash(h)
       PROVE  Now
  <2>1. UNCHANGED down \/ down' = [down EXCEPT ![AgentStream(h)] = <<>>]
    BY <1>11 DEF AgentNotice, EnterLoop, AgentCrash, netVars
  <2> QED BY <1>2, <2>1, BreakInOrder DEF Now
<1>12. ASSUME NEW r \in Runs, RunStep(r) \/ SpoolStep(r)
       PROVE  Now
  <2>1. UNCHANGED down \/ down' = [down EXCEPT ![AgentStream(r[2])] = <<>>]
    BY <1>12 DEF RunStep, Output, Finish, SpoolStep, DrainSpool, DrainCut, SpoolDrop, netVars
  <2> QED BY <1>2, <2>1, BreakInOrder DEF Now
<1> QED BY <1>3, <1>4, <1>5, <1>6, <1>7, <1>8, <1>9, <1>10, <1>11, <1>12 DEF Next
\* Whatever a step does to the queues and the snapshots, it is enough to look
\* at what policy had allowed before it.
LEMMA QueuesLater ==
  ASSUME TypeInv, FreshRuns, SafeInv, Next,
         \A h \in Hosts : offlineQueue'[h] \in Seq(Allowed(h)),
         \A s \in Streams : batch'[s] \in Seq(Allowed(s[1]))
  PROVE  QueuesAllowed'
<1>1. \A h \in Hosts : Allowed(h) \subseteq Allowed(h)'
  BY Grows DEF SafeInv
<1>2. \A s \in Streams : s[1] \in Hosts
  BY DEF Streams
<1>3. ASSUME NEW h \in Hosts
      PROVE  offlineQueue'[h] \in Seq(Allowed(h)')
  <2> HIDE DEF Allowed
  <2> QED BY <1>1, SeqGrows
<1>4. ASSUME NEW s \in Streams
      PROVE  batch'[s] \in Seq(Allowed(s[1])')
  <2> HIDE DEF Allowed
  <2> QED BY <1>1, <1>2, SeqGrows
<1> QED BY <1>3, <1>4 DEF QueuesAllowed

\* Queued, drained and requeued executions are allowed ones.
LEMMA QueuesStep ==
  ASSUME TypeInv, FreshRuns, SafeInv, Next
  PROVE  QueuesAllowed'
<1> DEFINE Q == \A h \in Hosts : offlineQueue'[h] \in Seq(Allowed(h))
           B == \A s \in Streams : batch'[s] \in Seq(Allowed(s[1]))
<1> \A e \in Execs, h \in Hosts : <<e, h>> \in Runs
  BY DEF Runs
<1>0. SUFFICES Q /\ B
  BY QueuesLater
<1>1. /\ offlineQueue \in [Hosts -> Seq(Execs)] /\ batch \in [Streams -> Seq(Execs)]
      /\ \A h \in Hosts : offlineQueue[h] \in Seq(Allowed(h))
      /\ \A s \in Streams : batch[s] \in Seq(Allowed(s[1]))
  BY DEF TypeInv, TypeOK, StreamType, SafeInv, QueuesAllowed
<1>2. (UNCHANGED offlineQueue => Q) /\ (UNCHANGED batch => B)
  BY <1>1
<1>3. ASSUME NEW s \in Streams, NEW q \in Seq(Allowed(s[1])), batch' = [batch EXCEPT ![s] = q]
      PROVE  B
  <2> HIDE DEF Allowed
  <2> QED BY <1>1, <1>3
<1>4. ASSUME NEW h \in Hosts, NEW q \in Seq(Allowed(h)), offlineQueue' = [offlineQueue EXCEPT ![h] = q]
      PROVE  Q
  <2> HIDE DEF Allowed
  <2> QED BY <1>1, <1>4
<1> HIDE DEF Q, B
<1>5. ASSUME NEW e \in Execs, Dispatch(e)
      PROVE  Q /\ B
  <2>1. UNCHANGED batch
    BY <1>5 DEF Dispatch, CreateExecution, FinishDispatch, DispatchRun, CreateRun,
         DenyRun, ParkRun, MarkDelivered, MarkUndelivered, CloseRun, LookupSession,
         SendLive, QueueOffline, ExpireEvicted, MarkQueuedOffline, DispUnchanged, srvVars
  <2>2. ASSUME NEW h \in Hosts, QueueOffline(<<e, h>>)
        PROVE  Q
    <3> DEFINE q == offlineQueue[h]
               full == Len(q) >= OfflineCap
               p == IF full THEN Tail(q) ELSE q
    <3>1. verdict[<<e, h>>] = "allow"
      BY <2>2 DEF QueueOffline, SafeInv, Decided, Sending
    <3>2. e \in Allowed(h)
      BY <3>1 DEF Allowed
    <3>3. q \in Seq(Allowed(h)) /\ (full => q # <<>>)
      BY <1>1, ConstantsAssumption
    <3>4. p \in Seq(Allowed(h))
      BY <3>3, SeqTakes
    <3>5. Append(p, e) \in Seq(Allowed(h))
      <4> HIDE DEF p
      <4> QED BY <3>2, <3>4, SeqTakes
    <3>6. offlineQueue' = [offlineQueue EXCEPT ![h] = Append(p, e)]
      BY <2>2 DEF QueueOffline
    <3> HIDE DEF p
    <3> QED BY <1>4, <3>5, <3>6
  <2>3. CASE ~ \E h \in Hosts : QueueOffline(<<e, h>>)
    <3>1. UNCHANGED offlineQueue
      BY <1>5, <2>3 DEF Dispatch, CreateExecution, FinishDispatch, DispatchRun, CreateRun,
         DenyRun, ParkRun, MarkDelivered, MarkUndelivered, CloseRun, LookupSession,
         SendLive, ExpireEvicted, MarkQueuedOffline
    <3> QED BY <1>2, <2>1, <3>1
  <2> QED BY <1>2, <2>1, <2>2, <2>3
<1>6. ASSUME NEW s \in Streams, DrainRead(s)
      PROVE  Q /\ B
  <2>1. s[1] \in Hosts
    BY DEF Streams
  <2>2. batch' = [batch EXCEPT ![s] = offlineQueue[s[1]]] /\ UNCHANGED offlineQueue
    BY <1>6 DEF DrainRead
  <2> QED BY <1>1, <1>2, <1>3, <2>1, <2>2
<1>7. ASSUME NEW s \in Streams, DrainTake(s)
      PROVE  Q /\ B
  <2>1. s[1] \in Hosts /\ <<>> \in Seq(Allowed(s[1]))
    BY DEF Streams
  <2>2. offlineQueue' = [offlineQueue EXCEPT ![s[1]] = <<>>] /\ UNCHANGED batch
    BY <1>7 DEF DrainTake
  <2> QED BY <1>2, <1>4, <2>1, <2>2
<1>8. ASSUME NEW s \in Streams, DrainStep(s)
      PROVE  Q /\ B
  <2> DEFINE q == batch[s]
             o == offlineQueue[s[1]]
  <2>1. s[1] \in Hosts /\ q \in Seq(Allowed(s[1])) /\ q # <<>> /\ o \in Seq(Allowed(s[1]))
    BY <1>1, <1>8 DEF DrainStep, Streams
  <2>2. Tail(q) \in Seq(Allowed(s[1])) /\ o \o q \in Seq(Allowed(s[1])) /\ <<>> \in Seq(Allowed(s[1]))
    BY <2>1, SeqTakes
  <2>3. /\ UNCHANGED offlineQueue \/ offlineQueue' = [offlineQueue EXCEPT ![s[1]] = o \o q]
        /\ \/ UNCHANGED batch
           \/ batch' = [batch EXCEPT ![s] = Tail(q)]
           \/ batch' = [batch EXCEPT ![s] = <<>>]
    BY <1>8 DEF DrainStep
  <2> QED BY <1>2, <1>3, <1>4, <2>1, <2>2, <2>3
<1>9. ASSUME NEW s \in Streams, DrainMark(s)
      PROVE  Q /\ B
  <2>1. batch[s] \in Seq(Allowed(s[1])) /\ batch[s] # <<>>
    BY <1>1, <1>9 DEF DrainMark, TypeInv, MarkHasBatch
  <2>2. Tail(batch[s]) \in Seq(Allowed(s[1]))
    BY <2>1, SeqTakes
  <2>3. batch' = [batch EXCEPT ![s] = Tail(batch[s])] /\ UNCHANGED offlineQueue
    BY <1>9 DEF DrainMark
  <2> QED BY <1>2, <1>3, <2>2, <2>3
<1>10. CASE ExpireSweep
  <2>1. PICK old : offlineQueue' = [h \in Hosts |->
          Keep(offlineQueue[h], {i \in DOMAIN offlineQueue[h] : <<h, i>> \notin old})]
    BY <1>10 DEF ExpireSweep
  <2>2. \A h \in Hosts :
          Keep(offlineQueue[h], {i \in DOMAIN offlineQueue[h] : <<h, i>> \notin old}) \in Seq(Allowed(h))
    BY <1>1, KeepType
  <2>3. Q
    BY <2>1, <2>2 DEF Q
  <2>4. UNCHANGED batch
    BY <1>10 DEF ExpireSweep, SweepUnchanged, srvVars
  <2> QED BY <1>2, <2>3, <2>4
<1>11. CASE ServerRestart
  <2>1. \A S : <<>> \in Seq(S)
    OBVIOUS
  <2>2. (\A h \in Hosts : offlineQueue'[h] = <<>>) /\ (\A s \in Streams : batch'[s] = <<>>)
    BY <1>11 DEF ServerRestart
  <2> HIDE DEF Allowed
  <2> QED BY <2>1, <2>2 DEF Q, B
<1>12. ASSUME NEW s \in Streams, \/ Connect(s) \/ Cut(s) \/ Register(s) \/ DrainDone(s)
                                 \/ HandleUp(s) \/ Teardown(s)
       PROVE  Q /\ B
  <2>1. UNCHANGED <<offlineQueue, batch>>
    BY <1>12 DEF Connect, Cut, Register, DrainDone, HandleUp, Teardown, Unregister,
       MarkDisconnected, InterruptSelect, InterruptUpdate, serverVars, srvVars
  <2> QED BY <1>2, <2>1
<1>13. ASSUME NEW e \in Execs, CancelExecution(e)
       PROVE  Q /\ B
  <2>1. UNCHANGED <<offlineQueue, batch>>
    BY <1>13 DEF CancelExecution, CancelCheck, CancelList, CancelSignal, CancelRuns,
                 CancelState, CancelUnchanged, srvVars
  <2> QED BY <1>2, <2>1
<1>14. CASE Finalize \/ StrandSelect \/ StrandUpdate \/ \E r \in Runs : ExpireQueued(r)
  <2>1. UNCHANGED <<offlineQueue, batch>>
    BY <1>14 DEF Finalize, FinRead, FinWrite, StrandSelect, StrandUpdate, ExpireQueued,
                 SweepUnchanged, srvVars
  <2> QED BY <1>2, <2>1
<1>15. ASSUME NEW h \in Hosts, AgentNotice(h) \/ EnterLoop(h) \/ Receive(h) \/ AgentCrash(h)
       PROVE  Q /\ B
  <2>1. UNCHANGED <<offlineQueue, batch>>
    BY <1>15 DEF AgentNotice, EnterLoop, Receive, AgentCrash, AgentUnchanged, serverVars, srvVars
  <2> QED BY <1>2, <2>1
<1>16. ASSUME NEW r \in Runs, RunStep(r) \/ SpoolStep(r)
       PROVE  Q /\ B
  <2>1. UNCHANGED <<offlineQueue, batch>>
    BY <1>16 DEF RunStep, Output, Finish, SpoolStep, DrainSpool, DrainCut, SpoolDrop,
                 AgentUnchanged, serverVars, srvVars
  <2> QED BY <1>2, <2>1
<1> QED BY <1>5, <1>6, <1>7, <1>8, <1>9, <1>10, <1>11, <1>12, <1>13, <1>14, <1>15, <1>16
        DEF Next, Serve, ServeDrain, Sweep
-----------------------------------------------------------------------------
(* Records on their way up *)

\* A stream the agent holds is one of the host's streams.
LEMMA AgentStreamIs ==
  ASSUME TypeInv, NEW h \in Hosts, agentConn[h] # 0
  PROVE  AgentStream(h) \in Streams /\ AgentStream(h)[1] = h
  BY DEF AgentStream, TypeInv, TypeOK, AgentType, Streams, Conns

\* Records that are in flight or spooled tell what the host reported, and a
\* drain replays nothing else.
LEMMA RecordsStep ==
  ASSUME TypeInv, FreshRuns, SafeInv, Next
  PROVE  RecordsOK'
<1> DEFINE U(h) == UpOK(h)'
           R(r) == Reportable(r)'
           UpNow == \A s \in Streams : up'[s] \in Seq(U(s[1]))
           SpoolNow == \A r \in Runs : spool'[r] \in Seq(R(r))
<1>0. SUFFICES UpNow /\ SpoolNow
  BY DEF RecordsOK
<1>1. /\ up \in [Streams -> Seq(UpMsgs)] /\ spool \in [Runs -> Seq(UpKinds)]
      /\ \A s \in Streams : s[1] \in Hosts /\ up[s] \in Seq(UpOK(s[1]))
      /\ \A r \in Runs : r[1] \in Execs /\ r[2] \in Hosts /\ spool[r] \in Seq(Reportable(r))
  BY AgentParts DEF TypeInv, TypeOK, NetType, SafeInv, RecordsOK, Streams, Runs
<1>2. /\ \A h \in Hosts : UpOK(h) \subseteq U(h)
      /\ \A r \in Runs : Reportable(r) \subseteq R(r)
  BY Grows DEF SafeInv
<1>3. /\ \A s \in Streams : up[s] \in Seq(U(s[1]))
      /\ \A r \in Runs : spool[r] \in Seq(R(r))
  <2>1. ASSUME NEW s \in Streams
        PROVE  up[s] \in Seq(U(s[1]))
    <3>1. up[s] \in Seq(UpOK(s[1])) /\ UpOK(s[1]) \subseteq U(s[1])
      BY <1>1, <1>2
    <3> HIDE DEF U, UpOK
    <3> QED BY <3>1, SeqGrows
  <2>2. ASSUME NEW r \in Runs
        PROVE  spool[r] \in Seq(R(r))
    <3>1. spool[r] \in Seq(Reportable(r)) /\ Reportable(r) \subseteq R(r)
      BY <1>1, <1>2
    <3> HIDE DEF R, Reportable
    <3> QED BY <3>1, SeqGrows
  <2> HIDE DEF U, R
  <2> QED BY <2>1, <2>2
<1>4. \A r \in Runs : \A k \in UpKinds : k \in R(r) => [e |-> r[1], is |-> k] \in U(r[2])
  BY DEF UpOK, UpMsgs, Runs
<1> HIDE DEF U, R
<1>5. (UNCHANGED up => UpNow) /\ (UNCHANGED spool => SpoolNow)
  BY <1>3
<1>6. ASSUME NEW s \in Streams, NEW q \in Seq(U(s[1])), up' = [up EXCEPT ![s] = q]
      PROVE  UpNow
  BY <1>1, <1>3, <1>6
<1>7. ASSUME NEW r \in Runs, NEW q \in Seq(R(r)), spool' = [spool EXCEPT ![r] = q]
      PROVE  SpoolNow
  BY <1>1, <1>3, <1>7
<1> HIDE DEF UpNow, SpoolNow
<1>8. ASSUME NEW r \in Runs, NEW k \in UpKinds, k \in R(r), Deliver(r, k)
      PROVE  UpNow /\ SpoolNow
  <2> DEFINE t == AgentStream(r[2])
             m == [e |-> r[1], is |-> k]
  <2>1. \/ UNCHANGED <<up, spool>>
        \/ agentConn[r[2]] # 0 /\ up' = [up EXCEPT ![t] = Append(up[t], m)] /\ UNCHANGED spool
        \/ spool' = [spool EXCEPT ![r] = Append(spool[r], k)] /\ UNCHANGED up
    BY <1>8 DEF Deliver
  <2>2. m \in U(r[2])
    BY <1>4, <1>8
  <2>3. ASSUME agentConn[r[2]] # 0
        PROVE  t \in Streams /\ Append(up[t], m) \in Seq(U(t[1]))
    <3>1. t \in Streams /\ t[1] = r[2]
      BY <1>1, <2>3, AgentStreamIs
    <3> HIDE DEF t, m
    <3> QED BY <1>3, <2>2, <3>1, SeqTakes
  <2>4. Append(spool[r], k) \in Seq(R(r))
    BY <1>3, <1>8, SeqTakes
  <2> HIDE DEF t, m
  <2> QED BY <1>5, <1>6, <1>7, <2>1, <2>3, <2>4
<1>9. ASSUME NEW r \in Runs, RunStep(r)
      PROVE  UpNow /\ SpoolNow
  <2>1. CASE Output(r)
    <3>1. "output" \in UpKinds /\ "output" \in R(r)
      BY DEF UpKinds, R, Reportable
    <3> QED BY <1>8, <2>1, <3>1 DEF Output
  <2>2. CASE Finish(r)
    <3>1. PICK o \in ResultStates : outcomes' = [outcomes EXCEPT ![r] = @ \cup {o}] /\ Deliver(r, o)
      BY <2>2, ConstantsAssumption DEF Finish, ResultStates
    <3>2. o \in UpKinds /\ o \in R(r)
      BY <3>1 DEF UpKinds, R, Reportable, TypeInv, TypeOK, AgentType
    <3> QED BY <1>8, <3>1, <3>2
  <2> QED BY <1>9, <2>1, <2>2 DEF RunStep
<1>10. ASSUME NEW r \in Runs, SpoolStep(r)
       PROVE  UpNow /\ SpoolNow
  <2> DEFINE t == AgentStream(r[2])
  <2>1. <<>> \in Seq(R(r))
    OBVIOUS
  <2>2. Replayed(r) \in Seq(U(r[2])) /\ Len(Replayed(r)) = Len(spool[r]) /\ Len(spool[r]) \in Nat
    <3>1. Replayed(r) = [i \in 1..Len(spool[r]) |-> [e |-> r[1], is |-> spool[r][i]]]
      BY <1>1 DEF Replayed
    <3>2. \A i \in 1..Len(spool[r]) : spool[r][i] \in R(r) /\ spool[r][i] \in UpKinds
      BY <1>1, <1>3
    <3>3. \A i \in 1..Len(spool[r]) : [e |-> r[1], is |-> spool[r][i]] \in U(r[2])
      BY <1>4, <3>2
    <3>4. Replayed(r) \in [1..Len(spool[r]) -> U(r[2])] /\ Len(spool[r]) \in Nat
      BY <1>1, <3>1, <3>3
    <3> QED BY <3>4
  <2>3. ASSUME SpoolDrop(r)
        PROVE  UpNow /\ SpoolNow
    BY <1>5, <1>7, <2>1, <2>3 DEF SpoolDrop, netVars
  <2>4. ASSUME DrainSpool(r) \/ DrainCut(r)
        PROVE  t \in Streams /\ t[1] = r[2] /\ up[t] \in Seq(U(r[2]))
    <3>1. agentConn[r[2]] # 0
      BY <2>4 DEF DrainSpool, DrainCut
    <3>2. t \in Streams /\ t[1] = r[2]
      BY <1>1, <3>1, AgentStreamIs
    <3> HIDE DEF t
    <3> QED BY <1>3, <3>2
  <2>5. ASSUME DrainSpool(r)
        PROVE  UpNow /\ SpoolNow
    <3>1. up[t] \o Replayed(r) \in Seq(U(r[2]))
      BY <2>2, <2>4, <2>5, SeqTakes
    <3>2. /\ UNCHANGED up \/ up' = [up EXCEPT ![t] = up[t] \o Replayed(r)]
          /\ spool' = [spool EXCEPT ![r] = <<>>]
      BY <2>5 DEF DrainSpool
    <3> HIDE DEF t
    <3> QED BY <1>5, <1>6, <1>7, <2>1, <2>4, <2>5, <3>1, <3>2
  <2>6. ASSUME DrainCut(r)
        PROVE  UpNow /\ SpoolNow
    <3>1. PICK n \in 0..(Len(spool[r]) - 1) : up' = [up EXCEPT ![t] = up[t] \o SubSeq(Replayed(r), 1, n)]
      BY <2>6 DEF DrainCut
    <3>2. SubSeq(Replayed(r), 1, n) \in Seq(U(r[2]))
      <4>1. n \in 0..Len(Replayed(r))
        BY <2>2
      <4> QED BY <2>2, <4>1, SeqTakes
    <3>3. up[t] \o SubSeq(Replayed(r), 1, n) \in Seq(U(r[2]))
      BY <2>4, <2>6, <3>2, SeqTakes
    <3>4. UNCHANGED spool
      BY <2>6 DEF DrainCut, agentVars
    <3> HIDE DEF t
    <3> QED BY <1>5, <1>6, <2>4, <2>6, <3>1, <3>3, <3>4
  <2> QED BY <1>10, <2>3, <2>5, <2>6 DEF SpoolStep
<1>11. ASSUME NEW h \in Hosts, AgentNotice(h) \/ EnterLoop(h) \/ Receive(h) \/ AgentCrash(h)
       PROVE  UpNow /\ SpoolNow
  <2>1. UNCHANGED up
    BY <1>11 DEF AgentNotice, EnterLoop, Receive, AgentCrash, netVars
  <2>2. CASE AgentCrash(h)
    <3>1. PICK D : spool' = [r \in Runs |-> IF r[2] = h /\ r \notin D THEN <<>> ELSE spool[r]]
      BY <2>2 DEF AgentCrash
    <3>2. \A r \in Runs : <<>> \in Seq(R(r))
      OBVIOUS
    <3>3. SpoolNow
      BY <1>3, <3>1, <3>2 DEF SpoolNow
    <3> QED BY <1>5, <2>1, <3>3
  <2>3. CASE ~AgentCrash(h)
    BY <1>5, <1>11, <2>1, <2>3 DEF AgentNotice, EnterLoop, Receive
  <2> QED BY <2>2, <2>3
<1>12. ASSUME NEW s \in Streams, Cut(s)
       PROVE  UpNow /\ SpoolNow
  <2>1. PICK n \in 0..Len(up[s]) : up' = [up EXCEPT ![s] = SubSeq(up[s], 1, n)]
    BY <1>12 DEF Cut
  <2>2. SubSeq(up[s], 1, n) \in Seq(U(s[1]))
    BY <1>3, SeqTakes
  <2>3. UNCHANGED spool
    BY <1>12 DEF Cut, agentVars
  <2> QED BY <1>5, <1>6, <2>1, <2>2, <2>3
<1>13. ASSUME NEW s \in Streams, HandleUp(s)
       PROVE  UpNow /\ SpoolNow
  <2>1. up' = [up EXCEPT ![s] = Tail(up[s])] /\ up[s] # <<>> /\ UNCHANGED spool
    BY <1>13 DEF HandleUp, agentVars
  <2>2. Tail(up[s]) \in Seq(U(s[1]))
    BY <1>3, <2>1, SeqTakes
  <2> QED BY <1>5, <1>6, <2>1, <2>2
<1>14. CASE ServerRestart
  <2>1. (\A s \in Streams : up'[s] = <<>> /\ <<>> \in Seq(U(s[1]))) /\ UNCHANGED spool
    BY <1>14 DEF ServerRestart, agentVars
  <2> QED BY <1>5, <2>1 DEF UpNow
<1>15. ASSUME NEW s \in Streams, Connect(s) \/ (Serve(s) /\ ~HandleUp(s))
       PROVE  UpNow /\ SpoolNow
  BY <1>5, <1>15 DEF Connect, Serve, ServeDrain, Teardown, Register, DrainRead, DrainTake,
     DrainStep, DrainMark, DrainDone, Unregister, MarkDisconnected, InterruptSelect,
     InterruptUpdate, netVars, agentVars
<1>16. ASSUME NEW e \in Execs, Dispatch(e) \/ CancelExecution(e)
       PROVE  UpNow /\ SpoolNow
  <2>1. UNCHANGED <<up, spool>>
    BY <1>16 DEF Dispatch, CreateExecution, FinishDispatch, DispatchRun, CreateRun,
         DenyRun, ParkRun, MarkDelivered, MarkUndelivered, CloseRun, LookupSession,
         SendLive, QueueOffline, ExpireEvicted, MarkQueuedOffline, DispUnchanged,
         CancelExecution, CancelCheck, CancelList, CancelSignal, CancelRuns,
         CancelState, CancelUnchanged, agentVars
  <2> QED BY <1>5, <2>1
<1>17. CASE Finalize \/ Sweep
  BY <1>5, <1>17 DEF Finalize, FinRead, FinWrite, Sweep, StrandSelect, StrandUpdate,
     ExpireSweep, ExpireQueued, SweepUnchanged, netVars, agentVars
<1> QED BY <1>9, <1>10, <1>11, <1>12, <1>13, <1>14, <1>15, <1>16, <1>17 DEF Next
-----------------------------------------------------------------------------
(* Processes on the hosts *)

\* An allowed run stays allowed, an asked cancel stays asked.
LEMMA StaysAllowed ==
  ASSUME TypeInv, FreshRuns, Decided, Next, NEW r \in Runs
  PROVE  /\ verdict[r] = "allow" => verdict'[r] = "allow"
         /\ r[1] \in Asked => r[1] \in Asked'
<1>1. r[1] \in Execs /\ r[2] \in Hosts /\ r = <<r[1], r[2]>>
  BY DEF Runs
<1>2. Allowed(r[2]) \subseteq Allowed(r[2])' /\ Asked \subseteq Asked'
  BY <1>1, Grows
<1>3. (verdict[r] = "allow") = (r[1] \in Allowed(r[2]))
  BY <1>1 DEF Allowed
<1>4. (r[1] \in Allowed(r[2])') => verdict'[r] = "allow"
  BY <1>1 DEF Allowed
<1> HIDE DEF Allowed, Asked
<1> QED BY <1>2, <1>3, <1>4

\* A process starts from an allowed command and is cancelled by an asked cancel.
LEMMA ProcessesStep ==
  ASSUME TypeInv, FreshRuns, SafeInv, Next
  PROVE  ProcessesOK'
<1>1. /\ live \in [Runs -> Nat] /\ starts \in [Runs -> Nat]
      /\ outcomes \in [Runs -> SUBSET ResultStates]
  BY DEF TypeInv, TypeOK, AgentType
<1>2. cancelReq \in [Runs -> BOOLEAN]
  BY DEF TypeInv, TypeOK, AgentType
<1>3. \A r \in Runs :
        /\ verdict[r] = "allow" => verdict'[r] = "allow"
        /\ r[1] \in Asked => r[1] \in Asked'
  BY StaysAllowed DEF SafeInv
<1>4. \A r \in Runs :
        /\ starts[r] > 0 => verdict[r] = "allow"
        /\ live[r] > 0 => starts[r] > 0
        /\ cancelReq[r] => r[1] \in Asked
        /\ "cancelled" \in outcomes[r] => r[1] \in Asked
  BY DEF SafeInv, ProcessesOK
<1> HIDE DEF Asked
<1>5. SUFFICES ASSUME NEW r \in Runs
               PROVE  /\ starts'[r] > 0 => verdict'[r] = "allow"
                      /\ live'[r] > 0 => starts'[r] > 0
                      /\ cancelReq'[r] => r[1] \in Asked'
                      /\ "cancelled" \in outcomes'[r] => r[1] \in Asked'
  BY DEF ProcessesOK
<1>6. CASE UNCHANGED <<outcomes, starts, live, cancelReq>>
  BY <1>3, <1>4, <1>6
<1>7. ASSUME NEW h \in Hosts, Receive(h)
      PROVE  /\ starts'[r] > 0 => verdict'[r] = "allow"
             /\ live'[r] > 0 => starts'[r] > 0
             /\ cancelReq'[r] => r[1] \in Asked'
             /\ "cancelled" \in outcomes'[r] => r[1] \in Asked'
  <2> DEFINE t == AgentStream(h)
             m == Head(down[t])
             q == <<m.e, h>>
  <2>1. t \in Streams /\ t[1] = h /\ down[t] # <<>>
    BY <1>7, AgentStreamIs DEF Receive
  <2>2. down[t] \in Seq(DownOK(h))
    <3> HIDE DEF t
    <3> QED BY <2>1 DEF SafeInv, EnvelopesOK
  <2>3. m \in DownOK(h)
    <3> HIDE DEF t
    <3> QED BY <2>1, <2>2, SeqTakes
  <2> HIDE DEF t
  <2>4. q \in Runs /\ q[1] = m.e /\ (m.op = "command" => verdict[q] = "allow")
          /\ (m.op = "cancel" => q[1] \in Asked)
    <3> HIDE DEF m
    <3>1. m.e \in Execs /\ m.e \in IF m.op = "command" THEN Allowed(h) ELSE Asked
      BY <2>3 DEF DownOK, DownMsgs
    <3> QED BY <3>1 DEF Allowed, Runs
  <2>5. /\ UNCHANGED outcomes
        /\ \/ /\ m.op = "command" /\ live' = [live EXCEPT ![q] = @ + 1]
              /\ starts' = [starts EXCEPT ![q] = @ + 1] /\ UNCHANGED cancelReq
           \/ UNCHANGED <<live, starts, cancelReq>>
           \/ /\ m.op = "cancel"
              /\ cancelReq' = [cancelReq EXCEPT ![q] = @ \/ live[q] > 0]
              /\ UNCHANGED <<live, starts>>
    BY <1>7 DEF Receive, t
  <2> HIDE DEF m, q
  <2>6. starts'[r] > 0 => verdict'[r] = "allow"
    <3>1. starts' = starts \/ (verdict[q] = "allow" /\ starts' = [starts EXCEPT ![q] = @ + 1])
      BY <2>4, <2>5
    <3> QED BY <1>1, <1>3, <1>4, <3>1
  <2>7. live'[r] > 0 => starts'[r] > 0
    <3>1. \/ live' = live /\ starts' = starts
          \/ live' = [live EXCEPT ![q] = @ + 1] /\ starts' = [starts EXCEPT ![q] = @ + 1]
      BY <2>5
    <3> QED BY <1>1, <1>4, <3>1
  <2>8. cancelReq'[r] => r[1] \in Asked'
    <3>1. cancelReq'[r] => cancelReq[r] \/ r[1] \in Asked
      BY <1>2, <2>4, <2>5
    <3> QED BY <1>3, <1>4, <3>1
  <2>9. "cancelled" \in outcomes'[r] => r[1] \in Asked'
    BY <1>3, <1>4, <2>5
  <2> QED BY <2>6, <2>7, <2>8, <2>9
<1>8. ASSUME NEW q \in Runs, Finish(q)
      PROVE  /\ starts'[r] > 0 => verdict'[r] = "allow"
             /\ live'[r] > 0 => starts'[r] > 0
             /\ cancelReq'[r] => r[1] \in Asked'
             /\ "cancelled" \in outcomes'[r] => r[1] \in Asked'
  <2>1. UNCHANGED <<starts, cancelReq>> /\ live' = [live EXCEPT ![q] = @ - 1] /\ live[q] > 0
    BY <1>8 DEF Finish
  <2>2. (starts'[r] > 0 => verdict'[r] = "allow") /\ (live'[r] > 0 => starts'[r] > 0)
    BY <1>1, <1>3, <1>4, <2>1
  <2>3. cancelReq'[r] => r[1] \in Asked'
    BY <1>3, <1>4, <2>1
  <2>4. PICK o : /\ outcomes' = [outcomes EXCEPT ![q] = @ \cup {o}]
                 /\ o \in IF cancelReq[q] THEN {"cancelled", "timed_out", "failed"} ELSE Exits
    BY <1>8 DEF Finish
  <2>5. o = "cancelled" => cancelReq[q]
    BY <2>4, ConstantsAssumption
  <2>6. "cancelled" \in outcomes'[r] => "cancelled" \in outcomes[r] \/ (q = r /\ o = "cancelled")
    BY <1>1, <2>4
  <2> QED BY <1>3, <1>4, <2>2, <2>3, <2>5, <2>6
<1>9. ASSUME NEW h \in Hosts, AgentCrash(h)
      PROVE  /\ starts'[r] > 0 => verdict'[r] = "allow"
             /\ live'[r] > 0 => starts'[r] > 0
             /\ cancelReq'[r] => r[1] \in Asked'
             /\ "cancelled" \in outcomes'[r] => r[1] \in Asked'
  <2>1. UNCHANGED <<starts, cancelReq, outcomes>> /\ (live'[r] = 0 \/ live'[r] = live[r])
    BY <1>9 DEF AgentCrash
  <2> QED BY <1>3, <1>4, <2>1
<1> QED BY <1>6, <1>7, <1>8, <1>9, ProcessMoves
-----------------------------------------------------------------------------
(* The rows *)

\* Where an open row may go: forward (out of "queued" only for an allowed run
\* or to be parked), to a reported outcome, to a verdict of the server's own,
\* and to "cancelled" only when that was asked.
Leads(r, new) ==
  \/ /\ new \in Lifecycle!Forward(runState[r])
     /\ runState[r] = "queued" => verdict[r] = "allow" \/ ParkRun(r)
  \/ new \in (outcomes[r] \cup GiveUpStates) \ {"cancelled"}
  \/ new = "cancelled" /\ r[1] \in Asked

RowAdvance(r) ==
  \/ runState'[r] = runState[r]
  \/ CreateRun(r)
  \/ runState[r] \in OpenStates /\ Leads(r, runState'[r])

\* A row update that replaces an open state by a permitted one.
LEMMA SetRunAdvances ==
  ASSUME TypeInv, NEW q \in Runs, NEW new, SetRun(q, new),
         runState[q] \in OpenStates => new = runState[q] \/ Leads(q, new)
  PROVE  \A r \in Runs : RowAdvance(r)
<1>1. \A r \in Runs : r # q => runState'[r] = runState[r]
  BY DEF SetRun, TypeInv, TypeOK, DbType
<1>2. runState'[q] = IF runState[q] \in OpenStates THEN new ELSE runState[q]
  BY DEF SetRun, UpdateRunState, TypeInv, TypeOK, DbType
<1> QED BY <1>1, <1>2 DEF RowAdvance, Leads

\* "delivered" is ahead of every other open state.
LEMMA DeliveredLeads ==
  ASSUME NEW r, runState[r] \in OpenStates, verdict[r] = "allow"
  PROVE  "delivered" = runState[r] \/ Leads(r, "delivered")
  BY DEF Leads, OpenStates, InFlightStates, Lifecycle!Forward

\* Every step of every goroutine takes each row one step of its life.
LEMMA RowSteps ==
  ASSUME TypeInv, FreshRuns, SafeInv, Next
  PROVE  \A r \in Runs : RowAdvance(r)
<1> DEFINE All == \A r \in Runs : RowAdvance(r)
<1>0. runState \in [Runs -> RunStates]
  BY DEF TypeInv, TypeOK, DbType
<1>1. UNCHANGED runState => All
  BY DEF RowAdvance
<1>2. \A r \in Runs, new \in {"denied", "expired", "not_delivered"} : Leads(r, new)
  BY DEF Leads, GiveUpStates
<1> SUFFICES All
  OBVIOUS
<1> HIDE DEF All
<1>3. ASSUME NEW e \in Execs, Dispatch(e)
      PROVE  All
  <2>1. ASSUME NEW h \in Hosts, DispatchRun(<<e, h>>)
        PROVE  All
    <3> DEFINE q == <<e, h>>
    <3>0. q \in Runs
      BY DEF Runs
    <3> HIDE DEF q
    <3>1. CASE CreateRun(q)
      BY <1>0, <3>1 DEF CreateRun, RowAdvance, All
    <3>2. CASE DenyRun(q) \/ MarkUndelivered(q)
      BY <1>2, <3>0, <3>2, SetRunAdvances DEF DenyRun, MarkUndelivered, CloseRun, All
    <3>3. CASE MarkDelivered(q)
      <4>1. verdict[q] = "allow"
        BY <3>0, <3>3 DEF MarkDelivered, CloseRun, SafeInv, Decided, Sending
      <4> QED BY <3>0, <3>3, <4>1, DeliveredLeads, SetRunAdvances DEF MarkDelivered, CloseRun, All
    <3>4. CASE ParkRun(q)
      <4>1. runState[q] \in OpenStates => runState[q] = "queued"
        BY <3>0, <3>4 DEF ParkRun, CloseRun, SafeInv, Decided, OpenStates, InFlightStates,
                   FinalStates, ResultStates, GiveUpStates
      <4>2. runState[q] = "queued" => Leads(q, "awaiting_approval")
        BY <3>4 DEF Leads, Lifecycle!Forward
      <4> QED BY <3>0, <3>4, <4>1, <4>2, SetRunAdvances DEF ParkRun, CloseRun, All
    <3>5. CASE LookupSession(q) \/ SendLive(q) \/ QueueOffline(q)
      BY <1>1, <3>5 DEF LookupSession, SendLive, QueueOffline
    <3>6. CASE ExpireEvicted(q)
      <4>1. PICK v \in victim[q] : SetRun(<<v, q[2]>>, "expired")
        BY <3>6 DEF ExpireEvicted
      <4>2. <<v, q[2]>> \in Runs
        BY <3>0 DEF TypeInv, TypeOK, ControlType, Runs
      <4> QED BY <1>2, <4>1, <4>2, SetRunAdvances DEF All
    <3>7. CASE MarkQueuedOffline(q)
      <4>1. runState' = [runState EXCEPT ![q] = MarkQueuedOfflineIfQueued(@)]
        BY <3>7 DEF MarkQueuedOffline
      <4>2. verdict[q] = "allow"
        BY <3>0, <3>7 DEF MarkQueuedOffline, SafeInv, Decided, Sending
      <4> QED BY <1>0, <4>1, <4>2 DEF MarkQueuedOfflineIfQueued, RowAdvance, Leads, OpenStates,
                 Lifecycle!Forward, All
    <3> QED BY <2>1, <3>1, <3>2, <3>3, <3>4, <3>5, <3>6, <3>7 DEF DispatchRun, q
  <2>2. CASE CreateExecution(e) \/ FinishDispatch(e)
    BY <1>1, <2>2 DEF CreateExecution, FinishDispatch
  <2> QED BY <1>3, <2>1, <2>2 DEF Dispatch
<1>4. ASSUME NEW e \in Execs, CancelExecution(e)
      PROVE  All
  <2>1. CASE CancelRuns(e)
    <3>1. e \in Asked
      BY <2>1 DEF CancelRuns, Asked
    <3>2. \A r \in Runs : runState'[r] = IF r[1] = e /\ runState[r] \in OpenStates \ {"interrupted"}
                                           THEN "cancelled" ELSE runState[r]
      BY <2>1 DEF CancelRuns, CancelNonTerminalRun
    <3> QED BY <3>1, <3>2 DEF RowAdvance, Leads, All
  <2>2. CASE ~CancelRuns(e)
    BY <1>1, <1>4, <2>2 DEF CancelExecution, CancelCheck, CancelList, CancelSignal, CancelState
  <2> QED BY <2>1, <2>2
<1>5. ASSUME NEW s \in Streams, Serve(s)
      PROVE  All
  <2>0. s[1] \in Hosts /\ \A e \in Execs : <<e, s[1]>> \in Runs
    BY DEF Streams, Runs
  <2>1. CASE DrainStep(s)
    <3>1. Head(batch[s]) \in Execs
      BY <2>1 DEF DrainStep, TypeInv, TypeOK, StreamType
    <3>2. UNCHANGED runState \/ SetRun(<<Head(batch[s]), s[1]>>, "expired")
      BY <2>1 DEF DrainStep
    <3> QED BY <1>1, <1>2, <2>0, <3>1, <3>2, SetRunAdvances DEF All
  <2>2. CASE DrainMark(s)
    <3>1. batch[s] \in Seq(Allowed(s[1])) /\ batch[s] # <<>>
      BY <2>2 DEF DrainMark, TypeInv, MarkHasBatch, SafeInv, QueuesAllowed
    <3>3. Head(batch[s]) \in Execs /\ verdict[<<Head(batch[s]), s[1]>>] = "allow"
      BY <3>1, SeqTakes DEF Allowed
    <3>2. SetRun(<<Head(batch[s]), s[1]>>, "delivered")
      BY <2>2 DEF DrainMark
    <3> QED BY <2>0, <3>2, <3>3, SetRunAdvances, DeliveredLeads DEF All
  <2>3. CASE HandleUp(s)
    <3> DEFINE m == Head(up[s])
               q == <<m.e, s[1]>>
    <3>1. up[s] \in Seq(UpOK(s[1])) /\ up[s] # <<>>
      BY <2>3 DEF HandleUp, SafeInv, RecordsOK
    <3>2. m \in UpOK(s[1])
      BY <3>1, SeqTakes
    <3>3. q \in Runs /\ q[1] = m.e /\ m.is \in Reportable(q)
      <4> HIDE DEF m
      <4> QED BY <2>0, <3>2 DEF UpOK, UpMsgs
    <3>4. IF m.is = "output" THEN runState' = [runState EXCEPT ![q] = PromoteRunToRunning(@)]
                             ELSE SetRun(q, m.is)
      BY <2>3 DEF HandleUp
    <3> HIDE DEF m, q
    <3>5. CASE m.is = "output"
      <4>1. runState' = [runState EXCEPT ![q] = PromoteRunToRunning(@)]
        BY <3>4, <3>5
      <4> QED BY <1>0, <4>1 DEF PromoteRunToRunning, RowAdvance, Leads, OpenStates,
                 InFlightStates, Lifecycle!Forward, All
    <3>6. CASE m.is # "output"
      <4>1. m.is \in outcomes[q]
        BY <3>3, <3>6 DEF Reportable
      <4>2. "cancelled" \in outcomes[q] => q[1] \in Asked
        BY <3>3 DEF SafeInv, ProcessesOK
      <4>3. Leads(q, m.is)
        BY <4>1, <4>2 DEF Leads
      <4> QED BY <3>3, <3>4, <3>6, <4>3, SetRunAdvances DEF All
    <3> QED BY <3>5, <3>6
  <2>4. CASE InterruptUpdate(s)
    <3>1. \A r \in Runs : \/ runState'[r] = runState[r]
                          \/ runState[r] \in InFlightStates /\ runState'[r] = "interrupted"
      BY <2>4 DEF InterruptUpdate, InterruptRun
    <3> QED BY <3>1 DEF RowAdvance, Leads, OpenStates, InFlightStates, Lifecycle!Forward, All
  <2>5. CASE \/ Register(s) \/ DrainRead(s) \/ DrainTake(s) \/ DrainDone(s)
             \/ Unregister(s) \/ MarkDisconnected(s) \/ InterruptSelect(s)
    BY <1>1, <2>5 DEF Register, DrainRead, DrainTake, DrainDone, Unregister,
                      MarkDisconnected, InterruptSelect
  <2> QED BY <1>5, <2>1, <2>2, <2>3, <2>4, <2>5 DEF Serve, ServeDrain, Teardown
<1>6. CASE Sweep
  <2>1. CASE StrandSelect \/ ExpireSweep
    BY <1>1, <2>1 DEF StrandSelect, ExpireSweep
  <2>2. CASE StrandUpdate
    <3>1. \A r \in Runs : \/ runState'[r] = runState[r]
                          \/ runState[r] = "interrupted" /\ runState'[r] = "not_delivered"
      BY <2>2 DEF StrandUpdate, ResolveStranded
    <3> QED BY <1>2, <3>1 DEF RowAdvance, OpenStates, All
  <2>3. ASSUME NEW q \in Runs, ExpireQueued(q)
        PROVE  All
    BY <1>2, <2>3, SetRunAdvances DEF ExpireQueued, All
  <2> QED BY <1>6, <2>1, <2>2, <2>3 DEF Sweep
<1>7. CASE ServerRestart
  <2>1. \A r \in Runs : \/ runState'[r] = runState[r]
                        \/ runState[r] = "queued_offline" /\ runState'[r] = "expired"
    BY <1>7 DEF ServerRestart, ExpireStaleOfflineRun
  <2> QED BY <1>2, <2>1 DEF RowAdvance, OpenStates, All
<1>8. CASE Finalize
  BY <1>1, <1>8 DEF Finalize, FinRead, FinWrite, dbVars
<1>9. CASE \E s \in Streams : Connect(s) \/ Cut(s)
  BY <1>1, <1>9 DEF Connect, Cut, dbVars
<1>10. CASE \E h \in Hosts : AgentNotice(h) \/ EnterLoop(h) \/ Receive(h) \/ AgentCrash(h)
  BY <1>1, <1>10 DEF AgentNotice, EnterLoop, Receive, AgentCrash, AgentUnchanged, dbVars
<1>11. CASE \E q \in Runs : RunStep(q) \/ SpoolStep(q)
  BY <1>1, <1>11 DEF RunStep, Output, Finish, SpoolStep, DrainSpool, DrainCut,
                     SpoolDrop, AgentUnchanged, dbVars
<1> QED BY <1>3, <1>4, <1>5, <1>6, <1>7, <1>8, <1>9, <1>10, <1>11 DEF Next
\* A verdict is truthful when it is written, and outcomes and requests stay.
LEMMA RowsStep ==
  ASSUME TypeInv, FreshRuns, SafeInv, Next
  PROVE  RowsOK'
<1> SUFFICES ASSUME NEW r \in Runs
             PROVE  /\ runState'[r] \in ResultStates \ {"cancelled"} => runState'[r] \in outcomes'[r]
                    /\ runState'[r] = "cancelled" => r[1] \in Asked'
  BY DEF RowsOK
<1>1. outcomes[r] \subseteq outcomes'[r] /\ (r[1] \in Asked => r[1] \in Asked')
  BY Grows, StaysAllowed DEF SafeInv
<1>2. /\ runState[r] \in ResultStates \ {"cancelled"} => runState[r] \in outcomes[r]
      /\ runState[r] = "cancelled" => r[1] \in Asked
  BY DEF SafeInv, RowsOK
<1>3. CASE runState'[r] = runState[r]
  BY <1>1, <1>2, <1>3
<1>4. CASE CreateRun(r)
  <2>1. runState'[r] = "queued"
    BY <1>4 DEF CreateRun, TypeInv, TypeOK, DbType
  <2> QED BY <2>1 DEF ResultStates
<1>5. CASE runState[r] \in OpenStates /\ Leads(r, runState'[r])
  <2>1. Lifecycle!Forward(runState[r]) \cap ResultStates = {}
    BY <1>5 DEF OpenStates, InFlightStates, Lifecycle!Forward, ResultStates
  <2> QED BY <1>1, <1>5, <2>1 DEF Leads, GiveUpStates, ResultStates
<1> QED BY <1>3, <1>4, <1>5, RowSteps DEF RowAdvance

\* What a run's dispatcher does next follows the decision recorded for it.
LEMMA DecidedStep ==
  ASSUME TypeInv, FreshRuns, SafeInv, Next
  PROVE  Decided'
<1> SUFFICES ASSUME NEW r \in Runs
             PROVE  /\ runState'[r] = "none" => verdict'[r] = "none"
                    /\ at'[r] \in Sending => verdict'[r] = "allow"
                    /\ at'[r] = "require_approval" =>
                         verdict'[r] = "require_approval" /\ runState'[r] \in {"queued"} \cup FinalStates
  BY DEF Decided
<1>0. /\ at \in [Runs -> Positions] /\ runState \in [Runs -> RunStates]
      /\ verdict \in [Runs -> {"none", "allow", "deny", "require_approval"}]
      /\ outcomes[r] \subseteq ResultStates
  BY DEF TypeInv, TypeOK, ControlType, DbType, AgentType
<1>1. /\ runState[r] = "none" => verdict[r] = "none"
      /\ at[r] \in Sending => verdict[r] = "allow"
      /\ at[r] = "require_approval" =>
           verdict[r] = "require_approval" /\ runState[r] \in {"queued"} \cup FinalStates
  BY DEF SafeInv, Decided
<1>2. RowAdvance(r)
  BY RowSteps
<1>3. CASE CreateRun(r)
  <2>1. PICK eff \in Effects : at'[r] = eff /\ verdict'[r] = eff /\ runState'[r] = "queued"
    BY <1>0, <1>3 DEF CreateRun
  <2> QED BY <2>1, ConstantsAssumption DEF Sending
<1>4. CASE ~CreateRun(r)
  <2>1. verdict'[r] = verdict[r]
    <3>1. CASE \E q \in Runs : CreateRun(q)
      BY <1>0, <1>4, <3>1 DEF CreateRun
    <3> QED BY <3>1, VerdictMoves
  <2>2. runState'[r] = "none" => runState[r] = "none"
    BY <1>0, <1>2, <1>4 DEF RowAdvance, Leads, Lifecycle!Forward, OpenStates, InFlightStates,
                            GiveUpStates, ResultStates
  <2>3. \/ at'[r] = at[r] /\ ~ParkRun(r)
        \/ at'[r] \in Waiting
        \/ at[r] \in Sending /\ at'[r] \in Sending
    <3>1. CASE ServerRestart
      BY <3>1 DEF ServerRestart, Waiting
    <3>2. CASE \E e \in Execs : Dispatch(e)
      <4>1. PICK e \in Execs : Dispatch(e)
        BY <3>2
      <4>2. CASE CreateExecution(e) \/ FinishDispatch(e)
        <5>1. at'[r] = at[r] \/ at'[r] \in Waiting
          BY <4>2 DEF CreateExecution, FinishDispatch, Waiting
        <5>2. ~ParkRun(r)
          BY <1>0, <4>2 DEF CreateExecution, FinishDispatch, ParkRun, CloseRun, Runs, Waiting
        <5> QED BY <5>1, <5>2
      <4>3. ASSUME NEW h \in Hosts, DispatchRun(<<e, h>>)
            PROVE  \/ at'[r] = at[r] /\ ~ParkRun(r)
                   \/ at'[r] \in Waiting
                   \/ at[r] \in Sending /\ at'[r] \in Sending
        <5> DEFINE q == <<e, h>>
        <5>0. q \in Runs
          BY DEF Runs
        <5> HIDE DEF q
        <5>1. CASE q = r
          BY <1>0, <1>4, <4>3, <5>1 DEF DispatchRun, DenyRun, ParkRun, MarkDelivered,
             MarkUndelivered, CloseRun, LookupSession, SendLive, QueueOffline,
             ExpireEvicted, MarkQueuedOffline, Sending, Waiting, q
        <5>2. CASE q # r
          <6>1. \E p : at' = [at EXCEPT ![q] = p]
            BY <4>3 DEF DispatchRun, CreateRun, DenyRun, ParkRun, MarkDelivered,
               MarkUndelivered, CloseRun, LookupSession, SendLive, QueueOffline,
               ExpireEvicted, MarkQueuedOffline, q
          <6>2. at'[r] = at[r]
            BY <1>0, <5>2, <6>1
          <6>3. ~ParkRun(r)
            BY <1>0, <6>2 DEF ParkRun, CloseRun
          <6> QED BY <6>2, <6>3
        <5> QED BY <5>1, <5>2
      <4> QED BY <4>1, <4>2, <4>3 DEF Dispatch
    <3>3. CASE UNCHANGED dispVars
      BY <1>0, <3>3 DEF dispVars, ParkRun, CloseRun
    <3> QED BY <3>1, <3>2, <3>3, DispMoves
  <2>4. ASSUME at[r] = "require_approval", ~ParkRun(r)
        PROVE  runState'[r] \in {"queued"} \cup FinalStates
    BY <1>0, <1>1, <1>2, <1>4, <2>4 DEF RowAdvance, Leads, FinalStates, ResultStates,
       GiveUpStates, OpenStates, InFlightStates
  <2> QED BY <1>1, <2>1, <2>2, <2>3, <2>4 DEF Waiting, Sending
<1> QED BY <1>3, <1>4
-----------------------------------------------------------------------------
(* Sessions *)

\* The sessions map and the stream goroutines move together: a goroutine that
\* is entered in the map goes on serving until its own teardown clears the entry.
LEMMA SessionStep ==
  ASSUME TypeInv, SessionServed, Next
  PROVE  SessionServed'
<1>0. sessions \in [Hosts -> 0..MaxConn] /\ srv \in [Streams -> SrvPCs]
  BY DEF TypeInv, TypeOK, StreamType
<1>1. ASSUME UNCHANGED <<sessions, srv>>
      PROVE  SessionServed'
  BY <1>1 DEF SessionServed
<1>2. ASSUME NEW s \in Streams, NEW pc \in SrvPCs, Goto(s, pc), UNCHANGED sessions,
             srv[s] \in Serving => pc \in Serving
      PROVE  SessionServed'
  <2>1. \A t \in Streams : srv[t] \in Serving => srv'[t] \in Serving
    BY <1>0, <1>2 DEF Goto
  <2>2. \A h \in Hosts : sessions[h] # 0 => <<h, sessions[h]>> \in Streams
    BY <1>0 DEF Streams, Conns
  <2> QED BY <1>2, <2>1, <2>2 DEF SessionServed
<1>3. ASSUME NEW s \in Streams, Connect(s)
      PROVE  SessionServed'
  <2>1. Goto(s, "register") /\ srv[s] = "none" /\ UNCHANGED sessions
    BY <1>3 DEF Connect
  <2> QED BY <1>2, <2>1 DEF Serving, SrvPCs
<1>4. ASSUME NEW s \in Streams, Serve(s)
      PROVE  SessionServed'
  <2>0. s[1] \in Hosts /\ s[2] \in Conns /\ s = <<s[1], s[2]>>
    BY DEF Streams
  <2>1. CASE Register(s)
    <3>1. /\ sessions' = [sessions EXCEPT ![s[1]] = s[2]]
          /\ srv' = [srv EXCEPT ![s] = "drain"]
      BY <2>1 DEF Register, Goto
    <3>2. \A t \in Streams : srv[t] \in Serving => srv'[t] \in Serving
      BY <1>0, <3>1 DEF Serving
    <3>3. srv'[s] \in Serving
      BY <1>0, <3>1 DEF Serving
    <3>4. \A h \in Hosts : sessions[h] # 0 => <<h, sessions[h]>> \in Streams
      BY <1>0 DEF Streams, Conns
    <3> QED BY <1>0, <2>0, <3>1, <3>2, <3>3, <3>4 DEF SessionServed
  <2>2. CASE ServeDrain(s)
    <3>1. UNCHANGED sessions /\ (UNCHANGED srv \/ \E pc \in Serving : Goto(s, pc))
      BY <2>2 DEF ServeDrain, DrainRead, DrainTake, DrainStep, DrainMark, DrainDone, Serving
    <3> QED BY <1>1, <1>2, <3>1 DEF SrvPCs
  <2>3. CASE HandleUp(s)
    BY <1>1, <2>3 DEF HandleUp, srvVars
  <2>4. CASE Unregister(s)
    <3>1. /\ sessions' = [sessions EXCEPT ![s[1]] = 0]
          /\ srv' = [srv EXCEPT ![s] = "offline"]
      BY <2>4 DEF Unregister, Goto
    <3> SUFFICES ASSUME NEW h \in Hosts, sessions'[h] # 0
                 PROVE  srv'[<<h, sessions'[h]>>] \in Serving
      BY DEF SessionServed
    <3>2. h # s[1] /\ sessions'[h] = sessions[h]
      BY <1>0, <3>1
    <3>3. <<h, sessions[h]>> # s
      BY <2>0, <3>2
    <3> QED BY <1>0, <3>1, <3>2, <3>3 DEF SessionServed, Streams, Conns
  <2>5. CASE MarkDisconnected(s) \/ InterruptSelect(s) \/ InterruptUpdate(s)
    <3>1. UNCHANGED sessions /\ srv[s] \notin Serving /\ \E pc \in SrvPCs : Goto(s, pc)
      BY <2>5 DEF MarkDisconnected, InterruptSelect, InterruptUpdate, Serving, SrvPCs
    <3> QED BY <1>2, <3>1
  <2> QED BY <1>4, <2>1, <2>2, <2>3, <2>4, <2>5 DEF Serve, Teardown
<1>5. CASE ServerRestart
  BY <1>5 DEF ServerRestart, SessionServed
<1>6. CASE Finalize \/ Sweep \/ \E s \in Streams : Cut(s)
  BY <1>1, <1>6 DEF Finalize, FinRead, FinWrite, Sweep, StrandSelect, StrandUpdate,
     ExpireSweep, ExpireQueued, SweepUnchanged, Cut, serverVars, srvVars
<1>7. ASSUME NEW e \in Execs, Dispatch(e) \/ CancelExecution(e)
      PROVE  SessionServed'
  <2>1. UNCHANGED <<sessions, srv>>
    BY <1>7 DEF Dispatch, CreateExecution, FinishDispatch, DispatchRun, CreateRun,
         DenyRun, ParkRun, MarkDelivered, MarkUndelivered, CloseRun, LookupSession,
         SendLive, QueueOffline, ExpireEvicted, MarkQueuedOffline, DispUnchanged,
         CancelExecution, CancelCheck, CancelList, CancelSignal, CancelRuns,
         CancelState, CancelUnchanged, srvVars
  <2> QED BY <1>1, <2>1
<1>8. ASSUME NEW h \in Hosts, AgentNotice(h) \/ EnterLoop(h) \/ Receive(h) \/ AgentCrash(h)
      PROVE  SessionServed'
  BY <1>1, <1>8 DEF AgentNotice, EnterLoop, Receive, AgentCrash, AgentUnchanged, serverVars, srvVars
<1>9. ASSUME NEW r \in Runs, RunStep(r) \/ SpoolStep(r)
      PROVE  SessionServed'
  BY <1>1, <1>9 DEF RunStep, Output, Finish, SpoolStep, DrainSpool, DrainCut, SpoolDrop,
     AgentUnchanged, serverVars, srvVars
<1> QED BY <1>3, <1>4, <1>5, <1>6, <1>7, <1>8, <1>9 DEF Next

-----------------------------------------------------------------------------
(* The theorems *)

\* The inductive invariant of the safety theorems.
Inv == TypeInv /\ FreshRuns /\ SafeInv

\* The empty system satisfies the whole invariant.
LEMMA InitInv == Init => Inv
<1> SUFFICES ASSUME Init
             PROVE  Inv
  OBVIOUS
<1> USE DEF Init
<1>1. TypeInv /\ FreshRuns
  BY InitType DEF TypeInv, MarkHasBatch, FreshRuns
<1>2. Decided /\ SessionServed
  BY DEF Decided, Sending, SessionServed
<1>3. \A S : <<>> \in Seq(S)
  OBVIOUS
<1>4. QueuesAllowed /\ EnvelopesOK /\ RecordsOK
  <2> HIDE DEF Allowed, DownOK, UpOK, Reportable
  <2> QED BY <1>3 DEF QueuesAllowed, EnvelopesOK, RecordsOK
<1>5. ProcessesOK /\ RowsOK
  BY DEF ProcessesOK, RowsOK, ResultStates
<1> QED BY <1>1, <1>2, <1>4, <1>5 DEF Inv, SafeInv

\* A stuttering step preserves it.
LEMMA StutterSafe == SafeInv /\ UNCHANGED vars => SafeInv'
<1> SUFFICES ASSUME SafeInv, UNCHANGED vars
             PROVE  SafeInv'
  OBVIOUS
<1> USE DEF SafeInv, vars, dbVars, serverVars, dispVars, cancelVars, srvVars, agentVars, netVars
<1>1. Decided' /\ SessionServed'
  BY DEF Decided, SessionServed
<1>2. QueuesAllowed'
  BY DEF QueuesAllowed, Allowed
<1>3. EnvelopesOK'
  BY DEF EnvelopesOK, DownOK, Allowed, Asked
<1>4. RecordsOK'
  BY DEF RecordsOK, UpOK, Reportable
<1>5. ProcessesOK' /\ RowsOK'
  BY DEF ProcessesOK, RowsOK, Asked
<1> QED BY <1>1, <1>2, <1>3, <1>4, <1>5

\* Every step preserves it: the cases above put together.
LEMMA InvStep == Inv /\ [Next]_vars => Inv'
<1> SUFFICES ASSUME Inv, [Next]_vars
             PROVE  Inv'
  OBVIOUS
<1>1. TypeInv' /\ FreshRuns'
  BY TypeInvStep, FreshRunsStep DEF Inv
<1>2. SafeInv'
  <2>1. CASE Next
    BY <2>1, DecidedStep, QueuesStep, EnvelopesStep, RecordsStep, ProcessesStep, RowsStep,
       SessionStep DEF Inv, SafeInv
  <2>2. CASE UNCHANGED vars
    BY <2>2, StutterSafe DEF Inv
  <2> QED BY <2>1, <2>2
<1> QED BY <1>1, <1>2 DEF Inv

\* No command starts on a host unless policy.Evaluate allowed that run, however
\* it travelled: a live send, the offline queue, a requeue after a failed drain.
THEOREM StartsAreGated == Spec => []GatedStart
<1>1. Inv => GatedStart
  BY DEF Inv, SafeInv, ProcessesOK, GatedStart
<1> QED BY <1>1, InitInv, InvStep, PTL DEF Spec

\* A row that says succeeded, failed or timed_out says what the host reported:
\* no replay, sweep, eviction, crash or restart invents a result.
THEOREM VerdictsAreTruthful == Spec => []TruthfulVerdict
<1>1. Inv => TruthfulVerdict
  BY DEF Inv, SafeInv, RowsOK, TruthfulVerdict
<1> QED BY <1>1, InitInv, InvStep, PTL DEF Spec

\* A row or a process is only cancelled for an execution whose CancelExecution
\* got past its check, though cancels and results overtake each other.
THEOREM CancelsAreAsked == Spec => []NoUnaskedCancel
<1>1. Inv => NoUnaskedCancel
  BY DEF Inv, SafeInv, ProcessesOK, RowsOK, Asked, NoUnaskedCancel
<1> QED BY <1>1, InitInv, InvStep, PTL DEF Spec

\* The session SendCommand finds belongs to a goroutine that still serves it.
THEOREM SessionsAreServed == Spec => []SessionServed
<1>1. Inv => SessionServed
  BY DEF Inv, SafeInv
<1> QED BY <1>1, InitInv, InvStep, PTL DEF Spec

\* The two specifications speak of the same row states.
LEMMA SameStates ==
  /\ Lifecycle!ResultStates = ResultStates /\ Lifecycle!OpenStates = OpenStates
  /\ Lifecycle!GiveUpStates = GiveUpStates
  BY DEF Lifecycle!ResultStates, ResultStates, Lifecycle!OpenStates, OpenStates,
         Lifecycle!InFlightStates, InFlightStates, Lifecycle!GiveUpStates, GiveUpStates

\* What happens on a host: nothing, a start policy allowed, or an end.
LEMMA HostSteps ==
  ASSUME Inv, Next, NEW r \in Runs
  PROVE  Lifecycle!HostStep(r)
<1>1. /\ starts \in [Runs -> Nat] /\ live \in [Runs -> Nat]
      /\ outcomes \in [Runs -> SUBSET ResultStates]
  BY DEF Inv, TypeInv, TypeOK, AgentType
<1>2. /\ starts'[r] > 0 => verdict'[r] = "allow"
      /\ live[r] > 0 => starts[r] > 0
  BY ProcessesStep DEF Inv, SafeInv, ProcessesOK
<1>3. ASSUME NEW h \in Hosts, Receive(h)
      PROVE  Lifecycle!HostStep(r)
  <2> DEFINE q == <<Head(down[AgentStream(h)]).e, h>>
  <2>1. UNCHANGED <<verdict, outcomes>>
    BY <1>3 DEF Receive, AgentUnchanged, dbVars
  <2>2. starts' = starts \/ starts' = [starts EXCEPT ![q] = @ + 1]
    BY <1>3 DEF Receive
  <2> HIDE DEF q
  <2>3. starts'[r] = starts[r] \/ starts'[r] = starts[r] + 1
    BY <1>1, <2>2
  <2> QED BY <1>1, <1>2, <2>1, <2>3 DEF Lifecycle!HostStep
<1>4. ASSUME NEW q \in Runs, Finish(q)
      PROVE  Lifecycle!HostStep(r)
  <2>1. PICK o \in ResultStates : outcomes' = [outcomes EXCEPT ![q] = @ \cup {o}]
    BY <1>4, ConstantsAssumption DEF Finish, ResultStates
  <2>2. UNCHANGED starts /\ live[q] > 0
    BY <1>4 DEF Finish
  <2> QED BY <1>1, <1>2, <2>1, <2>2, SameStates DEF Lifecycle!HostStep
<1>5. ASSUME NEW h \in Hosts, AgentCrash(h)
      PROVE  Lifecycle!HostStep(r)
  BY <1>5 DEF AgentCrash, Lifecycle!HostStep
<1>6. CASE UNCHANGED <<outcomes, starts>>
  BY <1>6 DEF Lifecycle!HostStep
<1> QED BY <1>3, <1>4, <1>5, <1>6, ProcessMoves

\* What happens to a row is a step of its life.
LEMMA RowLife ==
  ASSUME Inv, Next, NEW r \in Runs
  PROVE  Lifecycle!RowStep(r)
<1>1. /\ runState \in [Runs -> RunStates]
      /\ verdict \in [Runs -> {"none", "allow", "deny", "require_approval"}]
  BY DEF Inv, TypeInv, TypeOK, DbType
<1>2. CASE CreateRun(r)
  <2>1. runState[r] = "none" /\ verdict[r] = "none"
    BY <1>2 DEF CreateRun, Inv, FreshRuns, SafeInv, Decided
  <2>2. runState'[r] = "queued" /\ verdict'[r] \in Effects
    BY <1>1, <1>2 DEF CreateRun
  <2> QED BY <2>1, <2>2, ConstantsAssumption DEF Lifecycle!RowStep
<1>3. CASE ~CreateRun(r)
  <2>1. verdict'[r] = verdict[r]
    <3>1. CASE \E q \in Runs : CreateRun(q)
      BY <1>1, <1>3, <3>1 DEF CreateRun
    <3> QED BY <3>1, VerdictMoves
  <2>2. RowAdvance(r)
    BY RowSteps DEF Inv
  <2> QED BY <1>3, <2>1, <2>2, SameStates DEF RowAdvance, Leads, GiveUpStates, Lifecycle!RowStep
<1> QED BY <1>2, <1>3

\* The whole system, with its goroutines, queues, streams, spools, crashes and
\* restarts, implements the life of a run that RunLifecycle states.
THEOREM LifecycleRefined == Spec => ImplementsLifecycle
<1>1. Init => Lifecycle!Init
  BY DEF Init, Lifecycle!Init
<1>2. Inv /\ [Next]_vars => [Lifecycle!Next]_(Lifecycle!runVars)
  <2> SUFFICES ASSUME Inv, [Next]_vars
               PROVE  Lifecycle!Next \/ UNCHANGED Lifecycle!runVars
    OBVIOUS
  <2>1. CASE Next
    BY <2>1, HostSteps, RowLife DEF Lifecycle!Next
  <2>2. CASE UNCHANGED vars
    BY <2>2 DEF vars, dbVars, agentVars, Lifecycle!runVars
  <2> QED BY <2>1, <2>2
<1> QED BY <1>1, <1>2, InitInv, InvStep, PTL DEF Spec, ImplementsLifecycle, Lifecycle!Spec
=============================================================================
