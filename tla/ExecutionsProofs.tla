-------------------------- MODULE ExecutionsProofs --------------------------
(***************************************************************************)
(* Theorems about Executions, for every set of executions and hosts and    *)
(* every value of the bounds.                                              *)
(***************************************************************************)
EXTENDS Executions, FiniteSetTheorems, WellFoundedInduction, TLAPS

\* TypeOK is not inductive by itself: DrainMark takes the head of the batch its
\* stream is working through, so the batch must not be empty then.
MarkHasBatch == \A s \in Streams : srv[s] = "mark" => batch[s] # <<>>

TypeInv == TypeOK /\ MarkHasBatch

\* A non-empty set of natural numbers has a least element.
LEMMA LeastNumber ==
  ASSUME NEW T, T \subseteq Nat, T # {}
  PROVE  \E n \in T : \A m \in T : n <= m
<1>1. IsWellFoundedOn(OpToRel(<, Nat), Nat)
  BY NatLessThanWellFounded
<1>2. PICK n \in T : \A m \in T : ~(<<m, n>> \in OpToRel(<, Nat))
  BY <1>1, WFMin
<1>3. \A m \in T : ~(m < n)
  BY <1>2 DEF OpToRel
<1> QED BY <1>3

\* What the offline sweeper leaves of a queue is a sequence of its envelopes:
\* every position up to the number of kept envelopes is filled by one of them.
LEMMA KeepType ==
  ASSUME NEW S, NEW q \in Seq(S), NEW I \in SUBSET DOMAIN q
  PROVE  Keep(q, I) \in Seq(S)
<1> DEFINE Upto(i) == {j \in I : j <= i}
           C(i) == Cardinality(Upto(i))
<1>1. IsFiniteSet(I) /\ I \subseteq 1..Len(q) /\ Len(q) \in Nat
  BY FS_Interval, FS_Subset
<1>2. Cardinality(I) \in Nat
  BY <1>1, FS_CardinalityType
<1>3. \A i \in Nat : IsFiniteSet(Upto(i)) /\ C(i) \in Nat
  BY <1>1, FS_Subset, FS_CardinalityType
<1>4. C(0) = 0
  <2>1. Upto(0) = {}
    BY <1>1
  <2> QED BY <2>1, FS_EmptySet
<1>5. C(Len(q)) = Cardinality(I)
  <2>1. Upto(Len(q)) = I
    BY <1>1
  <2> QED BY <2>1
<1>6. ASSUME NEW i \in Nat, i # 0
      PROVE  C(i) = IF i \in I THEN C(i - 1) + 1 ELSE C(i - 1)
  <2>1. CASE i \in I
    <3>1. Upto(i) = Upto(i - 1) \cup {i} /\ i \notin Upto(i - 1) /\ i - 1 \in Nat
      BY <1>1, <1>6, <2>1
    <3>2. IsFiniteSet(Upto(i - 1))
      BY <1>3, <3>1
    <3> HIDE DEF Upto
    <3>3. Cardinality(Upto(i - 1) \cup {i}) = Cardinality(Upto(i - 1)) + 1
      BY <3>1, <3>2, FS_AddElement
    <3> QED BY <2>1, <3>1, <3>3
  <2>2. CASE i \notin I
    <3>1. Upto(i) = Upto(i - 1)
      BY <1>1, <1>6, <2>2
    <3> HIDE DEF Upto
    <3> QED BY <2>2, <3>1
  <2> QED BY <2>1, <2>2
<1>7. \A i \in Nat : C(i) \in Nat
  BY <1>3
<1>8. ASSUME NEW n \in 1..Cardinality(I)
      PROVE  \E i \in I : C(i) = n
  <2> HIDE DEF C
  <2> DEFINE T == {i \in Nat : C(i) >= n}
  <2>1. Len(q) \in T
    BY <1>1, <1>2, <1>5
  <2>2. T \subseteq Nat
    OBVIOUS
  <2>3. PICK i \in T : \A m \in T : i <= m
    <3> HIDE DEF T
    <3> QED BY <2>1, <2>2, LeastNumber
  <2>4. i \in Nat /\ C(i) >= n /\ i # 0
    BY <2>3, <1>2, <1>4
  <2>5. i - 1 \in Nat /\ C(i - 1) < n
    BY <2>3, <2>4, <1>2, <1>7
  <2>6. i \in I /\ C(i) = C(i - 1) + 1
    <3>1. C(i) = IF i \in I THEN C(i - 1) + 1 ELSE C(i - 1)
      BY <2>4, <1>6
    <3> QED BY <2>4, <2>5, <3>1, <1>2, <1>7
  <2> QED BY <2>4, <2>5, <2>6, <1>2, <1>7
<1>9. ASSUME NEW n \in 1..Cardinality(I)
      PROVE  q[CHOOSE i \in I : C(i) = n] \in S
  BY <1>1, <1>8
<1>10. Keep(q, I) = [n \in 1..Cardinality(I) |-> q[CHOOSE i \in I : C(i) = n]]
  BY DEF Keep
<1> HIDE DEF C
<1>11. Keep(q, I) \in [1..Cardinality(I) -> S]
  BY <1>9, <1>10
<1> QED BY <1>2, <1>11
\* FinalizeExecution only ever writes one of the execution states.
LEMMA AggregateType == \A rows : Aggregate(rows) \in ExecStates
  BY DEF Aggregate, ExecStates

\* The row states are closed under every statement of the store.
LEMMA RowType ==
  ASSUME NEW s \in RunStates
  PROVE  /\ \A new \in RowStates : UpdateRunState(s, new) \in RunStates
         /\ MarkQueuedOfflineIfQueued(s) \in RunStates
         /\ PromoteRunToRunning(s) \in RunStates
         /\ InterruptRun(s) \in RunStates
         /\ ResolveStranded(s) \in RunStates
         /\ CancelNonTerminalRun(s) \in RunStates
         /\ ExpireStaleOfflineRun(s) \in RunStates
  BY DEF RunStates, RowStates, OpenStates, FinalStates, ResultStates,
         GiveUpStates, InFlightStates, UpdateRunState,
         MarkQueuedOfflineIfQueued, PromoteRunToRunning, InterruptRun,
         ResolveStranded, CancelNonTerminalRun, ExpireStaleOfflineRun

\* The start of a server, its agents and their rows.
LEMMA InitType == Init => TypeOK
  BY ConstantsAssumption
     DEF Init, TypeOK, DbType, ControlType, StreamType, NetType, AgentType,
         RunStates, ExecStates, Positions, Waiting, CancelPCs, SrvPCs

\* SetRun writes a row state into a well-typed table.
LEMMA SetRunType ==
  ASSUME runState \in [Runs -> RunStates], NEW r \in Runs,
         NEW new \in RowStates, SetRun(r, new)
  PROVE  runState' \in [Runs -> RunStates]
  BY RowType DEF SetRun

\* Whatever becomes of a send, the stream carries well-formed envelopes.
LEMMA SendType ==
  ASSUME down \in [Streams -> Seq(DownMsgs)], NEW s, NEW m \in DownMsgs,
         SendOK(s, m) \/ SendErr(s)
  PROVE  down' \in [Streams -> Seq(DownMsgs)]
<1>1. \A q \in Seq(DownMsgs) : Append(q, m) \in Seq(DownMsgs)
  OBVIOUS
<1> QED BY <1>1 DEF SendOK, SendErr

\* One thread of Dispatch, from the row of one host to its send and its last write.
LEMMA DispatchRunType ==
  ASSUME TypeOK, NEW r \in Runs, DispatchRun(r)
  PROVE  TypeOK'
<1> r[1] \in Execs /\ r[2] \in Hosts
  BY DEF Runs
<1> USE DEF TypeOK, DispUnchanged, dispVars, cancelVars, srvVars, agentVars
<1>1. CASE CreateRun(r)
  <2>1. ControlType'
    BY <1>1, ConstantsAssumption DEF CreateRun, ControlType, Positions
  <2>2. DbType'
    BY <1>1, ConstantsAssumption DEF CreateRun, DbType, RunStates, RowStates, OpenStates
  <2>3. StreamType' /\ NetType' /\ AgentType'
    BY <1>1 DEF CreateRun, StreamType, NetType, AgentType
  <2> QED BY <2>1, <2>2, <2>3
<1>2. ASSUME NEW from, NEW new \in RowStates, NEW to \in Positions, CloseRun(r, from, new, to)
      PROVE  TypeOK'
  <2>1. ControlType'
    BY <1>2, ConstantsAssumption DEF CloseRun, ControlType
  <2>2. DbType'
    BY <1>2, SetRunType DEF CloseRun, DbType
  <2>3. StreamType' /\ NetType' /\ AgentType'
    BY <1>2 DEF CloseRun, StreamType, NetType, AgentType
  <2> QED BY <2>1, <2>2, <2>3
<1>3. CASE DenyRun(r) \/ ParkRun(r) \/ MarkDelivered(r) \/ MarkUndelivered(r)
  <2>1. /\ {"denied", "awaiting_approval", "delivered", "not_delivered"} \subseteq RowStates
        /\ {"terminal", "open"} \subseteq Positions
    BY DEF RowStates, FinalStates, GiveUpStates, OpenStates, InFlightStates, Positions, Waiting
  <2> QED BY <1>2, <1>3, <2>1 DEF DenyRun, ParkRun, MarkDelivered, MarkUndelivered
<1>4. CASE LookupSession(r)
  <2>1. ControlType'
    BY <1>4 DEF LookupSession, ControlType, StreamType, Positions
  <2>2. DbType' /\ StreamType' /\ NetType' /\ AgentType'
    BY <1>4 DEF LookupSession, DbType, StreamType, NetType, AgentType
  <2> QED BY <2>1, <2>2
<1>5. CASE SendLive(r)
  <2>1. ControlType'
    BY <1>5 DEF SendLive, ControlType, Positions
  <2>2. NetType'
    <3>1. [e |-> r[1], op |-> "command"] \in DownMsgs
      BY DEF DownMsgs
    <3> QED BY <1>5, <3>1, SendType DEF SendLive, NetType
  <2>3. DbType' /\ StreamType' /\ AgentType'
    BY <1>5 DEF SendLive, DbType, StreamType, AgentType
  <2> QED BY <2>1, <2>2, <2>3
<1>6. CASE QueueOffline(r)
  <2> DEFINE q == offlineQueue[r[2]]
             full == Len(q) >= OfflineCap
  <2>0. q \in Seq(Execs) /\ (full => Head(q) \in Execs /\ Tail(q) \in Seq(Execs))
    BY ConstantsAssumption DEF StreamType
  <2>1. ControlType'
    BY <1>6, <2>0 DEF QueueOffline, ControlType, Positions
  <2>2. StreamType'
    <3>1. offlineQueue' = [offlineQueue EXCEPT ![r[2]] = Append(IF full THEN Tail(q) ELSE q, r[1])]
      BY <1>6 DEF QueueOffline
    <3>2. Append(IF full THEN Tail(q) ELSE q, r[1]) \in Seq(Execs)
      BY <2>0
    <3> HIDE DEF q, full
    <3>3. offlineQueue' \in [Hosts -> Seq(Execs)]
      BY <3>1, <3>2 DEF StreamType
    <3> QED BY <1>6, <3>3 DEF QueueOffline, StreamType
  <2>3. DbType' /\ NetType' /\ AgentType'
    BY <1>6 DEF QueueOffline, DbType, NetType, AgentType
  <2> QED BY <2>1, <2>2, <2>3
<1>7. CASE ExpireEvicted(r)
  <2>1. PICK v \in victim[r] : SetRun(<<v, r[2]>>, "expired")
    BY <1>7 DEF ExpireEvicted
  <2>2. <<v, r[2]>> \in Runs /\ "expired" \in RowStates
    BY DEF ControlType, Runs, RowStates, FinalStates, GiveUpStates
  <2>3. DbType'
    BY <1>7, <2>1, <2>2, SetRunType DEF ExpireEvicted, DbType
  <2>4. ControlType'
    BY <1>7 DEF ExpireEvicted, Owes, ControlType, Positions
  <2>5. StreamType' /\ NetType' /\ AgentType'
    BY <1>7 DEF ExpireEvicted, StreamType, NetType, AgentType
  <2> QED BY <2>3, <2>4, <2>5
<1>8. CASE MarkQueuedOffline(r)
  <2>1. DbType'
    BY <1>8, RowType DEF MarkQueuedOffline, DbType
  <2>2. ControlType'
    BY <1>8 DEF MarkQueuedOffline, ControlType, Positions, Waiting
  <2>3. StreamType' /\ NetType' /\ AgentType'
    BY <1>8 DEF MarkQueuedOffline, StreamType, NetType, AgentType
  <2> QED BY <2>1, <2>2, <2>3
<1> QED BY <1>1, <1>3, <1>4, <1>5, <1>6, <1>7, <1>8 DEF DispatchRun

\* Creating an execution, and the loop over its hosts.
LEMMA DispatchType ==
  ASSUME TypeOK, NEW e \in Execs, Dispatch(e)
  PROVE  TypeOK'
<1> USE DEF TypeOK, DispUnchanged, dispVars, cancelVars, srvVars, agentVars
<1>1. CASE CreateExecution(e)
  <2>1. ControlType'
    BY <1>1 DEF CreateExecution, ControlType, Positions, Waiting
  <2>2. DbType'
    BY <1>1 DEF CreateExecution, DbType, ExecStates
  <2>3. StreamType' /\ NetType' /\ AgentType'
    BY <1>1 DEF CreateExecution, StreamType, NetType, AgentType
  <2> QED BY <2>1, <2>2, <2>3
<1>2. CASE FinishDispatch(e)
  <2>1. ControlType'
    BY <1>2 DEF FinishDispatch, Owes, ControlType, Positions, Waiting
  <2>2. DbType' /\ StreamType' /\ NetType' /\ AgentType'
    BY <1>2 DEF FinishDispatch, DbType, StreamType, NetType, AgentType
  <2> QED BY <2>1, <2>2
<1>3. CASE \E h \in Hosts : DispatchRun(<<e, h>>)
  <2>1. PICK h \in Hosts : DispatchRun(<<e, h>>)
    BY <1>3
  <2>2. <<e, h>> \in Runs
    BY DEF Runs
  <2> QED BY <2>1, <2>2, DispatchRunType
<1> QED BY <1>1, <1>2, <1>3 DEF Dispatch

\* FinalizeExecution, its read and its write under finMu.
LEMMA FinalizeType ==
  ASSUME TypeOK, Finalize
  PROVE  TypeOK'
<1> USE DEF TypeOK, dbVars, dispVars, cancelVars, srvVars, agentVars, netVars
<1>1. CASE FinWrite
  <2>1. PICK m \in finMu : /\ execState' = [execState EXCEPT ![m[2]] = m[3]]
                           /\ fin' = [fin EXCEPT ![m[1]] = @ \ {m[2]}]
    BY <1>1 DEF FinWrite
  <2>2. m[3] \in ExecStates
    BY DEF ControlType
  <2>3. DbType'
    BY <1>1, <2>1, <2>2 DEF FinWrite, DbType
  <2>4. ControlType'
    BY <1>1, <2>1 DEF FinWrite, ControlType
  <2>5. StreamType' /\ NetType' /\ AgentType'
    BY <1>1 DEF FinWrite, StreamType, NetType, AgentType
  <2> QED BY <2>3, <2>4, <2>5
<1>2. ASSUME NEW t \in Threads, NEW e \in Execs, FinRead(t, e)
      PROVE  TypeOK'
  <2>1. ControlType'
    BY <1>2, AggregateType DEF FinRead, ControlType
  <2>2. DbType' /\ StreamType' /\ NetType' /\ AgentType'
    BY <1>2 DEF FinRead, DbType, StreamType, NetType, AgentType
  <2> QED BY <2>1, <2>2
<1> QED BY <1>1, <1>2 DEF Finalize

\* CancelExecution, from the list of runs to the envelopes and the aggregate.
LEMMA CancelType ==
  ASSUME TypeOK, NEW e \in Execs, CancelExecution(e)
  PROVE  TypeOK'
<1> USE DEF TypeOK, CancelUnchanged, dispVars, srvVars, agentVars
<1>1. CASE CancelCheck(e) \/ CancelList(e)
  <2>1. ControlType'
    BY <1>1 DEF CancelCheck, CancelList, ControlType, CancelPCs
  <2>2. DbType' /\ StreamType' /\ NetType' /\ AgentType'
    BY <1>1 DEF CancelCheck, CancelList, DbType, StreamType, NetType, AgentType
  <2> QED BY <2>1, <2>2
<1>2. ASSUME NEW h \in Hosts, CancelSignal(e, h)
      PROVE  TypeOK'
  <2>1. [e |-> e, op |-> "cancel"] \in DownMsgs
    BY DEF DownMsgs
  <2>2. \A q \in Seq(DownMsgs) : Append(q, [e |-> e, op |-> "cancel"]) \in Seq(DownMsgs)
    BY <2>1
  <2>3. NetType'
    BY <1>2, <2>2 DEF CancelSignal, NetType
  <2>4. ControlType'
    BY <1>2 DEF CancelSignal, ControlType
  <2>5. DbType' /\ StreamType' /\ AgentType'
    BY <1>2 DEF CancelSignal, DbType, StreamType, AgentType
  <2> QED BY <2>3, <2>4, <2>5
<1>3. CASE CancelRuns(e)
  <2>1. DbType'
    BY <1>3, RowType DEF CancelRuns, DbType
  <2>2. ControlType'
    BY <1>3 DEF CancelRuns, ControlType, CancelPCs
  <2>3. StreamType' /\ NetType' /\ AgentType'
    BY <1>3 DEF CancelRuns, StreamType, NetType, AgentType
  <2> QED BY <2>1, <2>2, <2>3
<1>4. CASE CancelState(e)
  <2>1. DbType'
    BY <1>4 DEF CancelState, DbType, ExecStates
  <2>2. ControlType'
    BY <1>4 DEF CancelState, ControlType, CancelPCs
  <2>3. StreamType' /\ NetType' /\ AgentType'
    BY <1>4 DEF CancelState, StreamType, NetType, AgentType
  <2> QED BY <2>1, <2>2, <2>3
<1> QED BY <1>1, <1>2, <1>3, <1>4 DEF CancelExecution

\* A new stream takes over the session of its host.
LEMMA ConnectType ==
  ASSUME TypeOK, NEW s \in Streams, Connect(s)
  PROVE  TypeOK'
<1> s[1] \in Hosts /\ s[2] \in 0..MaxConn
  BY ConstantsAssumption DEF Streams, Conns
<1> USE DEF TypeOK, StreamUnchanged, dispVars, cancelVars
<1>1. DbType' /\ ControlType'
  BY DEF Connect, DbType, ControlType
<1>2. StreamType'
  BY DEF Connect, Goto, StreamType, SrvPCs
<1>3. NetType' /\ AgentType'
  BY DEF Connect, NetType, AgentType
<1> QED BY <1>1, <1>2, <1>3

\* The goroutine of a stream: drain, up envelopes, teardown.
LEMMA ServeType ==
  ASSUME TypeInv, NEW s \in Streams, Serve(s)
  PROVE  TypeInv'
<1> s[1] \in Hosts /\ s[2] \in 0..MaxConn /\ 0 \in 0..MaxConn
  BY ConstantsAssumption DEF Streams, Conns
<1> {"drain", "take", "deliver", "mark", "loop", "offline", "select", "interrupt",
     "closed"} \subseteq SrvPCs
  BY DEF SrvPCs, Serving
<1> USE DEF TypeInv, TypeOK, MarkHasBatch, StreamUnchanged, Goto, dispVars,
            cancelVars, srvVars, agentVars, netVars
<1>1. CASE Register(s)
  <2>1. StreamType' /\ MarkHasBatch'
    BY <1>1 DEF Register, StreamType
  <2>2. DbType' /\ ControlType' /\ NetType' /\ AgentType'
    BY <1>1 DEF Register, DbType, ControlType, NetType, AgentType
  <2> QED BY <2>1, <2>2
<1>2. CASE DrainRead(s)
  <2>1. StreamType' /\ MarkHasBatch'
    BY <1>2 DEF DrainRead, StreamType
  <2>2. DbType' /\ ControlType' /\ NetType' /\ AgentType'
    BY <1>2 DEF DrainRead, DbType, ControlType, NetType, AgentType
  <2> QED BY <2>1, <2>2
<1>3. CASE DrainTake(s)
  <2>1. StreamType' /\ MarkHasBatch'
    BY <1>3 DEF DrainTake, StreamType
  <2>2. DbType' /\ ControlType' /\ NetType' /\ AgentType'
    BY <1>3 DEF DrainTake, DbType, ControlType, NetType, AgentType
  <2> QED BY <2>1, <2>2
<1>11. CASE DrainDone(s)
  <2>1. StreamType' /\ MarkHasBatch'
    BY <1>11 DEF DrainDone, StreamType
  <2>2. DbType' /\ ControlType' /\ NetType' /\ AgentType'
    BY <1>11 DEF DrainDone, DbType, ControlType, NetType, AgentType
  <2> QED BY <2>1, <2>2
<1>4. CASE DrainStep(s)
  <2> DEFINE q == batch[s]
             e == Head(q)
  <2>1. q \in Seq(Execs) /\ e \in Execs /\ Tail(q) \in Seq(Execs) /\ q # <<>>
    BY <1>4 DEF DrainStep, StreamType
  <2>2. <<e, s[1]>> \in Runs /\ "expired" \in RowStates /\ [e |-> e, op |-> "command"] \in DownMsgs
    BY <2>1 DEF Runs, RowStates, FinalStates, GiveUpStates, DownMsgs
  <2>3. AgentType'
    BY <1>4 DEF DrainStep, AgentType
  <2>4. CASE /\ SetRun(<<e, s[1]>>, "expired")
             /\ Owes(Handler(s), {e})
             /\ batch' = [batch EXCEPT ![s] = Tail(q)]
             /\ UNCHANGED <<srv, offlineQueue, down>>
    <3>1. DbType'
      BY <1>4, <2>2, <2>4, SetRunType DEF DrainStep, DbType
    <3>2. ControlType'
      BY <1>4, <2>1, <2>4 DEF DrainStep, Owes, ControlType
    <3>3. StreamType' /\ MarkHasBatch'
      BY <1>4, <2>1, <2>4 DEF DrainStep, StreamType
    <3>4. NetType'
      BY <1>4, <2>4 DEF DrainStep, NetType
    <3> QED BY <2>3, <3>1, <3>2, <3>3, <3>4
  <2>5. CASE /\ SendOK(s, [e |-> e, op |-> "command"])
             /\ Goto(s, "mark")
             /\ UNCHANGED <<batch, runState, offlineQueue, fin>>
    <3>1. DbType' /\ ControlType'
      BY <1>4, <2>5 DEF DrainStep, DbType, ControlType
    <3>2. StreamType' /\ MarkHasBatch'
      BY <1>4, <2>1, <2>5 DEF DrainStep, StreamType
    <3>3. NetType'
      BY <1>4, <2>2, <2>5, SendType DEF DrainStep, NetType
    <3> QED BY <2>3, <3>1, <3>2, <3>3
  <2>6. CASE /\ SendErr(s)
             /\ offlineQueue' = [offlineQueue EXCEPT ![s[1]] = @ \o q]
             /\ Goto(s, "loop")
             /\ batch' = [batch EXCEPT ![s] = <<>>]
             /\ UNCHANGED <<runState, fin>>
    <3>1. DbType' /\ ControlType'
      BY <1>4, <2>6 DEF DrainStep, DbType, ControlType
    <3>2. \A x \in Seq(Execs) : x \o q \in Seq(Execs)
      BY <2>1
    <3>3. StreamType' /\ MarkHasBatch'
      BY <1>4, <2>1, <2>6, <3>2 DEF DrainStep, StreamType
    <3>4. NetType'
      BY <1>4, <2>6 DEF DrainStep, SendErr, NetType
    <3> QED BY <2>3, <3>1, <3>3, <3>4
  <2> QED BY <1>4, <2>4, <2>5, <2>6 DEF DrainStep
<1>5. CASE DrainMark(s)
  <2>1. batch[s] \in Seq(Execs) /\ batch[s] # <<>>
    BY <1>5 DEF DrainMark, StreamType
  <2>2. Tail(batch[s]) \in Seq(Execs) /\ <<Head(batch[s]), s[1]>> \in Runs
    BY <2>1 DEF Runs
  <2>3. "delivered" \in RowStates
    BY DEF RowStates, OpenStates, InFlightStates
  <2>4. DbType'
    BY <1>5, <2>2, <2>3, SetRunType DEF DrainMark, DbType
  <2>5. StreamType' /\ MarkHasBatch'
    BY <1>5, <2>2 DEF DrainMark, StreamType
  <2>6. ControlType' /\ NetType' /\ AgentType'
    BY <1>5 DEF DrainMark, ControlType, NetType, AgentType
  <2> QED BY <2>4, <2>5, <2>6
<1>6. CASE HandleUp(s)
  <2> DEFINE m == Head(up[s])
             r == <<m.e, s[1]>>
  <2>1. m \in UpMsgs /\ Tail(up[s]) \in Seq(UpMsgs)
    BY <1>6 DEF HandleUp, NetType
  <2>2. r \in Runs /\ m.e \in Execs /\ (m.is # "output" => m.is \in RowStates)
    BY <2>1 DEF UpMsgs, UpKinds, Runs, RowStates, FinalStates
  <2>3. DbType'
    <3>1. CASE m.is = "output"
      <4>1. runState' = [runState EXCEPT ![r] = PromoteRunToRunning(@)]
        BY <1>6, <3>1 DEF HandleUp
      <4>2. runState' \in [Runs -> RunStates]
        BY <2>2, <4>1, RowType DEF DbType
      <4> QED BY <1>6, <4>2 DEF HandleUp, DbType
    <3>2. CASE m.is # "output"
      <4>1. SetRun(r, m.is)
        BY <1>6, <3>2 DEF HandleUp
      <4>2. runState' \in [Runs -> RunStates]
        BY <2>2, <3>2, <4>1, SetRunType DEF DbType
      <4> QED BY <1>6, <4>2 DEF HandleUp, DbType
    <3> QED BY <3>1, <3>2
  <2>4. ControlType'
    BY <1>6, <2>2 DEF HandleUp, Owes, ControlType
  <2>5. NetType'
    BY <1>6, <2>1 DEF HandleUp, NetType
  <2>6. StreamType' /\ AgentType' /\ MarkHasBatch'
    BY <1>6 DEF HandleUp, StreamType, AgentType
  <2> QED BY <2>3, <2>4, <2>5, <2>6
<1>7. CASE Unregister(s)
  <2>1. StreamType' /\ MarkHasBatch'
    BY <1>7 DEF Unregister, StreamType
  <2>2. DbType' /\ ControlType' /\ NetType' /\ AgentType'
    BY <1>7 DEF Unregister, DbType, ControlType, NetType, AgentType
  <2> QED BY <2>1, <2>2
<1>8. CASE MarkDisconnected(s)
  <2>1. StreamType' /\ MarkHasBatch'
    BY <1>8 DEF MarkDisconnected, StreamType
  <2>2. DbType' /\ ControlType' /\ NetType' /\ AgentType'
    BY <1>8 DEF MarkDisconnected, DbType, ControlType, NetType, AgentType
  <2> QED BY <2>1, <2>2
<1>9. CASE InterruptSelect(s)
  <2>1. StreamType' /\ MarkHasBatch'
    BY <1>9 DEF InterruptSelect, StreamType
  <2>2. DbType' /\ ControlType' /\ NetType' /\ AgentType'
    BY <1>9 DEF InterruptSelect, DbType, ControlType, NetType, AgentType
  <2> QED BY <2>1, <2>2
<1>10. CASE InterruptUpdate(s)
  <2>1. DbType'
    BY <1>10, RowType DEF InterruptUpdate, DbType
  <2>2. ControlType'
    BY <1>10 DEF InterruptUpdate, Owes, ControlType, StreamType
  <2>3. StreamType' /\ MarkHasBatch'
    BY <1>10 DEF InterruptUpdate, StreamType
  <2>4. NetType' /\ AgentType'
    BY <1>10 DEF InterruptUpdate, NetType, AgentType
  <2> QED BY <2>1, <2>2, <2>3, <2>4
<1> QED BY <1>1, <1>2, <1>3, <1>4, <1>5, <1>6, <1>7, <1>8, <1>9, <1>10, <1>11
        DEF Serve, ServeDrain, Teardown

\* The interrupted-run sweeper and the offline sweeper.
LEMMA SweepType ==
  ASSUME TypeInv, Sweep
  PROVE  TypeInv'
<1> USE DEF TypeInv, TypeOK, MarkHasBatch, SweepUnchanged, dispVars, cancelVars,
            srvVars, agentVars, netVars
<1>1. CASE StrandSelect
  <2>1. StreamType' /\ MarkHasBatch'
    BY <1>1 DEF StrandSelect, StreamType
  <2>2. DbType' /\ ControlType' /\ NetType' /\ AgentType'
    BY <1>1 DEF StrandSelect, DbType, ControlType, NetType, AgentType
  <2> QED BY <2>1, <2>2
<1>2. CASE StrandUpdate
  <2>1. DbType'
    BY <1>2, RowType DEF StrandUpdate, DbType
  <2>2. ControlType'
    <3>1. {r[1] : r \in strand} \subseteq Execs
      BY DEF StreamType, Runs
    <3> QED BY <1>2, <3>1 DEF StrandUpdate, Owes, ControlType
  <2>3. StreamType' /\ MarkHasBatch'
    BY <1>2 DEF StrandUpdate, StreamType
  <2>4. NetType' /\ AgentType'
    BY <1>2 DEF StrandUpdate, NetType, AgentType
  <2> QED BY <2>1, <2>2, <2>3, <2>4
<1>3. CASE ExpireSweep
  <2>1. PICK old \in SUBSET Envelopes :
          /\ expiring' = {<<offlineQueue[x[1]][x[2]], x[1]>> : x \in old}
          /\ offlineQueue' = [h \in Hosts |->
               Keep(offlineQueue[h], {i \in DOMAIN offlineQueue[h] : <<h, i>> \notin old})]
    BY <1>3 DEF ExpireSweep
  <2>2. \A h \in Hosts :
          Keep(offlineQueue[h], {i \in DOMAIN offlineQueue[h] : <<h, i>> \notin old}) \in Seq(Execs)
    BY KeepType DEF StreamType
  <2>3. StreamType' /\ MarkHasBatch'
    <3>1. \A x \in old : x[1] \in Hosts /\ x[2] \in DOMAIN offlineQueue[x[1]]
      BY DEF Envelopes
    <3>2. \A x \in old : offlineQueue[x[1]][x[2]] \in Execs
      BY <3>1 DEF StreamType
    <3>3. expiring' \subseteq Runs
      BY <2>1, <3>1, <3>2 DEF Runs
    <3>4. offlineQueue' \in [Hosts -> Seq(Execs)]
      BY <2>1, <2>2
    <3> QED BY <1>3, <3>3, <3>4 DEF ExpireSweep, StreamType
  <2>4. DbType' /\ ControlType' /\ NetType' /\ AgentType'
    BY <1>3 DEF ExpireSweep, DbType, ControlType, NetType, AgentType
  <2> QED BY <2>3, <2>4
<1>4. ASSUME NEW r \in Runs, ExpireQueued(r)
      PROVE  TypeInv'
  <2>1. "expired" \in RowStates /\ {r[1]} \subseteq Execs
    BY DEF RowStates, FinalStates, GiveUpStates, Runs
  <2>2. DbType'
    BY <1>4, <2>1, SetRunType DEF ExpireQueued, DbType
  <2>3. ControlType'
    BY <1>4, <2>1 DEF ExpireQueued, Owes, ControlType
  <2>4. StreamType' /\ MarkHasBatch'
    BY <1>4 DEF ExpireQueued, StreamType
  <2>5. NetType' /\ AgentType'
    BY <1>4 DEF ExpireQueued, NetType, AgentType
  <2> QED BY <2>2, <2>3, <2>4, <2>5
<1> QED BY <1>1, <1>2, <1>3, <1>4 DEF Sweep

\* A restart empties the memory and repairs the rows.
LEMMA ServerRestartType ==
  ASSUME TypeInv, ServerRestart
  PROVE  TypeInv'
<1> USE DEF TypeInv, TypeOK, MarkHasBatch, ServerRestart, agentVars
<1>1. DbType'
  <2>1. runState' \in [Runs -> RunStates]
    BY RowType DEF DbType
  <2>2. execState' \in [Execs -> ExecStates]
    BY AggregateType DEF DbType
  <2> QED BY <2>1, <2>2 DEF DbType
<1>2. ControlType'
  BY ConstantsAssumption DEF ControlType, Positions, Waiting, CancelPCs
<1>3. StreamType' /\ MarkHasBatch'
  <2>1. srv' \in [Streams -> SrvPCs] /\ MarkHasBatch'
    BY DEF StreamType, SrvPCs
  <2> QED BY <2>1, ConstantsAssumption DEF StreamType
<1>4. NetType' /\ AgentType'
  BY DEF NetType, AgentType
<1> QED BY <1>1, <1>2, <1>3, <1>4

\* A cut loses a suffix of what is in flight.
LEMMA CutType ==
  ASSUME TypeInv, NEW s \in Streams, Cut(s)
  PROVE  TypeInv'
<1> USE DEF TypeInv, TypeOK, MarkHasBatch, Cut, dbVars, serverVars, dispVars,
            cancelVars, srvVars, agentVars
<1>1. NetType'
  <2>1. \A n \in 0..Len(up[s]) : SubSeq(up[s], 1, n) \in Seq(UpMsgs)
    BY DEF NetType
  <2> QED BY <2>1 DEF NetType
<1>2. DbType' /\ ControlType' /\ AgentType'
  BY DEF DbType, ControlType, AgentType
<1>3. StreamType' /\ MarkHasBatch'
  BY DEF StreamType
<1> QED BY <1>1, <1>2, <1>3

\* Breaking a stream leaves the transport well typed.
LEMMA BreakType ==
  ASSUME NetType, NEW s, link' = [link EXCEPT ![s] = "cut"],
         down' = [down EXCEPT ![s] = <<>>]
  PROVE  /\ link' \in [Streams -> {"none", "up", "cut"}]
         /\ down' \in [Streams -> Seq(DownMsgs)]
<1>1. link' \in [Streams -> {"none", "up", "cut"}]
  BY DEF NetType
<1>2. down' \in [Streams -> Seq(DownMsgs)]
  <2>1. down \in [Streams -> Seq(DownMsgs)] /\ <<>> \in Seq(DownMsgs)
    BY DEF NetType
  <2> HIDE DEF DownMsgs
  <2> QED BY <2>1
<1> QED BY <1>1, <1>2

\* The parts of AgentType that are not about Booleans.
LEMMA AgentParts ==
  ASSUME AgentType
  PROVE  /\ agentConn \in [Hosts -> 0..MaxConn]
         /\ live \in [Runs -> Nat]
         /\ starts \in [Runs -> Nat]
         /\ spool \in [Runs -> Seq(UpKinds)]
         /\ crashes \in [Hosts -> Nat]
  BY DEF AgentType

\* The agent opens, loses and reopens its stream.
LEMMA AgentStreamType ==
  ASSUME TypeInv, NEW h \in Hosts, Receive(h) \/ AgentNotice(h) \/ EnterLoop(h)
  PROVE  TypeInv'
<1> USE DEF TypeInv, TypeOK, MarkHasBatch, AgentUnchanged, dbVars, serverVars,
            dispVars, cancelVars, srvVars, netVars
<1>1. DbType' /\ ControlType'
  BY DEF Receive, AgentNotice, EnterLoop, DbType, ControlType
<1>2. StreamType' /\ MarkHasBatch'
  BY DEF Receive, AgentNotice, EnterLoop, StreamType
<1>3. CASE AgentNotice(h) \/ EnterLoop(h)
  <2>1. NetType'
    BY <1>3 DEF AgentNotice, EnterLoop, NetType
  <2>2. agentConn' \in [Hosts -> 0..MaxConn]
    <3>1. agentConn' = agentConn \/ agentConn' = [agentConn EXCEPT ![h] = 0]
      BY <1>3 DEF AgentNotice, EnterLoop
    <3>2. agentConn \in [Hosts -> 0..MaxConn] /\ 0 \in 0..MaxConn
      BY AgentParts, ConstantsAssumption
    <3> QED BY <3>1, <3>2
  <2>3. ready' \in [Hosts -> BOOLEAN]
    BY <1>3 DEF AgentNotice, EnterLoop, AgentType
  <2>4. AgentType'
    BY <1>3, <2>2, <2>3 DEF AgentNotice, EnterLoop, AgentType
  <2> QED BY <1>1, <1>2, <2>1, <2>4
<1>4. CASE Receive(h)
  <2> DEFINE s == AgentStream(h)
             m == Head(down[s])
             r == <<m.e, h>>
  <2>1. s \in Streams
    BY <1>4 DEF Receive, AgentStream, Streams, Conns, AgentType
  <2> HIDE DEF s
  <2>2. m \in DownMsgs /\ Tail(down[s]) \in Seq(DownMsgs)
    BY <1>4, <2>1 DEF Receive, NetType, s
  <2>3. r \in Runs
    BY <2>2 DEF DownMsgs, Runs
  <2>4. NetType'
    BY <1>4, <2>2 DEF Receive, NetType, s
  <2>5. \/ /\ live' = [live EXCEPT ![r] = @ + 1]
           /\ starts' = [starts EXCEPT ![r] = @ + 1]
           /\ UNCHANGED cancelReq
        \/ UNCHANGED <<live, starts, cancelReq>>
        \/ /\ cancelReq' = [cancelReq EXCEPT ![r] = @ \/ live[r] > 0]
           /\ UNCHANGED <<live, starts>>
    BY <1>4 DEF Receive, s
  <2> HIDE DEF m, r
  <2>6. live' \in [Runs -> Nat] /\ starts' \in [Runs -> Nat]
    <3>1. \/ live' = live /\ starts' = starts
          \/ /\ live' = [live EXCEPT ![r] = @ + 1]
             /\ starts' = [starts EXCEPT ![r] = @ + 1]
      BY <2>5
    <3>2. live \in [Runs -> Nat] /\ starts \in [Runs -> Nat]
      BY AgentParts
    <3> QED BY <2>3, <3>1, <3>2
  <2>8. cancelReq' \in [Runs -> BOOLEAN]
    BY <2>3, <2>5 DEF AgentType
  <2>7. AgentType'
    BY <1>4, <2>6, <2>8 DEF Receive, AgentType
  <2> QED BY <1>1, <1>2, <2>4, <2>7
<1> QED BY <1>3, <1>4

\* An envelope reaches the agent.
LEMMA DeliverType ==
  ASSUME TypeOK, NEW r \in Runs, NEW kind \in UpKinds, Deliver(r, kind)
  PROVE  /\ up' \in [Streams -> Seq(UpMsgs)]
         /\ spooled' \in [Runs -> BOOLEAN]
         /\ spool' \in [Runs -> Seq(UpKinds)]
<1>1. [e |-> r[1], is |-> kind] \in UpMsgs
  BY DEF UpMsgs, Runs
<1>2. /\ \A q \in Seq(UpMsgs) : Append(q, [e |-> r[1], is |-> kind]) \in Seq(UpMsgs)
      /\ \A q \in Seq(UpKinds) : Append(q, kind) \in Seq(UpKinds)
  BY <1>1
<1>3. up' \in [Streams -> Seq(UpMsgs)]
  BY <1>2 DEF Deliver, TypeOK, NetType
<1>4. spool' \in [Runs -> Seq(UpKinds)]
  <2>1. spool' = spool \/ spool' = [spool EXCEPT ![r] = Append(@, kind)]
    BY DEF Deliver
  <2> QED BY <1>2, <2>1, AgentParts DEF TypeOK
<1>5. spooled' \in [Runs -> BOOLEAN]
  BY DEF Deliver, TypeOK, AgentType
<1> QED BY <1>3, <1>4, <1>5

\* A process on a host starts, writes and ends.
LEMMA RunStepType ==
  ASSUME TypeInv, NEW r \in Runs, RunStep(r)
  PROVE  TypeInv'
<1> USE DEF TypeInv, TypeOK, MarkHasBatch, AgentUnchanged, RunStep, dbVars,
            serverVars, dispVars, cancelVars, srvVars
<1>1. DbType' /\ ControlType'
  BY DEF Output, Finish, DbType, ControlType
<1>2. StreamType' /\ MarkHasBatch'
  BY DEF Output, Finish, StreamType
<1>3. CASE Output(r)
  <2>1. Deliver(r, "output") /\ "output" \in UpKinds
    BY <1>3 DEF Output, UpKinds
  <2>2. /\ up' \in [Streams -> Seq(UpMsgs)]
        /\ spooled' \in [Runs -> BOOLEAN]
        /\ spool' \in [Runs -> Seq(UpKinds)]
    BY <2>1, DeliverType
  <2>3. NetType' /\ AgentType'
    BY <1>3, <2>2 DEF Output, NetType, AgentType
  <2> QED BY <1>1, <1>2, <2>3
<1>4. CASE Finish(r)
  <2>1. PICK o \in ResultStates :
          outcomes' = [outcomes EXCEPT ![r] = @ \cup {o}] /\ Deliver(r, o)
    BY <1>4, ConstantsAssumption DEF Finish, ResultStates
  <2>2. o \in UpKinds
    BY DEF UpKinds
  <2>3. /\ up' \in [Streams -> Seq(UpMsgs)]
        /\ spooled' \in [Runs -> BOOLEAN]
        /\ spool' \in [Runs -> Seq(UpKinds)]
    BY <2>1, <2>2, DeliverType
  <2>4. live' \in [Runs -> Nat]
    BY <1>4 DEF Finish, AgentType
  <2>5. outcomes' \in [Runs -> SUBSET ResultStates]
    BY <2>1 DEF AgentType
  <2>6. NetType' /\ AgentType'
    BY <1>4, <2>3, <2>4, <2>5 DEF Finish, NetType, AgentType
  <2> QED BY <1>1, <1>2, <2>6
<1> QED BY <1>3, <1>4

\* Replayed envelopes are well formed, and so is what reached the stream of them.
LEMMA ReplayedType ==
  ASSUME AgentType, NEW r \in Runs
  PROVE  Replayed(r) \in Seq(UpMsgs) /\ Len(Replayed(r)) = Len(spool[r])
<1>1. spool[r] \in Seq(UpKinds)
  BY AgentParts
<1>2. \A i \in 1..Len(spool[r]) : [e |-> r[1], is |-> spool[r][i]] \in UpMsgs
  BY <1>1 DEF UpMsgs, Runs
<1>3. Replayed(r) = [i \in 1..Len(spool[r]) |-> [e |-> r[1], is |-> spool[r][i]]]
  BY <1>1 DEF Replayed
<1>4. Replayed(r) \in [1..Len(spool[r]) -> UpMsgs] /\ Len(spool[r]) \in Nat
  BY <1>1, <1>2, <1>3
<1> QED BY <1>4

\* Spooling while offline, and the replay of complete runs.
LEMMA SpoolStepType ==
  ASSUME TypeInv, NEW r \in Runs, SpoolStep(r)
  PROVE  TypeInv'
<1> USE DEF TypeInv, TypeOK, MarkHasBatch, AgentUnchanged, SpoolStep, dbVars,
            serverVars, dispVars, cancelVars, srvVars, netVars, agentVars
<1>1. DbType' /\ ControlType'
  BY DEF DrainSpool, DrainCut, SpoolDrop, DbType, ControlType
<1>2. StreamType' /\ MarkHasBatch'
  BY DEF DrainSpool, DrainCut, SpoolDrop, StreamType
<1>3. Replayed(r) \in Seq(UpMsgs) /\ Len(Replayed(r)) = Len(spool[r])
  BY ReplayedType
<1>4. CASE DrainSpool(r)
  <2>1. \A q \in Seq(UpMsgs) : q \o Replayed(r) \in Seq(UpMsgs)
    BY <1>3
  <2>2. NetType'
    BY <1>4, <2>1 DEF DrainSpool, NetType
  <2>3. spool' \in [Runs -> Seq(UpKinds)]
    <3>1. spool' = [spool EXCEPT ![r] = <<>>]
      BY <1>4 DEF DrainSpool
    <3> QED BY <3>1, AgentParts
  <2>4. spooled' \in [Runs -> BOOLEAN]
    BY <1>4 DEF DrainSpool, AgentType
  <2>5. AgentType'
    BY <1>4, <2>3, <2>4 DEF DrainSpool, AgentType
  <2> QED BY <1>1, <1>2, <2>2, <2>5
<1>5. CASE DrainCut(r)
  <2>1. Len(spool[r]) \in Nat
    BY AgentParts
  <2>2. \A n \in 0..(Len(spool[r]) - 1) : \A q \in Seq(UpMsgs) :
          q \o SubSeq(Replayed(r), 1, n) \in Seq(UpMsgs)
    BY <1>3, <2>1
  <2>3. NetType'
    <3>1. PICK n \in 0..(Len(spool[r]) - 1) :
            up' = [up EXCEPT ![AgentStream(r[2])] = @ \o SubSeq(Replayed(r), 1, n)]
      BY <1>5 DEF DrainCut
    <3>2. up' \in [Streams -> Seq(UpMsgs)]
      BY <2>2, <3>1 DEF NetType
    <3>3. /\ link' = [link EXCEPT ![AgentStream(r[2])] = "cut"]
          /\ down' = [down EXCEPT ![AgentStream(r[2])] = <<>>]
      BY <1>5 DEF DrainCut
    <3> QED BY <3>2, <3>3, BreakType DEF NetType
  <2>4. AgentType'
    BY <1>5 DEF DrainCut, AgentType
  <2> QED BY <1>1, <1>2, <2>3, <2>4
<1>6. CASE SpoolDrop(r)
  <2>1. spool' \in [Runs -> Seq(UpKinds)]
    <3>1. spool' = [spool EXCEPT ![r] = <<>>]
      BY <1>6 DEF SpoolDrop
    <3> QED BY <3>1, AgentParts
  <2>2. NetType' /\ AgentType'
    BY <1>6, <2>1 DEF SpoolDrop, NetType, AgentType
  <2> QED BY <1>1, <1>2, <2>2
<1> QED BY <1>4, <1>5, <1>6

\* A crash keeps what the spool had on disk, or loses it.
LEMMA AgentCrashType ==
  ASSUME TypeInv, NEW h \in Hosts, AgentCrash(h)
  PROVE  TypeInv'
<1> USE DEF TypeInv, TypeOK, MarkHasBatch, AgentUnchanged, AgentCrash, dbVars,
            serverVars, dispVars, cancelVars, srvVars
<1>1. DbType' /\ ControlType'
  BY DEF DbType, ControlType
<1>2. StreamType' /\ MarkHasBatch'
  BY DEF StreamType
<1>3. NetType'
  <2>1. /\ up' = up
        /\ \/ UNCHANGED <<link, down>>
           \/ /\ link' = [link EXCEPT ![AgentStream(h)] = "cut"]
              /\ down' = [down EXCEPT ![AgentStream(h)] = <<>>]
    OBVIOUS
  <2> QED BY <2>1, BreakType DEF NetType
<1>4. live' \in [Runs -> Nat] /\ crashes' \in [Hosts -> Nat]
  <2>1. /\ live' = [r \in Runs |-> IF r[2] = h THEN 0 ELSE live[r]]
        /\ crashes' = [crashes EXCEPT ![h] = @ + 1]
    OBVIOUS
  <2> QED BY <2>1, AgentParts
<1>5. agentConn' \in [Hosts -> 0..MaxConn]
  <2>1. agentConn' = [agentConn EXCEPT ![h] = 0]
    OBVIOUS
  <2> QED BY <2>1, AgentParts, ConstantsAssumption
<1>6. spool' \in [Runs -> Seq(UpKinds)]
  <2>1. PICK D : spool' = [r \in Runs |-> IF r[2] = h /\ r \notin D THEN <<>> ELSE spool[r]]
    OBVIOUS
  <2> QED BY <2>1, AgentParts
<1>7. ready' \in [Hosts -> BOOLEAN]
  BY DEF AgentType
<1>8. spooled' \in [Runs -> BOOLEAN]
  <2>1. spooled' = [r \in Runs |-> spooled[r] /\ r[2] # h]
    OBVIOUS
  <2> QED BY <2>1
<1>9. AgentType'
  BY <1>4, <1>5, <1>6, <1>7, <1>8 DEF AgentType
<1> QED BY <1>1, <1>2, <1>3, <1>9

\* A stuttering step keeps all types.
LEMMA StutterType ==
  ASSUME TypeInv, UNCHANGED vars
  PROVE  TypeInv'
<1> USE DEF TypeInv, TypeOK, MarkHasBatch, vars, dbVars, serverVars, dispVars,
            cancelVars, srvVars, agentVars, netVars
<1>1. DbType' /\ ControlType'
  BY DEF DbType, ControlType
<1>2. StreamType' /\ MarkHasBatch'
  BY DEF StreamType
<1>3. NetType' /\ AgentType'
  BY DEF NetType, AgentType
<1> QED BY <1>1, <1>2, <1>3

\* TypeInv is inductive: every action of every thread preserves it.
LEMMA TypeInvStep == TypeInv /\ [Next]_vars => TypeInv'
<1> SUFFICES ASSUME TypeInv, [Next]_vars
             PROVE  TypeInv'
  OBVIOUS
<1> TypeOK
  BY DEF TypeInv
<1>1. ASSUME UNCHANGED srvVars
      PROVE  MarkHasBatch'
  BY <1>1 DEF TypeInv, MarkHasBatch, srvVars
<1>2. ASSUME NEW e \in Execs, Dispatch(e)
      PROVE  TypeInv'
  <2>1. UNCHANGED srvVars
    BY <1>2 DEF Dispatch, CreateExecution, FinishDispatch, DispatchRun, CreateRun,
         DenyRun, ParkRun, MarkDelivered, MarkUndelivered, CloseRun, LookupSession,
         SendLive, QueueOffline, ExpireEvicted, MarkQueuedOffline, DispUnchanged
  <2> QED BY <1>1, <1>2, <2>1, DispatchType DEF TypeInv
<1>3. ASSUME NEW e \in Execs, CancelExecution(e)
      PROVE  TypeInv'
  <2>1. UNCHANGED srvVars
    BY <1>3 DEF CancelExecution, CancelCheck, CancelList, CancelSignal, CancelRuns,
         CancelState, CancelUnchanged
  <2> QED BY <1>1, <1>3, <2>1, CancelType DEF TypeInv
<1>4. CASE Finalize
  <2>1. UNCHANGED srvVars
    BY <1>4 DEF Finalize, FinRead, FinWrite
  <2> QED BY <1>1, <1>4, <2>1, FinalizeType DEF TypeInv
<1>5. ASSUME NEW s \in Streams, Connect(s)
      PROVE  TypeInv'
  <2>1. MarkHasBatch'
    BY <1>5 DEF TypeInv, TypeOK, StreamType, MarkHasBatch, Connect, Goto
  <2> QED BY <1>5, <2>1, ConnectType DEF TypeInv
<1>6. CASE UNCHANGED vars
  BY <1>6, StutterType
<1> QED BY <1>2, <1>3, <1>4, <1>5, <1>6, ServeType, CutType, SweepType,
           ServerRestartType, AgentStreamType, AgentCrashType, RunStepType,
           SpoolStepType DEF Next

\* Type correctness of the whole system: rows, goroutines, queues, transport
\* and agents, whatever the number of executions, hosts, streams and restarts.
THEOREM TypeCorrect == Spec => []TypeOK
<1>1. Init => TypeInv
  <2>1. Init => MarkHasBatch
    BY DEF Init, MarkHasBatch
  <2> QED BY <2>1, InitType DEF TypeInv
<1>2. TypeInv => TypeOK
  BY DEF TypeInv
<1> QED BY <1>1, <1>2, TypeInvStep, PTL DEF Spec

-----------------------------------------------------------------------------
(* Final rows *)

\* A statement of the store changes a row only if the row is open.
LEMMA StatementMoves ==
  ASSUME NEW s
  PROVE  /\ \A new : UpdateRunState(s, new) = s \/ s \in OpenStates
         /\ MarkQueuedOfflineIfQueued(s) = s \/ s \in OpenStates
         /\ PromoteRunToRunning(s) = s \/ s \in OpenStates
         /\ InterruptRun(s) = s \/ s \in OpenStates
         /\ ResolveStranded(s) = s \/ s \in OpenStates
         /\ CancelNonTerminalRun(s) = s \/ s \in OpenStates
         /\ ExpireStaleOfflineRun(s) = s \/ s \in OpenStates
  BY DEF OpenStates, InFlightStates, UpdateRunState, MarkQueuedOfflineIfQueued,
         PromoteRunToRunning, InterruptRun, ResolveStranded, CancelNonTerminalRun,
         ExpireStaleOfflineRun

\* What a step may do to a row: nothing, create it, or move it while it is open.
RowMove(r) ==
  \/ runState'[r] = runState[r]
  \/ runState[r] \in OpenStates
  \/ CreateRun(r)

\* The guarded UPDATE of one run leaves settled rows alone.
LEMMA SetRunMoves ==
  ASSUME runState \in [Runs -> RunStates], NEW q, NEW new, SetRun(q, new)
  PROVE  \A r \in Runs : RowMove(r)
  BY StatementMoves DEF SetRun, RowMove

\* Only CreateRun touches a row that is not open, and only its own.
LEMMA RowMoves ==
  ASSUME TypeInv, Next
  PROVE  \A r \in Runs : RowMove(r)
<1> runState \in [Runs -> RunStates]
  BY DEF TypeInv, TypeOK, DbType
<1>1. ASSUME UNCHANGED runState
      PROVE  \A r \in Runs : RowMove(r)
  BY <1>1 DEF RowMove
<1>2. ASSUME NEW e \in Execs, Dispatch(e)
      PROVE  \A r \in Runs : RowMove(r)
  <2>1. CASE CreateExecution(e) \/ FinishDispatch(e)
    BY <1>1, <2>1 DEF CreateExecution, FinishDispatch
  <2>2. ASSUME NEW h \in Hosts, DispatchRun(<<e, h>>)
        PROVE  \A r \in Runs : RowMove(r)
    <3> DEFINE q == <<e, h>>
    <3> q \in Runs
      BY DEF Runs
    <3> HIDE DEF q
    <3>1. CASE CreateRun(q)
      BY <3>1 DEF CreateRun, RowMove
    <3>2. CASE DenyRun(q) \/ ParkRun(q) \/ MarkDelivered(q) \/ MarkUndelivered(q)
      BY <3>2, SetRunMoves DEF DenyRun, ParkRun, MarkDelivered, MarkUndelivered, CloseRun
    <3>3. CASE LookupSession(q) \/ SendLive(q) \/ QueueOffline(q)
      BY <1>1, <3>3 DEF LookupSession, SendLive, QueueOffline
    <3>4. CASE ExpireEvicted(q)
      BY <3>4, SetRunMoves DEF ExpireEvicted
    <3>5. CASE MarkQueuedOffline(q)
      BY <3>5, StatementMoves DEF MarkQueuedOffline, RowMove
    <3> QED BY <2>2, <3>1, <3>2, <3>3, <3>4, <3>5 DEF DispatchRun, q
  <2> QED BY <1>2, <2>1, <2>2 DEF Dispatch
<1>3. ASSUME NEW e \in Execs, CancelExecution(e)
      PROVE  \A r \in Runs : RowMove(r)
  <2>1. CASE CancelRuns(e)
    BY <2>1, StatementMoves DEF CancelRuns, RowMove
  <2>2. CASE ~CancelRuns(e)
    BY <1>1, <1>3, <2>2 DEF CancelExecution, CancelCheck, CancelList, CancelSignal, CancelState
  <2> QED BY <2>1, <2>2
<1>4. ASSUME NEW s \in Streams, Serve(s)
      PROVE  \A r \in Runs : RowMove(r)
  <2>1. CASE DrainStep(s) \/ DrainMark(s)
    BY <1>1, <2>1, SetRunMoves DEF DrainStep, DrainMark
  <2>2. CASE HandleUp(s)
    <3> DEFINE m == Head(up[s])
               q == <<m.e, s[1]>>
    <3>1. \/ runState' = [runState EXCEPT ![q] = PromoteRunToRunning(@)]
          \/ SetRun(q, m.is)
      BY <2>2 DEF HandleUp
    <3> HIDE DEF q
    <3> QED BY <3>1, SetRunMoves, StatementMoves DEF RowMove
  <2>3. CASE InterruptUpdate(s)
    BY <2>3, StatementMoves DEF InterruptUpdate, RowMove
  <2>4. CASE \/ Register(s) \/ DrainRead(s) \/ DrainTake(s) \/ DrainDone(s)
             \/ Unregister(s) \/ MarkDisconnected(s) \/ InterruptSelect(s)
    BY <1>1, <2>4 DEF Register, DrainRead, DrainTake, DrainDone, Unregister,
                      MarkDisconnected, InterruptSelect
  <2> QED BY <1>4, <2>1, <2>2, <2>3, <2>4 DEF Serve, ServeDrain, Teardown
<1>5. CASE Sweep
  <2>1. CASE StrandSelect \/ ExpireSweep
    BY <1>1, <2>1 DEF StrandSelect, ExpireSweep
  <2>2. CASE StrandUpdate
    BY <2>2, StatementMoves DEF StrandUpdate, RowMove
  <2>3. CASE \E q \in Runs : ExpireQueued(q)
    BY <2>3, SetRunMoves DEF ExpireQueued
  <2> QED BY <1>5, <2>1, <2>2, <2>3 DEF Sweep
<1>6. CASE ServerRestart
  BY <1>6, StatementMoves DEF ServerRestart, RowMove
<1>7. CASE Finalize
  BY <1>1, <1>7 DEF Finalize, FinRead, FinWrite, dbVars
<1>8. CASE \E s \in Streams : Connect(s) \/ Cut(s)
  BY <1>1, <1>8 DEF Connect, Cut, dbVars
<1>9. CASE \E h \in Hosts : AgentNotice(h) \/ EnterLoop(h) \/ Receive(h) \/ AgentCrash(h)
  BY <1>1, <1>9 DEF AgentNotice, EnterLoop, Receive, AgentCrash, AgentUnchanged, dbVars
<1>10. CASE \E q \in Runs : RunStep(q) \/ SpoolStep(q)
  BY <1>1, <1>10 DEF RunStep, Output, Finish, SpoolStep, DrainSpool, DrainCut,
                     SpoolDrop, AgentUnchanged, dbVars
<1> QED BY <1>2, <1>3, <1>4, <1>5, <1>6, <1>7, <1>8, <1>9, <1>10 DEF Next

\* Dispatch inserts each row once: a run it has still to visit, and every run of
\* an execution that was never dispatched, has no row; and only a Dispatch in
\* its loop has runs to visit.
FreshRuns ==
  /\ \A r \in Runs : at[r] = "todo" => runState[r] = "none"
  /\ \A r \in Runs : at[r] # "idle" => disp[r[1]] = "loop"
  /\ \A r \in Runs : disp[r[1]] = "idle" => runState[r] = "none"

\* The dispatcher's bookkeeping only moves in Dispatch and at a restart.
LEMMA DispMoves ==
  ASSUME Next, ~ \E e \in Execs : Dispatch(e), ~ServerRestart
  PROVE  UNCHANGED dispVars
<1>1. ASSUME NEW e \in Execs, CancelExecution(e)
      PROVE  UNCHANGED dispVars
  BY <1>1 DEF CancelExecution, CancelCheck, CancelList, CancelSignal, CancelRuns,
              CancelState, CancelUnchanged
<1>2. ASSUME NEW s \in Streams, Connect(s) \/ Serve(s) \/ Cut(s)
      PROVE  UNCHANGED dispVars
  BY <1>2 DEF Connect, Serve, ServeDrain, Teardown, Register, DrainRead, DrainTake,
              DrainStep, DrainMark, DrainDone, HandleUp, Unregister,
              MarkDisconnected, InterruptSelect, InterruptUpdate, StreamUnchanged,
              Cut, serverVars
<1>3. ASSUME Finalize \/ Sweep
      PROVE  UNCHANGED dispVars
  BY <1>3 DEF Finalize, FinRead, FinWrite, Sweep, StrandSelect, StrandUpdate,
              ExpireSweep, ExpireQueued, SweepUnchanged
<1>4. ASSUME NEW h \in Hosts, AgentNotice(h) \/ EnterLoop(h) \/ Receive(h) \/ AgentCrash(h)
      PROVE  UNCHANGED dispVars
  BY <1>4 DEF AgentNotice, EnterLoop, Receive, AgentCrash, AgentUnchanged, serverVars
<1>5. ASSUME NEW r \in Runs, RunStep(r) \/ SpoolStep(r)
      PROVE  UNCHANGED dispVars
  BY <1>5 DEF RunStep, Output, Finish, SpoolStep, DrainSpool, DrainCut, SpoolDrop,
              AgentUnchanged, serverVars
<1> QED BY <1>1, <1>2, <1>3, <1>4, <1>5 DEF Next

\* Every step keeps it so.
LEMMA FreshRunsStep ==
  ASSUME TypeInv, FreshRuns, [Next]_vars
  PROVE  FreshRuns'
<1> USE DEF TypeInv, TypeOK, DbType, ControlType
<1>1. ASSUME NEW r \in Runs, runState[r] = "none", runState'[r] # "none", Next
      PROVE  CreateRun(r)
  BY <1>1, RowMoves DEF RowMove, OpenStates, InFlightStates
<1>2. CASE UNCHANGED vars
  BY <1>2 DEF vars, dbVars, serverVars, dispVars, FreshRuns
<1>3. ASSUME NEW e \in Execs, CreateExecution(e)
      PROVE  FreshRuns'
  BY <1>3 DEF CreateExecution, FreshRuns
<1>4. ASSUME NEW e \in Execs, FinishDispatch(e)
      PROVE  FreshRuns'
  BY <1>4 DEF FinishDispatch, FreshRuns
<1>5. ASSUME NEW q \in Runs, CreateRun(q)
      PROVE  FreshRuns'
  BY <1>5, ConstantsAssumption DEF CreateRun, FreshRuns
<1>6. ASSUME NEW q \in Runs, DispatchRun(q), ~CreateRun(q), Next
      PROVE  FreshRuns'
  <2>1. /\ disp' = disp /\ at[q] # "idle"
        /\ \E p \in Positions \ {"todo"} : at' = [at EXCEPT ![q] = p]
    <3> {"terminal", "open", "offline", "live", "sent", "unsent", "evict", "park"}
          \subseteq Positions \ {"todo"}
      BY DEF Positions, Waiting
    <3> QED BY <1>6 DEF DispatchRun, DenyRun, ParkRun, MarkDelivered, MarkUndelivered,
              CloseRun, LookupSession, SendLive, QueueOffline, ExpireEvicted,
              MarkQueuedOffline
  <2>2. \A r \in Runs : r # q => ~CreateRun(r)
    <3> SUFFICES ASSUME NEW r \in Runs, r # q, CreateRun(r) PROVE FALSE
      OBVIOUS
    <3>1. PICK eff \in Effects : at' = [at EXCEPT ![r] = eff]
      BY DEF CreateRun
    <3>2. eff # "todo" /\ at[r] = "todo"
      BY ConstantsAssumption DEF CreateRun
    <3>3. at'[r] = eff /\ at'[r] = at[r]
      BY <2>1, <3>1
    <3> QED BY <3>2, <3>3
  <2> QED BY <1>1, <1>6, <2>1, <2>2 DEF FreshRuns
<1>7. CASE ServerRestart
  <2>1. \A r \in Runs : runState[r] = "none" => runState'[r] = "none"
    BY <1>7 DEF ServerRestart, ExpireStaleOfflineRun
  <2>2. \A r \in Runs : at'[r] = "idle"
    BY <1>7 DEF ServerRestart
  <2>3. \A r \in Runs : disp'[r[1]] = "idle" => disp[r[1]] = "idle"
    BY <1>7 DEF ServerRestart, Runs
  <2> QED BY <2>1, <2>2, <2>3 DEF FreshRuns
<1>8. CASE Next /\ ~(\E e \in Execs : Dispatch(e)) /\ ~ServerRestart
  <2>1. UNCHANGED dispVars
    BY <1>8, DispMoves
  <2>2. \A r \in Runs : ~CreateRun(r)
    <3> SUFFICES ASSUME NEW r \in Runs, CreateRun(r) PROVE FALSE
      OBVIOUS
    <3>1. PICK e \in Execs, h \in Hosts : r = <<e, h>>
      BY DEF Runs
    <3>2. Dispatch(e)
      BY <3>1 DEF Dispatch, DispatchRun
    <3> QED BY <1>8, <3>2
  <2> QED BY <1>1, <1>8, <2>1, <2>2 DEF FreshRuns, dispVars
<1> QED BY <1>2, <1>3, <1>4, <1>5, <1>6, <1>7, <1>8 DEF Dispatch, DispatchRun, Runs

\* The row of a run that has settled is never written again, by no goroutine
\* and no restart: UpdateRunState's WHERE clause and its siblings suffice,
\* given that Dispatch inserts each row only once.
THEOREM FinalRowsStay == Spec => FinalIsFinal
<1> DEFINE Stays == \A r \in Runs : runState[r] \in FinalStates => runState'[r] = runState[r]
<1>1. Init => TypeInv /\ FreshRuns
  <2>1. Init => MarkHasBatch /\ FreshRuns
    BY DEF Init, MarkHasBatch, FreshRuns
  <2> QED BY <2>1, InitType DEF TypeInv
<1>2. TypeInv /\ FreshRuns /\ [Next]_vars => (TypeInv /\ FreshRuns)'
  BY TypeInvStep, FreshRunsStep
<1>3. TypeInv /\ FreshRuns /\ [Next]_vars => [Stays]_vars
  <2> SUFFICES ASSUME TypeInv, FreshRuns, Next, NEW r \in Runs, runState[r] \in FinalStates
               PROVE  runState'[r] = runState[r]
    OBVIOUS
  <2>1. runState[r] \notin OpenStates /\ runState[r] # "none"
    BY DEF FinalStates, ResultStates, GiveUpStates, OpenStates, InFlightStates
  <2>2. ~CreateRun(r)
    BY <2>1 DEF CreateRun, FreshRuns
  <2> QED BY <2>1, <2>2, RowMoves DEF RowMove
<1> QED BY <1>1, <1>2, <1>3, PTL DEF Spec, FinalIsFinal
=============================================================================
