-------------------------- MODULE ExecutionsSettled --------------------------
(***************************************************************************)
(* executions.state against the rows of execution_runs: when an execution  *)
(* that was dispatched to one host has come to rest, its state is what     *)
(* FinalizeExecution computes from the row, for every number of executions *)
(* and hosts, streams and crashes, as long as the server does not restart. *)
(*                                                                         *)
(* FinalizeExecution reads the rows in one statement and writes the result *)
(* in another, and what it writes may be out of date by then.  The         *)
(* inductive invariant is a ledger of who still owes the execution a       *)
(* finalization that will read the row as it is.                           *)
(***************************************************************************)
EXTENDS ExecutionsSafety

\* At most one thread is inside FinalizeExecution, for a debt of its own.
MutexOK ==
  /\ \A m \in finMu : m[2] \in fin[m[1]]
  /\ \A m, n \in finMu : m = n

\* A goroutine that is about to owe something owes nothing yet.
DebtsOK ==
  /\ \A s \in Streams : srv[s] \in {"offline", "select", "interrupt"} => fin[Handler(s)] = {}
  /\ strand # {} => fin[StrandSweeper] = {}
  /\ \A e \in Execs : fin[Dispatcher(e)] # {} =>
       disp[e] = "done" \/ \E h \in Hosts : at[<<e, h>>] = "park"

\* Dispatch works on one host at a time, and on the ones it has begun it left a row.
TurnOK ==
  /\ \A e \in Execs, g, h \in Hosts :
       at[<<e, g>>] \notin Waiting /\ at[<<e, h>>] \notin Waiting => g = h
  /\ \A r \in Runs : at[r] \notin {"idle", "todo"} => runState[r] # "none"

Ledger == MutexOK /\ DebtsOK /\ TurnOK

\* The run is the only one its execution was dispatched to.
Lone(r) == \A q \in Runs : q[1] = r[1] /\ q # r => runState[q] = "none" /\ at[q] = "idle"

\* What FinalizeExecution makes of a lone run's row.
Due(r) == Aggregate({runState[r]})

\* The execution's state is right and nobody is about to write another; or a
\* thread owes it a finalization and has not read an older row; or Dispatch has
\* closed the run and will finalize when it is through.
Settled(r) ==
  /\ execState[r[1]] = Due(r)
  /\ \A m \in finMu : m[2] = r[1] => m[3] = Due(r)
Owed(r) ==
  \E t \in Threads :
    /\ r[1] \in fin[t]
    /\ \A m \in finMu : m[1] = t /\ m[2] = r[1] => m[3] = Due(r)
Closing(r) == at[r] = "terminal"

LoneOwedOrSettled ==
  restarts = 0 =>
    \A r \in Runs :
      Lone(r) /\ cancel[r[1]] = "idle" /\ runState[r] \in FinalStates
        => Settled(r) \/ Owed(r) \/ Closing(r)

-----------------------------------------------------------------------------
(* Who comes to owe a finalization *)

\* The threads are different goroutines.
LEMMA ThreadsDiffer ==
  /\ \A e, f \in Execs : Dispatcher(e) = Dispatcher(f) => e = f
  /\ \A s, t \in Streams : Handler(s) = Handler(t) => s = t
  /\ \A e \in Execs, s \in Streams : Dispatcher(e) # Handler(s)
  /\ \A e \in Execs : Dispatcher(e) # StrandSweeper /\ Dispatcher(e) # OfflineSweeper
  /\ \A s \in Streams : Handler(s) # StrandSweeper /\ Handler(s) # OfflineSweeper
  /\ StrandSweeper # OfflineSweeper
<1>1. \A s \in Streams : s = <<s[1], s[2]>>
  BY DEF Streams
<1>2. /\ \A e \in Execs : Dispatcher(e)[1] = "Dispatch" /\ Dispatcher(e)[2] = e
      /\ \A s \in Streams : Handler(s)[1] = "Stream" /\ Handler(s)[2] = s[1] /\ Handler(s)[3] = s[2]
      /\ StrandSweeper[1] = "RunInterruptSweeper" /\ OfflineSweeper[1] = "StartOfflineSweeper"
  BY DEF Dispatcher, Handler, StrandSweeper, OfflineSweeper
<1>3. \A e, f \in Execs : Dispatcher(e) = Dispatcher(f) => e = f
  BY <1>2
<1>4. \A s, t \in Streams : Handler(s) = Handler(t) => s = t
  <2> SUFFICES ASSUME NEW s \in Streams, NEW t \in Streams, Handler(s) = Handler(t)
               PROVE  s = t
    OBVIOUS
  <2>1. s[1] = t[1] /\ s[2] = t[2]
    BY <1>2
  <2> QED BY <1>1, <2>1
<1>5. \A e \in Execs, s \in Streams : Dispatcher(e) # Handler(s)
  BY <1>2
<1>6. \A e \in Execs : Dispatcher(e) # StrandSweeper /\ Dispatcher(e) # OfflineSweeper
  BY <1>2
<1>7. \A s \in Streams : Handler(s) # StrandSweeper /\ Handler(s) # OfflineSweeper
  BY <1>2
<1>8. StrandSweeper # OfflineSweeper
  BY <1>2
<1> QED BY <1>3, <1>4, <1>5, <1>6, <1>7, <1>8

\* The step by which thread t comes to owe the executions es.
Pays(t, es) ==
  \/ \E e \in Execs : /\ t = Dispatcher(e)
                      /\ FinishDispatch(e) /\ es \in {{}, {e}}
  \/ \E r \in Runs : t = Dispatcher(r[1]) /\ ExpireEvicted(r) /\ es = victim[r]
  \/ \E s \in Streams : /\ t = Handler(s)
                        /\ \/ DrainStep(s) /\ es = {Head(batch[s])}
                           \/ HandleUp(s) /\ es = {Head(up[s]).e}
                           \/ InterruptUpdate(s) /\ es = hit[s]
  \/ t = StrandSweeper /\ StrandUpdate /\ es = {r[1] : r \in strand}
  \/ t = OfflineSweeper /\ \E r \in Runs : ExpireQueued(r) /\ es = {r[1]}

Books == <<execState, fin, finMu>>

\* What a step other than a restart may do to the debts and the verdicts.
DebtMove ==
  \/ UNCHANGED Books
  \/ \E t \in Threads : \E es \in SUBSET Execs :
       Pays(t, es) /\ Owes(t, es) /\ UNCHANGED <<execState, finMu>>
  \/ \E e \in Execs : CreateExecution(e) \/ CancelState(e)
  \/ Finalize

\* The threads by name.
LEMMA ThreadNames ==
  /\ \A e \in Execs : Dispatcher(e) \in Threads
  /\ \A s \in Streams : Handler(s) \in Threads
  /\ StrandSweeper \in Threads /\ OfflineSweeper \in Threads
  BY DEF Threads

\* Every step is such a move: only the threads that settle a row pay, and only
\* CreateExecution, CancelState and FinalizeExecution write executions.state.
LEMMA DebtMoves ==
  ASSUME TypeInv, Next, ~ServerRestart
  PROVE  DebtMove
<1>0. \A e \in Execs, h \in Hosts : <<e, h>> \in Runs /\ <<e, h>>[1] = e
  BY DEF Runs
<1> USE ThreadNames
<1>1. ASSUME NEW e \in Execs, Dispatch(e)
      PROVE  DebtMove
  <2>1. CASE CreateExecution(e)
    BY <2>1 DEF DebtMove
  <2>2. CASE FinishDispatch(e)
    <3>1. PICK es \in {{}, {e}} : Owes(Dispatcher(e), es)
      BY <2>2 DEF FinishDispatch
    <3>2. UNCHANGED <<execState, finMu>>
      BY <2>2 DEF FinishDispatch, DispUnchanged
    <3>3. Pays(Dispatcher(e), es)
      BY <2>2 DEF Pays
    <3> QED BY <3>1, <3>2, <3>3 DEF DebtMove
  <2>3. ASSUME NEW h \in Hosts, DispatchRun(<<e, h>>)
        PROVE  DebtMove
    <3> DEFINE r == <<e, h>>
    <3>0. r \in Runs /\ r[1] = e
      BY <1>0
    <3> HIDE DEF r
    <3>1. CASE ExpireEvicted(r)
      <4>1. Owes(Dispatcher(e), victim[r]) /\ UNCHANGED <<execState, finMu>>
        BY <3>0, <3>1 DEF ExpireEvicted, DispUnchanged
      <4>2. victim[r] \in SUBSET Execs
        BY <3>0 DEF TypeInv, TypeOK, ControlType
      <4>3. Pays(Dispatcher(e), victim[r])
        BY <3>0, <3>1 DEF Pays
      <4> QED BY <4>1, <4>2, <4>3 DEF DebtMove
    <3>2. CASE ~ExpireEvicted(r)
      BY <2>3, <3>2 DEF r, DebtMove, Books, DispatchRun, CreateRun, DenyRun, ParkRun, MarkDelivered,
         MarkUndelivered, CloseRun, LookupSession, SendLive, QueueOffline, MarkQueuedOffline,
         DispUnchanged
    <3> QED BY <3>1, <3>2
  <2> QED BY <1>1, <2>1, <2>2, <2>3 DEF Dispatch
<1>2. ASSUME NEW e \in Execs, CancelExecution(e)
      PROVE  DebtMove
  BY <1>2 DEF CancelExecution, CancelCheck, CancelList, CancelSignal, CancelRuns,
              CancelUnchanged, DebtMove, Books
<1>3. ASSUME NEW s \in Streams, Serve(s)
      PROVE  DebtMove
  <2> DEFINE h == Handler(s)
  <2>0. UNCHANGED <<execState, finMu>>
    BY <1>3 DEF Serve, ServeDrain, Teardown, Register, DrainRead, DrainTake, DrainStep, DrainMark,
                DrainDone, HandleUp, Unregister, MarkDisconnected, InterruptSelect,
                InterruptUpdate, StreamUnchanged
  <2>1. ASSUME NEW es \in SUBSET Execs, Pays(Handler(s), es), Owes(Handler(s), es)
        PROVE  DebtMove
    BY <2>0, <2>1 DEF DebtMove
  <2>2. ASSUME UNCHANGED fin
        PROVE  DebtMove
    BY <2>0, <2>2 DEF DebtMove, Books
  <2>3. CASE DrainStep(s)
    <3>1. Head(batch[s]) \in Execs
      <4>1. batch[s] \in Seq(Execs) /\ batch[s] # <<>>
        BY <2>3 DEF DrainStep, TypeInv, TypeOK, StreamType
      <4> QED BY <4>1
    <3>2. Pays(Handler(s), {Head(batch[s])})
      BY <2>3 DEF Pays
    <3>3. UNCHANGED fin \/ Owes(Handler(s), {Head(batch[s])})
      BY <2>3 DEF DrainStep
    <3> QED BY <2>1, <2>2, <3>1, <3>2, <3>3
  <2>4. CASE HandleUp(s)
    <3>1. Head(up[s]).e \in Execs
      <4>1. up[s] \in Seq(UpMsgs) /\ up[s] # <<>>
        BY <2>4 DEF HandleUp, TypeInv, TypeOK, NetType
      <4>2. Head(up[s]) \in UpMsgs
        BY <4>1
      <4> QED BY <4>2 DEF UpMsgs
    <3>2. Pays(Handler(s), {Head(up[s]).e})
      BY <2>4 DEF Pays
    <3>3. UNCHANGED fin \/ Owes(Handler(s), {Head(up[s]).e})
      BY <2>4 DEF HandleUp
    <3> QED BY <2>1, <2>2, <3>1, <3>2, <3>3
  <2>5. CASE InterruptUpdate(s)
    <3>1. hit[s] \in SUBSET Execs
      BY DEF TypeInv, TypeOK, StreamType
    <3>2. Pays(Handler(s), hit[s])
      BY <2>5 DEF Pays
    <3> QED BY <2>1, <2>5, <3>1, <3>2 DEF InterruptUpdate
  <2>6. CASE ~DrainStep(s) /\ ~HandleUp(s) /\ ~InterruptUpdate(s)
    BY <1>3, <2>2, <2>6 DEF Serve, ServeDrain, Teardown, Register, DrainRead, DrainTake,
       DrainMark, DrainDone, Unregister, MarkDisconnected, InterruptSelect
  <2> QED BY <2>3, <2>4, <2>5, <2>6
<1>4. ASSUME NEW s \in Streams, Connect(s) \/ Cut(s)
      PROVE  DebtMove
  BY <1>4 DEF Connect, Cut, StreamUnchanged, dbVars, serverVars, DebtMove, Books
<1>5. CASE Sweep
  <2>0. UNCHANGED <<execState, finMu>>
    BY <1>5 DEF Sweep, StrandSelect, StrandUpdate, ExpireSweep, ExpireQueued, SweepUnchanged
  <2>1. CASE StrandUpdate
    <3>1. {r[1] : r \in strand} \in SUBSET Execs
      BY DEF TypeInv, TypeOK, StreamType, Runs
    <3>2. Owes(StrandSweeper, {r[1] : r \in strand})
      BY <2>1 DEF StrandUpdate
    <3>3. Pays(StrandSweeper, {r[1] : r \in strand})
      BY <2>1 DEF Pays
    <3> QED BY <2>0, <3>1, <3>2, <3>3 DEF DebtMove
  <2>2. ASSUME NEW r \in Runs, ExpireQueued(r)
        PROVE  DebtMove
    <3>1. r[1] \in Execs
      BY DEF Runs
    <3>2. Owes(OfflineSweeper, {r[1]})
      BY <2>2 DEF ExpireQueued
    <3>3. Pays(OfflineSweeper, {r[1]})
      BY <2>2 DEF Pays
    <3> QED BY <2>0, <3>1, <3>2, <3>3 DEF DebtMove
  <2>3. CASE StrandSelect \/ ExpireSweep
    BY <2>0, <2>3 DEF StrandSelect, ExpireSweep, DebtMove, Books
  <2> QED BY <1>5, <2>1, <2>2, <2>3 DEF Sweep
<1>6. ASSUME NEW h \in Hosts, AgentNotice(h) \/ EnterLoop(h) \/ Receive(h) \/ AgentCrash(h)
      PROVE  DebtMove
  BY <1>6 DEF AgentNotice, EnterLoop, Receive, AgentCrash, AgentUnchanged, dbVars, serverVars,
              DebtMove, Books
<1>7. ASSUME NEW r \in Runs, RunStep(r) \/ SpoolStep(r)
      PROVE  DebtMove
  BY <1>7 DEF RunStep, Output, Finish, SpoolStep, DrainSpool, DrainCut, SpoolDrop,
              AgentUnchanged, dbVars, serverVars, DebtMove, Books
<1>8. CASE Finalize
  BY <1>8 DEF DebtMove
<1> QED BY <1>1, <1>2, <1>3, <1>4, <1>5, <1>6, <1>7, <1>8 DEF Next

-----------------------------------------------------------------------------
(* The ledger is kept *)

\* A row once made stays, and CreateRun makes it.
LEMMA RowsStay ==
  ASSUME Inv, Next, NEW r \in Runs
  PROVE  /\ runState[r] # "none" => runState'[r] # "none"
         /\ runState[r] = "none" /\ runState'[r] # "none" => CreateRun(r)
         /\ runState[r] \in FinalStates => runState'[r] = runState[r]
<1>1. RowMove(r)
  BY RowMoves DEF Inv
<1>2. RowAdvance(r)
  BY RowSteps DEF Inv
<1>3. runState[r] \in RunStates /\ outcomes[r] \in SUBSET ResultStates
  BY DEF Inv, TypeInv, TypeOK, DbType, AgentType
<1>4. CreateRun(r) => runState[r] = "none" /\ runState'[r] = "queued"
  BY <1>3 DEF CreateRun, Inv, FreshRuns, TypeInv, TypeOK, DbType
<1>5. "none" \notin OpenStates /\ "none" \notin outcomes[r] \cup GiveUpStates
      /\ "none" \notin FinalStates
  BY <1>3 DEF OpenStates, InFlightStates, ResultStates, GiveUpStates, FinalStates
<1>6. "none" \notin Lifecycle!Forward(runState[r])
  BY DEF Lifecycle!Forward
<1>7. runState[r] \in FinalStates => runState[r] \notin OpenStates
  BY DEF OpenStates, InFlightStates, ResultStates, GiveUpStates, FinalStates
<1> QED BY <1>1, <1>2, <1>4, <1>5, <1>6, <1>7 DEF RowMove, RowAdvance, Leads

\* Where Dispatch goes with a run.
LEMMA TurnMoves ==
  ASSUME TypeInv, Next, ~ServerRestart, at' # at
  PROVE  \/ \E e \in Execs : CreateExecution(e) \/ FinishDispatch(e)
         \/ \E r \in Runs, p \in Positions \ {"idle", "todo"} :
              /\ at' = [at EXCEPT ![r] = p]
              /\ at[r] \notin {"idle", "terminal", "open"}
              /\ CreateRun(r) \/ at[r] \notin Waiting
<1>1. PICK e \in Execs : Dispatch(e)
  BY DispMoves DEF dispVars
<1>2. ASSUME NEW h \in Hosts, DispatchRun(<<e, h>>)
      PROVE  \E r \in Runs, p \in Positions \ {"idle", "todo"} :
               /\ at' = [at EXCEPT ![r] = p]
               /\ at[r] \notin {"idle", "terminal", "open"}
               /\ CreateRun(r) \/ at[r] \notin Waiting
  <2> DEFINE r == <<e, h>>
  <2>0. r \in Runs
    BY DEF Runs
  <2> HIDE DEF r
  <2>1. {"terminal", "open", "offline", "live", "sent", "unsent", "evict", "park", "allow",
         "deny", "require_approval"} = Positions \ {"idle", "todo"}
    BY DEF Positions, Waiting
  <2>2. CASE CreateRun(r)
    <3>1. PICK eff \in Effects : at' = [at EXCEPT ![r] = eff]
      BY <2>2 DEF CreateRun
    <3>2. eff \in Positions \ {"idle", "todo"}
      BY <2>1, ConstantsAssumption
    <3> QED BY <2>0, <2>2, <3>1, <3>2 DEF CreateRun
  <2>3. CASE ~CreateRun(r)
    <3>1. at[r] \in {"deny", "require_approval", "sent", "unsent", "allow", "live", "offline",
                     "evict", "park"}
      BY <1>2, <2>3 DEF r, DispatchRun, DenyRun, ParkRun, MarkDelivered, MarkUndelivered, CloseRun,
         LookupSession, SendLive, QueueOffline, ExpireEvicted, MarkQueuedOffline
    <3>2. at[r] \notin Waiting /\ at[r] \notin {"idle", "terminal", "open"}
      BY <3>1 DEF Waiting
    <3>3. \E p \in {"terminal", "open", "offline", "live", "sent", "unsent", "evict", "park"} :
            at' = [at EXCEPT ![r] = p]
      BY <1>2, <2>3 DEF r, DispatchRun, DenyRun, ParkRun, MarkDelivered, MarkUndelivered, CloseRun,
         LookupSession, SendLive, QueueOffline, ExpireEvicted, MarkQueuedOffline
    <3> QED BY <2>0, <2>1, <3>2, <3>3
  <2> QED BY <2>2, <2>3
<1> QED BY <1>1, <1>2 DEF Dispatch

\* Before FinishDispatch there is an open run or none; the rest is idle.
LEMMA TurnStep ==
  ASSUME Inv, TurnOK, Next
  PROVE  TurnOK'
<1> USE DEF TurnOK
<1>0. /\ at \in [Runs -> Positions]
      /\ \A e \in Execs, h \in Hosts : <<e, h>> \in Runs /\ <<e, h>>[1] = e
      /\ {"idle", "todo", "terminal", "open"} = Waiting
  BY DEF Inv, TypeInv, TypeOK, ControlType, Runs, Waiting
<1>1. CASE at' = at
  BY <1>1, RowsStay
<1>2. CASE ServerRestart
  BY <1>0, <1>2 DEF ServerRestart
<1>3. ASSUME NEW x \in Execs, CreateExecution(x)
      PROVE  TurnOK'
  <2>1. \A r \in Runs : at'[r] = at[r] \/ at'[r] = "todo"
    BY <1>3 DEF CreateExecution
  <2>2. \A r \in Runs : runState'[r] = runState[r]
    BY <1>3 DEF CreateExecution
  <2> QED BY <1>0, <2>1, <2>2
<1>4. ASSUME NEW x \in Execs, FinishDispatch(x)
      PROVE  TurnOK'
  <2>1. \A r \in Runs : at'[r] = at[r] \/ at'[r] = "idle"
    BY <1>4 DEF FinishDispatch
  <2>2. \A r \in Runs : runState'[r] = runState[r]
    BY <1>4 DEF FinishDispatch
  <2> QED BY <1>0, <2>1, <2>2
<1>5. ASSUME NEW r \in Runs, NEW p \in Positions \ {"idle", "todo"},
             at' = [at EXCEPT ![r] = p], CreateRun(r) \/ at[r] \notin Waiting
      PROVE  TurnOK'
  <2>0. r[1] \in Execs /\ r[2] \in Hosts /\ r = <<r[1], r[2]>>
    BY DEF Runs
  <2>1. \A q \in Runs : q # r => at'[q] = at[q]
    BY <1>0, <1>5
  <2>2. runState'[r] # "none"
    <3>1. CASE CreateRun(r)
      BY <3>1 DEF CreateRun, Inv, TypeInv, TypeOK, DbType
    <3>2. CASE at[r] \notin Waiting
      BY <1>0, <3>2, RowsStay
    <3> QED BY <1>5, <3>1, <3>2
  <2>3. \A h \in Hosts : at[<<r[1], h>>] \in Waiting \/ h = r[2]
    <3>1. CASE CreateRun(r)
      BY <3>1 DEF CreateRun
    <3>2. CASE at[r] \notin Waiting
      BY <2>0, <3>2
    <3> QED BY <1>5, <3>1, <3>2
  <2>4. \A q \in Runs : at'[q] \notin {"idle", "todo"} => runState'[q] # "none"
    BY <2>1, <2>2, RowsStay
  <2>5. \A e \in Execs, g, h \in Hosts :
          at'[<<e, g>>] \notin Waiting /\ at'[<<e, h>>] \notin Waiting => g = h
    <3> SUFFICES ASSUME NEW e \in Execs, NEW g \in Hosts, NEW h \in Hosts, g # h,
                        at'[<<e, g>>] \notin Waiting, at'[<<e, h>>] \notin Waiting
                 PROVE  FALSE
      OBVIOUS
    <3>1. CASE e # r[1]
      BY <1>0, <2>1, <3>1
    <3>2. CASE e = r[1]
      <4>1. \A k \in Hosts : at'[<<e, k>>] \notin Waiting => k = r[2]
        BY <1>0, <2>1, <2>3, <3>2
      <4> QED BY <4>1
    <3> QED BY <3>1, <3>2
  <2> QED BY <2>4, <2>5
<1> QED BY <1>1, <1>2, <1>3, <1>4, <1>5, TurnMoves DEF Inv

\* A thread that comes to owe something owed nothing.
LEMMA PaysFromZero ==
  ASSUME Inv, Ledger, Next, NEW t \in Threads, NEW es, Pays(t, es)
  PROVE  fin[t] = {}
<1>1. ASSUME NEW e \in Execs, t = Dispatcher(e), FinishDispatch(e)
      PROVE  fin[t] = {}
  <2>1. disp[e] = "loop" /\ \A h \in Hosts : at[<<e, h>>] # "park"
    BY <1>1 DEF FinishDispatch, Waiting
  <2> QED BY <1>1, <2>1 DEF Ledger, DebtsOK
<1>2. ASSUME NEW r \in Runs, t = Dispatcher(r[1]), ExpireEvicted(r)
      PROVE  fin[t] = {}
  <2>1. r[1] \in Execs /\ r[2] \in Hosts /\ r = <<r[1], r[2]>>
    BY DEF Runs
  <2>2. at[r] = "evict" /\ disp[r[1]] = "loop"
    BY <1>2 DEF ExpireEvicted, Inv, FreshRuns
  <2>3. ASSUME NEW h \in Hosts
        PROVE  at[<<r[1], h>>] # "park"
    <3>1. "park" \notin Waiting /\ "evict" \notin Waiting
      BY DEF Waiting
    <3>2. at[<<r[1], h>>] \notin Waiting => h = r[2]
      BY <2>1, <2>2, <3>1 DEF Ledger, TurnOK
    <3> QED BY <2>1, <2>2, <3>1, <3>2
  <2> QED BY <1>2, <2>1, <2>2, <2>3 DEF Ledger, DebtsOK
<1>3. ASSUME NEW s \in Streams, t = Handler(s), DrainStep(s) \/ HandleUp(s) \/ InterruptUpdate(s)
      PROVE  fin[t] = {}
  BY <1>3 DEF DrainStep, HandleUp, InterruptUpdate, Ledger, DebtsOK
<1>4. CASE t = StrandSweeper /\ StrandUpdate
  BY <1>4 DEF StrandUpdate, Ledger, DebtsOK
<1>5. CASE t = OfflineSweeper /\ \E r \in Runs : ExpireQueued(r)
  BY <1>5 DEF ExpireQueued
<1> QED BY <1>1, <1>2, <1>3, <1>4, <1>5 DEF Pays

\* FinalizeExecution holds finMu from its read to its write.
LEMMA MutexStep ==
  ASSUME Inv, Ledger, Next
  PROVE  MutexOK'
<1> USE DEF MutexOK, Ledger
<1>0. fin \in [Threads -> SUBSET Execs] /\ finMu \in SUBSET (Threads \X Execs \X ExecStates)
  BY DEF Inv, TypeInv, TypeOK, ControlType
<1>1. CASE ServerRestart
  BY <1>1 DEF ServerRestart
<1>2. CASE UNCHANGED <<fin, finMu>>
  BY <1>2
<1>3. ASSUME NEW t \in Threads, NEW es \in SUBSET Execs, Pays(t, es), Owes(t, es), UNCHANGED finMu
      PROVE  MutexOK'
  <2>1. \A m \in finMu : m[1] # t
    BY <1>3, PaysFromZero
  <2> QED BY <1>0, <1>3, <2>1 DEF Owes
<1>4. ASSUME NEW t \in Threads, NEW e \in Execs, FinRead(t, e)
      PROVE  MutexOK'
  <2>1. CASE finMu' = {}
    BY <2>1
  <2>2. CASE finMu' = {<<t, e, Aggregate(Rows(e))>>} /\ UNCHANGED fin
    BY <1>4, <2>2 DEF FinRead
  <2> QED BY <1>4, <2>1, <2>2 DEF FinRead
<1>5. CASE FinWrite
  BY <1>5 DEF FinWrite
<1>6. ASSUME NEW e \in Execs, CreateExecution(e) \/ CancelState(e)
      PROVE  MutexOK'
  BY <1>2, <1>6 DEF CreateExecution, DispUnchanged, CancelState, CancelUnchanged
<1>7. DebtMove \/ ServerRestart
  BY DebtMoves DEF Inv
<1> QED BY <1>1, <1>2, <1>3, <1>4, <1>5, <1>6, <1>7 DEF DebtMove, Books, Finalize

\* A thread's debts only grow from nothing, by a step of its own.
LEMMA DebtsGrow ==
  ASSUME Inv, Ledger, Next, NEW t \in Threads, fin[t] = {}, fin'[t] # {}
  PROVE  \E es \in SUBSET Execs : Pays(t, es)
<1>0. fin \in [Threads -> SUBSET Execs] /\ finMu \in SUBSET (Threads \X Execs \X ExecStates)
  BY DEF Inv, TypeInv, TypeOK, ControlType
<1>1. ~ServerRestart
  BY DEF ServerRestart
<1>2. ASSUME NEW u \in Threads, NEW es \in SUBSET Execs, Pays(u, es), Owes(u, es)
      PROVE  Pays(t, es)
  BY <1>0, <1>2 DEF Owes
<1>3. ASSUME NEW u \in Threads, NEW e \in Execs, FinRead(u, e)
      PROVE  fin'[t] \subseteq fin[t]
  BY <1>0, <1>3 DEF FinRead
<1>4. CASE FinWrite
  BY <1>0, <1>4 DEF FinWrite
<1>5. ASSUME NEW e \in Execs, CreateExecution(e) \/ CancelState(e)
      PROVE  UNCHANGED fin
  BY <1>5 DEF CreateExecution, CancelState, CancelUnchanged
<1> QED BY <1>1, <1>2, <1>3, <1>4, <1>5, DebtMoves DEF Inv, DebtMove, Books, Finalize

\* A stream handler whose pc moves.
LEMMA TeardownMoves ==
  ASSUME Inv, Next, NEW s \in Streams, ~ServerRestart, srv'[s] # srv[s]
  PROVE  Connect(s) \/ Serve(s)
<1>0. srv \in [Streams -> SrvPCs]
  BY DEF Inv, TypeInv, TypeOK, StreamType
<1>1. ASSUME NEW e \in Execs, Dispatch(e) \/ CancelExecution(e)
      PROVE  UNCHANGED srv
  BY <1>1 DEF Dispatch, CreateExecution, FinishDispatch, DispatchRun, CreateRun, DenyRun, ParkRun,
       MarkDelivered, MarkUndelivered, CloseRun, LookupSession, SendLive, QueueOffline,
       ExpireEvicted, MarkQueuedOffline, DispUnchanged, CancelExecution, CancelCheck, CancelList,
       CancelSignal, CancelRuns, CancelState, CancelUnchanged, srvVars
<1>2. ASSUME NEW t \in Streams, t # s, Connect(t) \/ Serve(t)
      PROVE  srv'[s] = srv[s]
  BY <1>0, <1>2 DEF Connect, Serve, ServeDrain, Teardown, Register, DrainRead, DrainTake, DrainStep,
       DrainMark, DrainDone, HandleUp, Unregister, MarkDisconnected, InterruptSelect,
       InterruptUpdate, Goto, srvVars
<1>3. ASSUME NEW t \in Streams, Cut(t)
      PROVE  UNCHANGED srv
  BY <1>3 DEF Cut, serverVars, srvVars
<1>4. CASE Finalize \/ Sweep
  BY <1>4 DEF Finalize, FinRead, FinWrite, Sweep, StrandSelect, StrandUpdate, ExpireSweep,
       ExpireQueued, SweepUnchanged, srvVars
<1>5. ASSUME NEW h \in Hosts, AgentNotice(h) \/ EnterLoop(h) \/ Receive(h) \/ AgentCrash(h)
      PROVE  UNCHANGED srv
  BY <1>5 DEF AgentNotice, EnterLoop, Receive, AgentCrash, AgentUnchanged, serverVars, srvVars
<1>6. ASSUME NEW r \in Runs, RunStep(r) \/ SpoolStep(r)
      PROVE  UNCHANGED srv
  BY <1>6 DEF RunStep, Output, Finish, SpoolStep, DrainSpool, DrainCut, SpoolDrop, AgentUnchanged,
       serverVars, srvVars
<1> QED BY <1>1, <1>2, <1>3, <1>4, <1>5, <1>6 DEF Next

\* In its teardown a handler owes nothing before InterruptUpdate.
LEMMA HandlerStep ==
  ASSUME Inv, Ledger, Next, ~ServerRestart, NEW s \in Streams,
         srv'[s] \in {"offline", "select", "interrupt"}
  PROVE  fin'[Handler(s)] = {}
<1>0. srv \in [Streams -> SrvPCs] /\ fin \in [Threads -> SUBSET Execs] /\ Handler(s) \in Threads
  BY ThreadNames DEF Inv, TypeInv, TypeOK, StreamType, ControlType
<1>1. fin[Handler(s)] = {}
  <2>1. CASE srv'[s] = srv[s]
    BY <2>1 DEF Ledger, DebtsOK
  <2>2. CASE srv'[s] # srv[s] /\ ~Unregister(s)
    <3>1. srv[s] \in {"offline", "select", "interrupt"}
      BY <1>0, <2>2, TeardownMoves DEF Connect, Serve, ServeDrain, Teardown, Register, DrainRead,
         DrainTake, DrainStep, DrainMark, DrainDone, HandleUp, MarkDisconnected, InterruptSelect,
         InterruptUpdate, Goto, srvVars
    <3> QED BY <3>1 DEF Ledger, DebtsOK
  <2>3. CASE Unregister(s)
    BY <2>3 DEF Unregister
  <2> QED BY <2>1, <2>2, <2>3
<1>2. SUFFICES ASSUME fin'[Handler(s)] # {}
               PROVE  FALSE
  OBVIOUS
<1>3. PICK es \in SUBSET Execs : Pays(Handler(s), es)
  BY <1>0, <1>1, <1>2, DebtsGrow
<1>4. ASSUME DrainStep(s) \/ HandleUp(s) \/ InterruptUpdate(s)
      PROVE  FALSE
  BY <1>0, <1>4 DEF DrainStep, HandleUp, InterruptUpdate, Goto, srvVars
<1>5. \A r \in Runs : r[1] \in Execs
  BY DEF Runs
<1> QED BY <1>3, <1>4, <1>5, ThreadsDiffer DEF Pays

\* The sweeper owes nothing while it has rows selected.
LEMMA StrandStep ==
  ASSUME Inv, Ledger, Next, ~ServerRestart, strand' # {}
  PROVE  fin'[StrandSweeper] = {}
<1>1. ASSUME NEW e \in Execs, Dispatch(e) \/ CancelExecution(e)
      PROVE  UNCHANGED strand
  BY <1>1 DEF Dispatch, CreateExecution, FinishDispatch, DispatchRun, CreateRun, DenyRun, ParkRun,
       MarkDelivered, MarkUndelivered, CloseRun, LookupSession, SendLive, QueueOffline,
       ExpireEvicted, MarkQueuedOffline, DispUnchanged, CancelExecution, CancelCheck, CancelList,
       CancelSignal, CancelRuns, CancelState, CancelUnchanged
<1>2. ASSUME NEW s \in Streams, Connect(s) \/ Serve(s) \/ Cut(s)
      PROVE  UNCHANGED strand
  BY <1>2 DEF Connect, Serve, ServeDrain, Teardown, Register, DrainRead, DrainTake, DrainStep,
       DrainMark, DrainDone, HandleUp, Unregister, MarkDisconnected, InterruptSelect,
       InterruptUpdate, StreamUnchanged, Cut, serverVars
<1>3. ASSUME Finalize \/ (Sweep /\ ~StrandSelect)
      PROVE  UNCHANGED strand
  <2>1. UNCHANGED strand \/ strand' = {}
    BY <1>3 DEF Finalize, FinRead, FinWrite, Sweep, StrandUpdate, ExpireSweep, ExpireQueued,
                SweepUnchanged
  <2> QED BY <2>1
<1>4. ASSUME NEW h \in Hosts, AgentNotice(h) \/ EnterLoop(h) \/ Receive(h) \/ AgentCrash(h)
      PROVE  UNCHANGED strand
  BY <1>4 DEF AgentNotice, EnterLoop, Receive, AgentCrash, AgentUnchanged, serverVars
<1>5. ASSUME NEW r \in Runs, RunStep(r) \/ SpoolStep(r)
      PROVE  UNCHANGED strand
  BY <1>5 DEF RunStep, Output, Finish, SpoolStep, DrainSpool, DrainCut, SpoolDrop, AgentUnchanged,
       serverVars
<1>6. StrandSelect \/ UNCHANGED strand
  BY <1>1, <1>2, <1>3, <1>4, <1>5 DEF Next
<1>7. fin[StrandSweeper] = {}
  BY <1>6 DEF StrandSelect, Ledger, DebtsOK
<1>8. SUFFICES ASSUME fin'[StrandSweeper] # {}
               PROVE  FALSE
  OBVIOUS
<1>9. PICK es \in SUBSET Execs : Pays(StrandSweeper, es)
  BY <1>7, <1>8, DebtsGrow, ThreadNames
<1>10. ~StrandUpdate
  BY DEF StrandUpdate
<1>11. \A r \in Runs : r[1] \in Execs
  BY DEF Runs
<1> QED BY <1>9, <1>10, <1>11, ThreadsDiffer DEF Pays

\* The dispatcher owes for an eviction until it parks its run, or at its end.
LEMMA DispatcherStep ==
  ASSUME Inv, Ledger, Next, ~ServerRestart, NEW e \in Execs, fin'[Dispatcher(e)] # {}
  PROVE  disp'[e] = "done" \/ \E h \in Hosts : at'[<<e, h>>] = "park"
<1>0. /\ at \in [Runs -> Positions] /\ disp \in [Execs -> {"idle", "loop", "done"}]
      /\ \A x \in Execs, h \in Hosts : <<x, h>> \in Runs /\ <<x, h>>[1] = x
      /\ \A r \in Runs : r[1] \in Execs /\ r[2] \in Hosts /\ r = <<r[1], r[2]>>
      /\ Dispatcher(e) \in Threads
      /\ "park" \notin Waiting
  BY ThreadNames DEF Inv, TypeInv, TypeOK, ControlType, Runs, Waiting
<1>1. CASE fin[Dispatcher(e)] = {}
  <2>1. PICK es \in SUBSET Execs : Pays(Dispatcher(e), es)
    BY <1>0, <1>1, DebtsGrow
  <2>2. FinishDispatch(e) \/ \E r \in Runs : r[1] = e /\ ExpireEvicted(r)
    BY <1>0, <2>1, ThreadsDiffer DEF Pays
  <2>3. FinishDispatch(e) => disp'[e] = "done"
    BY <1>0 DEF FinishDispatch
  <2>4. ASSUME NEW r \in Runs, r[1] = e, ExpireEvicted(r)
        PROVE  \E h \in Hosts : at'[<<e, h>>] = "park"
    <3>1. at'[r] = "park" /\ r = <<e, r[2]>> /\ r[2] \in Hosts
      BY <1>0, <2>4 DEF ExpireEvicted
    <3> QED BY <1>0, <2>4, <3>1
  <2> QED BY <2>2, <2>3, <2>4
<1>2. CASE fin[Dispatcher(e)] # {}
  <2>1. disp[e] = "done" \/ \E h \in Hosts : at[<<e, h>>] = "park"
    BY <1>2 DEF Ledger, DebtsOK
  <2>2. ASSUME NEW x \in Execs, Dispatch(x)
        PROVE  disp'[e] = "done" \/ \E h \in Hosts : at'[<<e, h>>] = "park"
    <3>1. CASE CreateExecution(x)
      <4>1. \A r \in Runs : at'[r] = at[r] \/ (r[1] = x /\ disp[x] = "idle")
        BY <3>1 DEF CreateExecution
      <4>2. \A h \in Hosts : at[<<e, h>>] = "park" => disp[e] = "loop"
        BY <1>0 DEF Inv, FreshRuns
      <4>3. disp[e] = "done" => disp'[e] = "done"
        BY <1>0, <3>1 DEF CreateExecution
      <4>4. \A h \in Hosts : at[<<e, h>>] = "park" => at'[<<e, h>>] = "park"
        <5> SUFFICES ASSUME NEW h \in Hosts, at[<<e, h>>] = "park"
                     PROVE  at'[<<e, h>>] = "park"
          OBVIOUS
        <5>1. disp[e] = "loop" /\ <<e, h>> \in Runs /\ <<e, h>>[1] = e
          BY <1>0, <4>2
        <5> QED BY <4>1, <5>1
      <4> QED BY <2>1, <4>3, <4>4
    <3>2. CASE FinishDispatch(x)
      <4>1. disp[e] = "done" => disp'[e] = "done"
        BY <1>0, <3>2 DEF FinishDispatch
      <4>2. \A h \in Hosts : at[<<e, h>>] = "park" => x # e /\ at'[<<e, h>>] = "park"
        BY <1>0, <3>2 DEF FinishDispatch
      <4> QED BY <2>1, <4>1, <4>2
    <3>3. ASSUME NEW h \in Hosts, DispatchRun(<<x, h>>)
          PROVE  disp'[e] = "done" \/ \E g \in Hosts : at'[<<e, g>>] = "park"
      <4> DEFINE r == <<x, h>>
      <4>0. r \in Runs /\ r[1] = x
        BY <1>0
      <4> HIDE DEF r
      <4>1. UNCHANGED disp
        BY <3>3 DEF r, DispatchRun, CreateRun, DenyRun, ParkRun, MarkDelivered, MarkUndelivered,
           CloseRun, LookupSession, SendLive, QueueOffline, ExpireEvicted, MarkQueuedOffline
      <4>2. \A q \in Runs : q # r => at'[q] = at[q]
        <5>1. \E p : at' = [at EXCEPT ![r] = p]
          BY <3>3 DEF r, DispatchRun, CreateRun, DenyRun, ParkRun, MarkDelivered, MarkUndelivered,
             CloseRun, LookupSession, SendLive, QueueOffline, ExpireEvicted, MarkQueuedOffline
        <5> QED BY <1>0, <5>1
      <4>3. at[r] = "park" => MarkQueuedOffline(r)
        BY <3>3 DEF r, DispatchRun, CreateRun, DenyRun, ParkRun, MarkDelivered, MarkUndelivered,
           CloseRun, LookupSession, SendLive, QueueOffline, ExpireEvicted
      <4>4. at[r] = "park" => x # e
        BY <1>2, <4>0, <4>3 DEF MarkQueuedOffline
      <4>5. \A g \in Hosts : at[<<e, g>>] = "park" => at'[<<e, g>>] = "park"
        <5> SUFFICES ASSUME NEW g \in Hosts, at[<<e, g>>] = "park"
                     PROVE  at'[<<e, g>>] = "park"
          OBVIOUS
        <5>1. <<e, g>> # r
          BY <1>0, <4>0, <4>4
        <5> QED BY <1>0, <4>2, <5>1
      <4> QED BY <2>1, <4>1, <4>5
    <3> QED BY <2>2, <3>1, <3>2, <3>3 DEF Dispatch
  <2>3. CASE ~ \E x \in Execs : Dispatch(x)
    BY <2>1, <2>3, DispMoves DEF dispVars
  <2> QED BY <2>2, <2>3
<1> QED BY <1>1, <1>2

\* Every step keeps the ledger.
LEMMA LedgerStep ==
  ASSUME Inv, Ledger, Next
  PROVE  Ledger'
<1>1. DebtsOK'
  <2>1. CASE ServerRestart
    <3>1. \A t \in Threads : fin'[t] = {}
      BY <2>1 DEF ServerRestart
    <3> QED BY <3>1, ThreadNames DEF DebtsOK
  <2>2. CASE ~ServerRestart
    BY <2>2, HandlerStep, StrandStep, DispatcherStep DEF DebtsOK
  <2> QED BY <2>1, <2>2
<1> QED BY <1>1, MutexStep, TurnStep DEF Ledger

-----------------------------------------------------------------------------
(* A row that becomes final is owed a finalization *)

\* A guarded UPDATE changes its own row only, and to the value it sets.
LEMMA SetRunIs ==
  ASSUME Inv, NEW q, NEW new, SetRun(q, new), NEW r \in Runs, runState'[r] # runState[r]
  PROVE  r = q /\ runState'[r] = new
  BY DEF SetRun, UpdateRunState, Inv, TypeInv, TypeOK, DbType

\* The thread that settles the row of an execution nobody cancels owes it a
\* finalization from the same step on, or is the dispatcher, which closes the run.
LEMMA FinalIsOwed ==
  ASSUME Inv, Next, ~ServerRestart, NEW r \in Runs, cancel[r[1]] = "idle",
         runState[r] \notin FinalStates, runState'[r] \in FinalStates
  PROVE  \/ at'[r] = "terminal"
         \/ \E t \in Threads, es \in SUBSET Execs :
              Pays(t, es) /\ Owes(t, es) /\ r[1] \in es /\ UNCHANGED finMu
<1> DEFINE Goal == \/ at'[r] = "terminal"
                   \/ \E t \in Threads, es \in SUBSET Execs :
                        Pays(t, es) /\ Owes(t, es) /\ r[1] \in es /\ UNCHANGED finMu
<1> SUFFICES Goal
  OBVIOUS
<1>0. /\ runState \in [Runs -> RunStates] /\ at \in [Runs -> Positions]
      /\ r[1] \in Execs /\ r[2] \in Hosts /\ r = <<r[1], r[2]>>
      /\ \A e \in Execs, h \in Hosts : <<e, h>> \in Runs /\ <<e, h>>[1] = e /\ <<e, h>>[2] = h
      /\ runState'[r] # runState[r]
  BY DEF Inv, TypeInv, TypeOK, DbType, ControlType, Runs
<1>F. /\ {"queued", "delivered", "awaiting_approval", "queued_offline", "running",
          "interrupted"} \cap FinalStates = {}
      /\ "expired" \in FinalStates
  BY DEF FinalStates, ResultStates, GiveUpStates
<1>P. ASSUME NEW t \in Threads, NEW es \in SUBSET Execs, Pays(t, es), Owes(t, es), r[1] \in es,
             UNCHANGED finMu
      PROVE  Goal
  BY <1>P
<1> HIDE DEF Goal
<1>1. ASSUME NEW e \in Execs, Dispatch(e)
      PROVE  Goal
  <2>1. ASSUME NEW h \in Hosts, DispatchRun(<<e, h>>)
        PROVE  Goal
    <3> DEFINE q == <<e, h>>
    <3>0. q \in Runs /\ q[1] = e
      BY <1>0
    <3> HIDE DEF q
    <3>1. CASE CreateRun(q)
      BY <1>0, <1>F, <3>1 DEF CreateRun
    <3>2. CASE DenyRun(q) \/ MarkUndelivered(q)
      <4>1. \E new : SetRun(q, new) /\ at' = [at EXCEPT ![q] = "terminal"]
        BY <3>2 DEF DenyRun, MarkUndelivered, CloseRun
      <4>2. r = q
        BY <1>0, <4>1, SetRunIs
      <4> QED BY <1>0, <4>1, <4>2 DEF Goal
    <3>3. CASE ParkRun(q) \/ MarkDelivered(q)
      <4>1. SetRun(q, "awaiting_approval") \/ SetRun(q, "delivered")
        BY <3>3 DEF ParkRun, MarkDelivered, CloseRun
      <4> QED BY <1>0, <1>F, <4>1, SetRunIs
    <3>4. CASE LookupSession(q) \/ SendLive(q) \/ QueueOffline(q)
      BY <1>0, <3>4 DEF LookupSession, SendLive, QueueOffline
    <3>5. CASE MarkQueuedOffline(q)
      <4>1. runState'[r] = runState[r] \/ runState'[r] = "queued_offline"
        BY <1>0, <3>5 DEF MarkQueuedOffline, MarkQueuedOfflineIfQueued
      <4> QED BY <1>0, <1>F, <4>1
    <3>6. CASE ExpireEvicted(q)
      <4>1. PICK v \in victim[q] : SetRun(<<v, q[2]>>, "expired")
        BY <3>6 DEF ExpireEvicted
      <4>2. r[1] = v
        BY <1>0, <4>1, SetRunIs
      <4>3. Owes(Dispatcher(e), victim[q]) /\ UNCHANGED finMu /\ victim[q] \in SUBSET Execs
        BY <3>0, <3>6 DEF ExpireEvicted, DispUnchanged, Inv, TypeInv, TypeOK, ControlType
      <4>4. Pays(Dispatcher(e), victim[q])
        BY <3>0, <3>6 DEF Pays
      <4> QED BY <1>P, <4>1, <4>2, <4>3, <4>4, ThreadNames
    <3> QED BY <2>1, <3>1, <3>2, <3>3, <3>4, <3>5, <3>6 DEF DispatchRun, q
  <2>2. CASE CreateExecution(e) \/ FinishDispatch(e)
    BY <1>0, <2>2 DEF CreateExecution, FinishDispatch
  <2> QED BY <1>1, <2>1, <2>2 DEF Dispatch
<1>2. ASSUME NEW e \in Execs, CancelExecution(e)
      PROVE  Goal
  <2>1. CASE CancelRuns(e)
    BY <1>0, <2>1 DEF CancelRuns
  <2>2. CASE ~CancelRuns(e)
    BY <1>0, <1>2, <2>2 DEF CancelExecution, CancelCheck, CancelList, CancelSignal, CancelState
  <2> QED BY <2>1, <2>2
<1>3. ASSUME NEW s \in Streams, Serve(s)
      PROVE  Goal
  <2>0. UNCHANGED finMu /\ s[1] \in Hosts
    BY <1>3 DEF Streams, Serve, ServeDrain, Teardown, Register, DrainRead, DrainTake, DrainStep,
       DrainMark, DrainDone, HandleUp, Unregister, MarkDisconnected, InterruptSelect,
       InterruptUpdate, StreamUnchanged
  <2>1. CASE DrainStep(s)
    <3>1. SetRun(<<Head(batch[s]), s[1]>>, "expired") /\ Owes(Handler(s), {Head(batch[s])})
      BY <1>0, <2>1 DEF DrainStep
    <3>2. r[1] = Head(batch[s])
      BY <1>0, <3>1, SetRunIs
    <3>3. Pays(Handler(s), {r[1]}) /\ Owes(Handler(s), {r[1]})
      BY <2>1, <3>1, <3>2 DEF Pays
    <3> QED BY <1>0, <1>P, <2>0, <3>3, ThreadNames
  <2>2. CASE HandleUp(s)
    <3> DEFINE m == Head(up[s])
    <3>1. CASE m.is = "output"
      <4>1. runState' = [runState EXCEPT ![<<m.e, s[1]>>] = PromoteRunToRunning(@)]
        BY <2>2, <3>1 DEF HandleUp
      <4>2. runState'[r] = "running"
        BY <1>0, <4>1 DEF PromoteRunToRunning
      <4> QED BY <1>F, <4>2
    <3>2. CASE m.is # "output"
      <4>1. SetRun(<<m.e, s[1]>>, m.is) /\ Owes(Handler(s), {m.e})
        BY <2>2, <3>2 DEF HandleUp
      <4>2. r[1] = m.e
        BY <1>0, <4>1, SetRunIs
      <4>3. Pays(Handler(s), {r[1]}) /\ Owes(Handler(s), {r[1]})
        BY <2>2, <4>1, <4>2 DEF Pays
      <4> QED BY <1>0, <1>P, <2>0, <4>3, ThreadNames
    <3> QED BY <3>1, <3>2
  <2>3. CASE InterruptUpdate(s)
    <3>1. runState'[r] = runState[r] \/ runState'[r] = "interrupted"
      BY <2>3 DEF InterruptUpdate, InterruptRun
    <3> QED BY <1>0, <1>F, <3>1
  <2>4. CASE DrainMark(s)
    BY <1>0, <1>F, <2>4, SetRunIs DEF DrainMark
  <2>5. CASE ~DrainStep(s) /\ ~HandleUp(s) /\ ~InterruptUpdate(s) /\ ~DrainMark(s)
    BY <1>0, <1>3, <2>5 DEF Serve, ServeDrain, Teardown, Register, DrainRead, DrainTake, DrainDone,
       Unregister, MarkDisconnected, InterruptSelect
  <2> QED BY <2>1, <2>2, <2>3, <2>4, <2>5
<1>4. CASE Sweep
  <2>0. UNCHANGED finMu
    BY <1>4 DEF Sweep, StrandSelect, StrandUpdate, ExpireSweep, ExpireQueued, SweepUnchanged
  <2>1. CASE StrandUpdate
    <3> DEFINE es == {q[1] : q \in strand}
    <3>1. r \in strand /\ es \in SUBSET Execs
      BY <1>0, <2>1 DEF StrandUpdate, Inv, TypeInv, TypeOK, StreamType, Runs
    <3>2. Owes(StrandSweeper, es) /\ Pays(StrandSweeper, es)
      BY <2>1 DEF StrandUpdate, Pays
    <3> QED BY <1>P, <2>0, <3>1, <3>2, ThreadNames
  <2>2. ASSUME NEW q \in Runs, ExpireQueued(q)
        PROVE  Goal
    <3>1. SetRun(q, "expired") /\ Owes(OfflineSweeper, {q[1]})
      BY <2>2 DEF ExpireQueued
    <3>2. r = q
      BY <1>0, <3>1, SetRunIs
    <3>3. Pays(OfflineSweeper, {q[1]})
      BY <2>2 DEF Pays
    <3> QED BY <1>0, <1>P, <2>0, <3>1, <3>2, <3>3, ThreadNames
  <2>3. CASE StrandSelect \/ ExpireSweep
    BY <1>0, <2>3 DEF StrandSelect, ExpireSweep
  <2> QED BY <1>4, <2>1, <2>2, <2>3 DEF Sweep
<1>5. ~UNCHANGED runState
  BY <1>0
<1>6. ASSUME Finalize \/ (\E s \in Streams : Connect(s) \/ Cut(s))
      PROVE  UNCHANGED runState
  BY <1>6 DEF Finalize, FinRead, FinWrite, Connect, Cut, dbVars
<1>7. ASSUME NEW h \in Hosts, AgentNotice(h) \/ EnterLoop(h) \/ Receive(h) \/ AgentCrash(h)
      PROVE  UNCHANGED runState
  BY <1>7 DEF AgentNotice, EnterLoop, Receive, AgentCrash, AgentUnchanged, dbVars
<1>8. ASSUME NEW q \in Runs, RunStep(q) \/ SpoolStep(q)
      PROVE  UNCHANGED runState
  BY <1>8 DEF RunStep, Output, Finish, SpoolStep, DrainSpool, DrainCut, SpoolDrop,
              AgentUnchanged, dbVars
<1> QED BY <1>1, <1>2, <1>3, <1>4, <1>5, <1>6, <1>7, <1>8 DEF Next

-----------------------------------------------------------------------------
(* A lone run's execution stays owed or settled *)

\* An execution does not come to have a lone run after it had two.
LEMMA LoneBefore ==
  ASSUME Inv, Ledger, Next, ~ServerRestart, NEW r \in Runs, Lone(r)'
  PROVE  Lone(r)
<1> SUFFICES ASSUME NEW q \in Runs, q[1] = r[1], q # r
             PROVE  runState[q] = "none" /\ at[q] = "idle"
  BY DEF Lone
<1>0. at \in [Runs -> Positions] /\ Waiting = {"idle", "todo", "terminal", "open"}
  BY DEF Inv, TypeInv, TypeOK, ControlType, Waiting
<1>1. runState'[q] = "none" /\ at'[q] = "idle"
  BY DEF Lone
<1>2. runState[q] = "none"
  BY <1>1, RowsStay
<1>3. at[q] \in {"idle", "todo"}
  BY <1>2 DEF Ledger, TurnOK
<1>4. ASSUME NEW e \in Execs, CreateExecution(e)
      PROVE  at[q] = "idle"
  BY <1>1, <1>4 DEF CreateExecution
<1>5. ASSUME NEW e \in Execs, FinishDispatch(e)
      PROVE  at[q] = "idle"
  <2>1. q[1] \in Execs /\ q[2] \in Hosts /\ q = <<q[1], q[2]>>
    BY DEF Runs
  <2>2. q[1] = e => at[q] # "todo"
    BY <1>5, <2>1 DEF FinishDispatch
  <2>3. q[1] # e => at[q] = "idle"
    BY <1>1, <1>5 DEF FinishDispatch
  <2> QED BY <1>3, <2>2, <2>3
<1>6. ASSUME NEW x \in Runs, NEW p \in Positions \ {"idle", "todo"}, at' = [at EXCEPT ![x] = p]
      PROVE  at[q] = "idle"
  BY <1>0, <1>1, <1>6
<1> QED BY <1>1, <1>2, <1>4, <1>5, <1>6, TurnMoves DEF Inv

\* The rows FinalizeExecution lists for a lone run.
LEMMA LoneRows ==
  ASSUME Inv, NEW r \in Runs, Lone(r), runState[r] # "none"
  PROVE  Rows(r[1]) = {runState[r]}
<1>1. r[1] \in Execs /\ r[2] \in Hosts /\ r = <<r[1], r[2]>>
  BY DEF Runs
<1>2. \A h \in Hosts : h # r[2] => runState[<<r[1], h>>] = "none"
  <2> SUFFICES ASSUME NEW h \in Hosts, h # r[2]
               PROVE  runState[<<r[1], h>>] = "none"
    OBVIOUS
  <2>1. <<r[1], h>> \in Runs /\ <<r[1], h>>[1] = r[1] /\ <<r[1], h>> # r
    BY <1>1 DEF Runs
  <2> QED BY <2>1 DEF Lone
<1> QED BY <1>1, <1>2 DEF Rows

\* A thread that owes it new debts does not disturb what was owed or settled.
LEMMA DebtKeeps ==
  ASSUME Inv, NEW r \in Runs, NEW t \in Threads, NEW es, Owes(t, es), fin[t] = {},
         UNCHANGED <<execState, finMu>>, runState'[r] = runState[r], Settled(r) \/ Owed(r)
  PROVE  (Settled(r) \/ Owed(r))'
<1>1. fin \in [Threads -> SUBSET Execs]
  BY DEF Inv, TypeInv, TypeOK, ControlType
<1>2. Due(r)' = Due(r)
  BY DEF Due
<1>3. CASE Settled(r)
  BY <1>2, <1>3 DEF Settled
<1>4. CASE Owed(r)
  <2>1. PICK u \in Threads : /\ r[1] \in fin[u]
                             /\ \A m \in finMu : m[1] = u /\ m[2] = r[1] => m[3] = Due(r)
    BY <1>4 DEF Owed
  <2>2. u # t
    BY <2>1
  <2>3. fin'[u] = fin[u]
    BY <1>1, <2>2 DEF Owes
  <2> QED BY <1>2, <2>1, <2>3 DEF Owed
<1> QED BY <1>3, <1>4

\* FinalizeExecution on a lone run: the read sees its row, and the write either
\* records what is due or leaves somebody else's debt.
LEMMA FinalizeKeeps ==
  ASSUME Inv, Ledger, Finalize, NEW r \in Runs, Lone(r), runState[r] \in FinalStates \ {"cancelled"},
         Settled(r) \/ Owed(r)
  PROVE  (Settled(r) \/ Owed(r))'
<1>0. /\ fin \in [Threads -> SUBSET Execs] /\ execState \in [Execs -> ExecStates]
      /\ finMu \in SUBSET (Threads \X Execs \X ExecStates)
      /\ r[1] \in Execs
  BY DEF Inv, TypeInv, TypeOK, ControlType, DbType, Runs
<1>1. Due(r)' = Due(r)
  BY DEF Due, Finalize, FinRead, FinWrite, dbVars
<1>2. Rows(r[1]) = {runState[r]}
  <2>1. runState[r] # "none"
    BY DEF FinalStates, ResultStates, GiveUpStates
  <2> QED BY <2>1, LoneRows
<1>3. ASSUME NEW t \in Threads, NEW e \in Execs, FinRead(t, e)
      PROVE  (Settled(r) \/ Owed(r))'
  <2>0. UNCHANGED execState
    BY <1>3 DEF FinRead, dbVars
  <2>1. CASE UNCHANGED finMu
    <3>1. fin' = [fin EXCEPT ![t] = @ \ {e}] /\ e # r[1]
      <4>1. "cancelled" \in Rows(e)
        BY <1>3, <2>1 DEF FinRead
      <4> QED BY <1>2, <1>3, <4>1 DEF FinRead
    <3>2. \A u \in Threads : r[1] \in fin[u] => r[1] \in fin'[u]
      BY <1>0, <3>1
    <3> QED BY <1>1, <2>0, <2>1, <3>2 DEF Settled, Owed
  <2>2. CASE ~UNCHANGED finMu
    <3>1. finMu' = {<<t, e, Aggregate(Rows(e))>>} /\ UNCHANGED fin
      BY <1>3, <2>2 DEF FinRead
    <3>2. \A m \in finMu' : m[2] = r[1] => m[3] = Due(r)
      BY <1>2, <3>1 DEF Due
    <3> QED BY <1>1, <2>0, <3>1, <3>2 DEF Settled, Owed
  <2> QED BY <2>1, <2>2
<1>4. CASE FinWrite
  <2>1. PICK m \in finMu : /\ execState' = [execState EXCEPT ![m[2]] = m[3]]
                           /\ fin' = [fin EXCEPT ![m[1]] = @ \ {m[2]}]
    BY <1>4 DEF FinWrite
  <2>2. finMu' = {} /\ m[1] \in Threads /\ m[2] \in Execs
    BY <1>0, <1>4 DEF FinWrite
  <2>3. CASE m[2] = r[1] /\ m[3] = Due(r)
    BY <1>0, <1>1, <2>1, <2>2, <2>3 DEF Settled
  <2>4. CASE m[2] = r[1] /\ m[3] # Due(r)
    <3>1. PICK u \in Threads : /\ r[1] \in fin[u]
                               /\ \A n \in finMu : n[1] = u /\ n[2] = r[1] => n[3] = Due(r)
      BY <2>4 DEF Settled, Owed
    <3>2. u # m[1]
      BY <2>4, <3>1
    <3>3. fin'[u] = fin[u]
      BY <1>0, <2>1, <3>2
    <3> QED BY <2>2, <3>1, <3>3 DEF Owed
  <2>5. CASE m[2] # r[1]
    <3>1. execState'[r[1]] = execState[r[1]]
      BY <1>0, <2>1, <2>5
    <3>2. \A u \in Threads : r[1] \in fin[u] => r[1] \in fin'[u]
      BY <1>0, <2>1, <2>5
    <3> QED BY <1>1, <2>2, <3>1, <3>2 DEF Settled, Owed
  <2> QED BY <2>3, <2>4, <2>5
<1> QED BY <1>3, <1>4 DEF Finalize

\* A closed run stays closed until Dispatch is through and owes the execution.
LEMMA ClosingKeeps ==
  ASSUME Inv, Ledger, Next, ~ServerRestart, NEW r \in Runs, Lone(r), at[r] = "terminal"
  PROVE  at'[r] = "terminal" \/ Owed(r)'
<1>0. /\ at \in [Runs -> Positions] /\ fin \in [Threads -> SUBSET Execs]
      /\ r[1] \in Execs /\ r[2] \in Hosts /\ r = <<r[1], r[2]>>
      /\ \A h \in Hosts : <<r[1], h>> \in Runs /\ <<r[1], h>>[1] = r[1] /\ <<r[1], h>>[2] = h
  BY DEF Inv, TypeInv, TypeOK, ControlType, Runs
<1>1. ASSUME NEW e \in Execs, CreateExecution(e)
      PROVE  at'[r] = "terminal"
  <2>1. disp[e] = "idle" /\ disp[r[1]] = "loop"
    BY <1>1 DEF CreateExecution, Inv, FreshRuns
  <2> QED BY <1>1, <2>1 DEF CreateExecution
<1>2. ASSUME NEW e \in Execs, FinishDispatch(e)
      PROVE  at'[r] = "terminal" \/ Owed(r)'
  <2>1. CASE e # r[1]
    BY <1>2, <2>1 DEF FinishDispatch
  <2>2. CASE e = r[1]
    <3>1. \A h \in Hosts : at[<<e, h>>] # "open"
      <4> SUFFICES ASSUME NEW h \in Hosts
                   PROVE  at[<<e, h>>] # "open"
        OBVIOUS
      <4>1. h = r[2] \/ at[<<e, h>>] = "idle"
        BY <1>0, <2>2 DEF Lone
      <4> QED BY <1>0, <2>2, <4>1
    <3>2. Owes(Dispatcher(e), {e})
      BY <1>2, <3>1 DEF FinishDispatch
    <3>3. UNCHANGED finMu
      BY <1>2 DEF FinishDispatch, DispUnchanged
    <3>4. Dispatcher(e) \in Threads
      BY ThreadNames
    <3>5. fin[Dispatcher(e)] = {}
      <4>1. Pays(Dispatcher(e), {e})
        BY <1>2 DEF Pays
      <4> QED BY <3>4, <4>1, PaysFromZero
    <3>6. r[1] \in fin'[Dispatcher(e)]
      BY <1>0, <2>2, <3>2, <3>4 DEF Owes
    <3>7. \A m \in finMu : m[1] # Dispatcher(e)
      BY <3>5 DEF Ledger, MutexOK
    <3> QED BY <3>3, <3>4, <3>6, <3>7 DEF Owed
  <2> QED BY <2>1, <2>2
<1>3. ASSUME NEW x \in Runs, NEW p, at' = [at EXCEPT ![x] = p], at[x] \notin {"idle", "terminal", "open"}
      PROVE  at'[r] = "terminal"
  BY <1>0, <1>3
<1> QED BY <1>1, <1>2, <1>3, TurnMoves DEF Inv

\* Only a restart is counted as one.
LEMMA RestartsMove ==
  ASSUME Next, ~ServerRestart
  PROVE  UNCHANGED restarts
<1>1. ASSUME NEW e \in Execs, Dispatch(e) \/ CancelExecution(e)
      PROVE  UNCHANGED restarts
  BY <1>1 DEF Dispatch, CreateExecution, FinishDispatch, DispatchRun, CreateRun, DenyRun, ParkRun,
       MarkDelivered, MarkUndelivered, CloseRun, LookupSession, SendLive, QueueOffline,
       ExpireEvicted, MarkQueuedOffline, DispUnchanged, CancelExecution, CancelCheck, CancelList,
       CancelSignal, CancelRuns, CancelState, CancelUnchanged
<1>2. ASSUME NEW s \in Streams, Connect(s) \/ Serve(s) \/ Cut(s)
      PROVE  UNCHANGED restarts
  BY <1>2 DEF Connect, Serve, ServeDrain, Teardown, Register, DrainRead, DrainTake, DrainStep,
       DrainMark, DrainDone, HandleUp, Unregister, MarkDisconnected, InterruptSelect,
       InterruptUpdate, StreamUnchanged, Cut, serverVars
<1>3. CASE Finalize \/ Sweep
  BY <1>3 DEF Finalize, FinRead, FinWrite, Sweep, StrandSelect, StrandUpdate, ExpireSweep,
       ExpireQueued, SweepUnchanged
<1>4. ASSUME NEW h \in Hosts, AgentNotice(h) \/ EnterLoop(h) \/ Receive(h) \/ AgentCrash(h)
      PROVE  UNCHANGED restarts
  BY <1>4 DEF AgentNotice, EnterLoop, Receive, AgentCrash, AgentUnchanged, serverVars
<1>5. ASSUME NEW r \in Runs, RunStep(r) \/ SpoolStep(r)
      PROVE  UNCHANGED restarts
  BY <1>5 DEF RunStep, Output, Finish, SpoolStep, DrainSpool, DrainCut, SpoolDrop, AgentUnchanged,
       serverVars
<1> QED BY <1>1, <1>2, <1>3, <1>4, <1>5 DEF Next

\* Every step keeps a lone run's execution owed or settled.
LEMMA OwedStep ==
  ASSUME Inv, Inv', Ledger, LoneOwedOrSettled, Next
  PROVE  LoneOwedOrSettled'
<1> SUFFICES ASSUME restarts' = 0, NEW r \in Runs, Lone(r)', cancel'[r[1]] = "idle",
                    runState'[r] \in FinalStates
             PROVE  (Settled(r) \/ Owed(r) \/ Closing(r))'
  BY DEF LoneOwedOrSettled
<1>0. /\ r[1] \in Execs /\ restarts \in Nat /\ fin \in [Threads -> SUBSET Execs]
      /\ execState \in [Execs -> ExecStates] /\ cancel \in [Execs -> CancelPCs]
  BY DEF Inv, TypeInv, TypeOK, ControlType, DbType, StreamType, Runs
<1>1. ~ServerRestart /\ restarts = 0
  <2>1. ~ServerRestart
    BY <1>0 DEF ServerRestart
  <2>2. UNCHANGED restarts
    BY <2>1, RestartsMove
  <2> QED BY <2>1, <2>2
<1>2. Lone(r)
  BY <1>1, LoneBefore
<1>3. cancel[r[1]] = "idle"
  <2>1. CASE UNCHANGED cancel
    BY <2>1
  <2>2. ASSUME NEW e \in Execs, CancelExecution(e)
        PROVE  cancel[r[1]] = "idle"
    BY <1>0, <2>2 DEF CancelExecution, CancelCheck, CancelList, CancelSignal, CancelRuns, CancelState
  <2> QED BY <1>1, <2>1, <2>2, CancelMoves
<1>4. CASE runState[r] \notin FinalStates
  <2>1. CASE at'[r] = "terminal"
    BY <2>1 DEF Closing
  <2>2. ASSUME NEW t \in Threads, NEW es \in SUBSET Execs, Pays(t, es), Owes(t, es), r[1] \in es,
               UNCHANGED finMu
        PROVE  Owed(r)'
    <3>1. fin[t] = {}
      BY <2>2, PaysFromZero
    <3>2. \A m \in finMu : m[1] # t
      BY <3>1 DEF Ledger, MutexOK
    <3>3. r[1] \in fin'[t]
      BY <1>0, <2>2 DEF Owes
    <3> QED BY <2>2, <3>2, <3>3 DEF Owed
  <2> QED BY <1>1, <1>3, <1>4, <2>1, <2>2, FinalIsOwed
<1>5. CASE runState[r] \in FinalStates
  <2>0. runState'[r] = runState[r] /\ runState[r] # "cancelled"
    <3>1. runState[r] # "cancelled"
      BY <1>3 DEF Inv, SafeInv, RowsOK, Asked
    <3> QED BY <1>5, <3>1, RowsStay
  <2>1. CASE Closing(r)
    BY <1>1, <1>2, <2>1, ClosingKeeps DEF Closing
  <2>2. CASE Settled(r) \/ Owed(r)
    <3>1. CASE UNCHANGED Books
      BY <2>0, <2>2, <3>1 DEF Books, Settled, Owed, Due
    <3>2. ASSUME NEW t \in Threads, NEW es \in SUBSET Execs, Pays(t, es), Owes(t, es),
                 UNCHANGED <<execState, finMu>>
          PROVE  (Settled(r) \/ Owed(r))'
      <4>1. fin[t] = {}
        BY <3>2, PaysFromZero
      <4> QED BY <2>0, <2>2, <3>2, <4>1, DebtKeeps
    <3>3. ASSUME NEW e \in Execs, CreateExecution(e) \/ CancelState(e)
          PROVE  (Settled(r) \/ Owed(r))'
      <4>1. e # r[1]
        <5>1. CASE CreateExecution(e)
          <6>1. "none" \notin FinalStates
            BY DEF FinalStates, ResultStates, GiveUpStates
          <6> QED BY <1>5, <5>1, <6>1 DEF CreateExecution, Inv, FreshRuns
        <5>2. CASE CancelState(e)
          BY <1>3, <5>2 DEF CancelState
        <5> QED BY <3>3, <5>1, <5>2
      <4>2. UNCHANGED <<fin, finMu>>
        BY <3>3 DEF CreateExecution, DispUnchanged, CancelState, CancelUnchanged
      <4>3. execState'[r[1]] = execState[r[1]]
        BY <1>0, <3>3, <4>1 DEF CreateExecution, CancelState
      <4> QED BY <2>0, <2>2, <4>2, <4>3 DEF Settled, Owed, Due
    <3>4. CASE Finalize
      BY <1>2, <1>5, <2>0, <2>2, <3>4, FinalizeKeeps
    <3> QED BY <1>1, <3>1, <3>2, <3>3, <3>4, DebtMoves DEF Inv, DebtMove
  <2> QED BY <1>0, <1>1, <1>2, <1>3, <1>5, <2>1, <2>2 DEF LoneOwedOrSettled
<1> QED BY <1>4, <1>5

-----------------------------------------------------------------------------
(* The theorem *)

\* The inductive invariant: that of the safety theorems, the ledger, and what it
\* says of a lone run's execution.
SettledInv == Inv /\ Ledger /\ LoneOwedOrSettled

\* In the empty system nobody owes anything.
LEMMA InitSettled == Init => SettledInv
<1> SUFFICES ASSUME Init
             PROVE  SettledInv
  OBVIOUS
<1>1. MutexOK /\ DebtsOK /\ TurnOK
  <2>1. /\ \A t \in Threads : fin[t] = {}
        /\ finMu = {} /\ strand = {} /\ \A s \in Streams : srv[s] = "none"
        /\ \A r \in Runs : at[r] = "idle" /\ \A e \in Execs, h \in Hosts : <<e, h>> \in Runs
    BY DEF Init, Runs
  <2> QED BY <2>1, ThreadNames DEF MutexOK, DebtsOK, TurnOK, Waiting, Runs
<1>2. LoneOwedOrSettled
  <2>1. \A r \in Runs : runState[r] \notin FinalStates
    BY DEF Init, FinalStates, ResultStates, GiveUpStates
  <2> QED BY <2>1 DEF LoneOwedOrSettled
<1> QED BY <1>1, <1>2, InitInv DEF SettledInv, Ledger

\* Every step keeps it.
LEMMA SettledStep == SettledInv /\ [Next]_vars => SettledInv'
<1> SUFFICES ASSUME SettledInv, [Next]_vars
             PROVE  SettledInv'
  OBVIOUS
<1>1. Inv'
  BY InvStep DEF SettledInv
<1>2. CASE Next
  BY <1>1, <1>2, LedgerStep, OwedStep DEF SettledInv
<1>3. CASE UNCHANGED vars
  <2> USE <1>3 DEF vars, dbVars, serverVars, dispVars, cancelVars, srvVars
  <2>1. Ledger'
    BY DEF SettledInv, Ledger, MutexOK, DebtsOK, TurnOK
  <2>2. LoneOwedOrSettled'
    BY DEF SettledInv, LoneOwedOrSettled, Lone, Settled, Owed, Closing, Due
  <2> QED BY <1>1, <2>1, <2>2 DEF SettledInv
<1> QED BY <1>2, <1>3

\* The execution of a lone run that has come to rest.
AtRest(r) == Lone(r) /\ Quiet(r[1]) /\ runState[r] \in FinalStates \ {"cancelled"}

\* An execution that was dispatched to one host and that nobody cancels ends with
\* the state its row calls for: whichever of the dispatcher, the stream handlers
\* and the two sweepers settled the row, and however their finalizations
\* overtook each other, no outdated aggregate is the last one written.
THEOREM LoneRunSettles ==
  Spec => [](restarts = 0 =>
               \A r \in Runs : AtRest(r) => execState[r[1]] = Aggregate({runState[r]}))
<1>1. SettledInv => (restarts = 0 =>
               \A r \in Runs : AtRest(r) => execState[r[1]] = Aggregate({runState[r]}))
  <2> SUFFICES ASSUME SettledInv, restarts = 0, NEW r \in Runs, AtRest(r)
               PROVE  execState[r[1]] = Aggregate({runState[r]})
    OBVIOUS
  <2>1. Settled(r) \/ Owed(r) \/ Closing(r)
    BY DEF SettledInv, LoneOwedOrSettled, AtRest, Quiet
  <2>2. ~Owed(r)
    BY DEF AtRest, Quiet, Owed
  <2>3. ~Closing(r)
    BY DEF AtRest, Quiet, Closing, SettledInv, Inv, FreshRuns
  <2> QED BY <2>1, <2>2, <2>3 DEF Settled, Due
<1> QED BY <1>1, InitSettled, SettledStep, PTL DEF Spec

\* With one host every execution is of that kind, so executions.state is the
\* aggregate of the rows whenever they are final and no finalization is pending.
\* With two it need not be (a run settled before the next host's row exists), nor
\* after a restart, which forgets the finalizations that were pending.
THEOREM OneHostSettles ==
  Spec => []((restarts = 0 /\ \A g, h \in Hosts : g = h) => SettledAggregate)
<1>1. SettledInv => ((restarts = 0 /\ \A g, h \in Hosts : g = h) => SettledAggregate)
  <2> SUFFICES ASSUME SettledInv, restarts = 0, \A g, h \in Hosts : g = h, NEW e \in Execs,
                      Quiet(e), Rows(e) # {}, Rows(e) \subseteq FinalStates \ {"cancelled"}
               PROVE  execState[e] = Aggregate(Rows(e))
    BY DEF SettledAggregate
  <2>1. PICK h \in Hosts : runState[<<e, h>>] \in Rows(e)
    BY DEF Rows
  <2> DEFINE r == <<e, h>>
  <2>2. r \in Runs /\ r[1] = e
    BY DEF Runs
  <2>3. Lone(r)
    BY DEF Lone, Runs
  <2>4. runState[r] # "none"
    BY <2>1 DEF Rows
  <2>5. Rows(e) = {runState[r]}
    BY <2>2, <2>3, <2>4, LoneRows DEF SettledInv
  <2>6. Settled(r) \/ Owed(r) \/ Closing(r)
    BY <2>2, <2>3, <2>5 DEF SettledInv, LoneOwedOrSettled, Quiet
  <2>7. ~Owed(r) /\ ~Closing(r)
    BY <2>2 DEF Quiet, Owed, Closing, SettledInv, Inv, FreshRuns
  <2> QED BY <2>2, <2>5, <2>6, <2>7 DEF Settled, Due
<1> QED BY <1>1, InitSettled, SettledStep, PTL DEF Spec
=============================================================================
