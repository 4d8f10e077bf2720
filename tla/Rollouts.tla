------------------------------ MODULE Rollouts ------------------------------
(***************************************************************************)
(* One fleet update run: the rows the run manager keeps in the store, the  *)
(* goroutine that drives it, the operator's buttons, the results of the    *)
(* agents and the two copies of a directive for a host that is offline.    *)
(*                                                                         *)
(* The driver reads the run and its host rows, decides on that snapshot    *)
(* and writes without a guard, so every operation of an operator or an     *)
(* agent may fall between its read and its writes: StepRead and StepWrite  *)
(* are two actions.  Every other handler is one action.                    *)
(***************************************************************************)
EXTENDS Integers, FiniteSets, FiniteSetsExt

CONSTANTS NumHosts,      \* hosts the selector matches, 1..NumHosts in id order
          CanarySizes,   \* the cohort sizes an operator may ask for
          WavePct,       \* percentage of the fleet per wave
          Flaky,         \* the hosts whose stream may break by itself
          MaxRestarts    \* bound on server restarts

ASSUME RolloutAssumption ==
  /\ NumHosts \in Nat \ {0} /\ WavePct \in 1..100 /\ MaxRestarts \in Nat
  /\ CanarySizes \subseteq 0..NumHosts /\ Flaky \subseteq 1..NumHosts

Fleet == 1..NumHosts
Loops == {"a", "b"}

VARIABLES run,        \* the update_runs row, with what its approval carries
          urow,       \* status of the update_hosts row of each host
          release,    \* is the release still in the store
          driver,     \* the runLoop goroutines: pc, stop channel, snapshot
          loops,      \* the goroutine registered for the run, or "none"
          online,     \* hosts with a live stream
          memq,       \* hosts with the directive in the in-memory offline queue
          durable,    \* hosts with a pending_updates row
          working,    \* hosts whose agent is executing a directive
          restarts,   \* server restarts so far
          wasAborted  \* has an operator aborted the run

rolloutVars == <<run, urow, release, driver, loops, online, memq, durable,
                 working, restarts, wasAborted>>

RunTerminal == {"completed", "failed", "aborted"}
HostTerminal == {"verified", "skipped", "failed_rollback", "timed_out"}
\* Bug: a host that timed out is not taken for a failure.
FailedHostNoTimeout == {"failed_rollback"}
FailedHost == {"failed_rollback", "timed_out"}
InFlightHost == {"dispatching", "restarting"}

NoSnapshot == [status |-> "none", rows |-> [h \in Fleet |-> "none"]]
Idle == [pc |-> "off", stop |-> FALSE, snap |-> NoSnapshot]

RolloutInit ==
  /\ run = [status |-> "none", cohort |-> {}, params |-> FALSE]
  /\ urow = [h \in Fleet |-> "none"]
  /\ release = TRUE
  /\ driver = [l \in Loops |-> Idle] /\ loops = "none"
  /\ online = Fleet /\ memq = {} /\ durable = {} /\ working = {}
  /\ restarts = 0 /\ wasAborted = FALSE

-----------------------------------------------------------------------------
(* The goroutine registry of the manager. *)

ensureLoop ==
  IF loops # "none" THEN UNCHANGED <<driver, loops>>
  ELSE \E l \in Loops :
         /\ driver[l].pc = "off"
         /\ driver' = [driver EXCEPT ![l] = [Idle EXCEPT !.pc = "idle"]]
         /\ loops' = l

Stopped == IF loops = "none" THEN driver ELSE [driver EXCEPT ![loops].stop = TRUE]

stopLoop == loops' = "none" /\ driver' = Stopped

(* A goroutine that returns runs its deferred stopLoop, which closes       *)
(* whatever goroutine is registered by then.                               *)
LoopReturns(l) == loops' = "none" /\ driver' = [Stopped EXCEPT ![l] = Idle]

-----------------------------------------------------------------------------
(* The rows of the store, and the two copies of a directive. *)

SetUpdateHostStatus(rows, H, status) ==
  [h \in Fleet |-> IF h \in H THEN status ELSE rows[h]]

clearPending(H) == durable' = durable \ H

(* The directive goes out on the stream, or is queued in memory and kept   *)
(* in the store with the durable rows that are pending.                    *)
QueueUpdateDirective(H, pending) ==
  /\ working' = working \cup (H \cap online)
  /\ memq' = memq \cup (H \ online)
  /\ durable' = pending \cup (H \ online)

dispatchHosts(H, rows, pending) ==
  /\ QueueUpdateDirective(H, pending)
  /\ urow' = SetUpdateHostStatus(rows, H, "dispatching")

waveSize(total, pct) == Max({1, (total * pct) \div 100})

TakeFirst(n, S) == { h \in S : Cardinality({ k \in S : k < h }) < n }

-----------------------------------------------------------------------------
(* Creation, approval and start.  The policy is what it is at that moment: *)
(* the effect on each host is an input.                                    *)

Effects3 == [Fleet -> {"allow", "deny", "require_approval"}]

FirstHosts(n) == { h \in Fleet : h <= n }

AddUpdateHosts(effect) ==
  [h \in Fleet |-> IF effect[h] = "deny" THEN "skipped" ELSE "queued"]

InitialStatus(cohort, effect, park) ==
  IF park THEN "draft"
  ELSE IF \E h \in Fleet : effect[h] = "require_approval" THEN "pending"
  ELSE IF cohort # {} THEN "canary" ELSE "rolling"

(* A denied canary host refuses the run, any other denied host is skipped. *)
StartRun(size, effect, park) ==
  LET cohort == FirstHosts(size) IN
  /\ run.status = "none" /\ release
  /\ \A c \in cohort : effect[c] # "deny"
  /\ urow' = AddUpdateHosts(effect)
  /\ run' = [status |-> InitialStatus(cohort, effect, park), cohort |-> cohort,
             params |-> ~park]
  /\ IF run'.status \in {"canary", "rolling"} THEN ensureLoop
     ELSE UNCHANGED <<driver, loops>>
  /\ UNCHANGED <<release, online, memq, durable, working, restarts, wasAborted>>

handleCreateUpdateRun == \E size \in CanarySizes, effect \in Effects3 :
                           StartRun(size, effect, FALSE)

MaybeDraft == \E effect \in Effects3 : StartRun(1, effect, TRUE)

(* A draft asks again, as an administrator; hosts denied now are skipped.  *)
(* Its approval request carries no parameters.                             *)
Start(effect) ==
  LET queued == { h \in Fleet : urow[h] = "queued" }
      denied == { h \in queued : effect[h] = "deny" }
      asks == \E h \in queued : effect[h] = "require_approval"
  IN
  /\ run.status = "draft"
  /\ urow' = SetUpdateHostStatus(urow, denied, "skipped")
  /\ clearPending(denied)
  /\ run' = [run EXCEPT !.status = IF asks THEN "pending"
                                   ELSE IF run.cohort # {} THEN "canary" ELSE "rolling"]
  /\ IF asks THEN UNCHANGED <<driver, loops>> ELSE ensureLoop
  /\ UNCHANGED <<release, online, memq, working, restarts, wasAborted>>

DispatchApprovedRun ==
  /\ run.status = "pending"
  /\ run' = [run EXCEPT !.status = IF run.params /\ run.cohort # {}
                                   THEN "canary" ELSE "rolling"]
  /\ ensureLoop
  /\ UNCHANGED <<urow, release, online, memq, durable, working, restarts, wasAborted>>

-----------------------------------------------------------------------------
(* The driver. *)

(* A stopped goroutine whose ticker is due as well may take the tick.      *)
StepRead(l) ==
  /\ driver[l].pc = "idle"
  /\ run.status \notin RunTerminal
  /\ driver' = [driver EXCEPT ![l].pc = "step",
                              ![l].snap = [status |-> run.status, rows |-> urow]]
  /\ UNCHANGED <<run, urow, release, loops, online, memq, durable, working,
                 restarts, wasAborted>>

RowsIn(rows, S) == { h \in Fleet : rows[h] \in S }

SetUpdateRunStatus(s) == run' = [run EXCEPT !.status = s]

(* The timeouts are written first; the decision still uses the snapshot.   *)
Sweep(silent) ==
  /\ urow' = SetUpdateHostStatus(urow, silent, "timed_out")
  /\ clearPending(silent)
  /\ UNCHANGED <<memq, working>>

SweepAndDispatch(silent, H) ==
  dispatchHosts(H, SetUpdateHostStatus(urow, silent, "timed_out"), durable \ silent)

TickDone(l) ==
  /\ driver' = [driver EXCEPT ![l].pc = "idle", ![l].snap = NoSnapshot]
  /\ UNCHANGED loops

(* A step that returns an error fails the run and ends the goroutine. *)
LoopFails(l, silent) ==
  SetUpdateRunStatus("failed") /\ Sweep(silent) /\ LoopReturns(l)

CanaryStep(l, rows, silent) ==
  LET queued == RowsIn(rows, {"queued"}) \cap run.cohort
      failed == RowsIn(rows, FailedHost) \cap run.cohort # {}
  IN
  IF ~release THEN LoopFails(l, silent)
  ELSE /\ TickDone(l)
       /\ IF queued # {} THEN SweepAndDispatch(silent, queued) ELSE Sweep(silent)
       /\ IF failed THEN SetUpdateRunStatus("failed")
          ELSE IF run.cohort \subseteq RowsIn(rows, HostTerminal)
               THEN SetUpdateRunStatus("rolling")
               ELSE UNCHANGED run

RollingStep(l, rows, silent) ==
  LET failed == RowsIn(rows, FailedHost) # {}
      queued == RowsIn(rows, {"queued"})
      wave == TakeFirst(waveSize(NumHosts, WavePct), queued)
  IN
  IF RowsIn(rows, InFlightHost) # {} THEN TickDone(l) /\ Sweep(silent) /\ UNCHANGED run
  ELSE IF failed THEN TickDone(l) /\ Sweep(silent) /\ SetUpdateRunStatus("paused_failure")
  ELSE IF queued = {} THEN TickDone(l) /\ Sweep(silent) /\ SetUpdateRunStatus("completed")
  ELSE IF release THEN TickDone(l) /\ SweepAndDispatch(silent, wave) /\ UNCHANGED run
  ELSE LoopFails(l, silent)

StepWrite(l, silent) ==
  LET snap == driver[l].snap IN
  /\ driver[l].pc = "step"
  /\ silent \subseteq RowsIn(snap.rows, InFlightHost)
  /\ CASE snap.status = "canary" -> CanaryStep(l, snap.rows, silent)
       [] snap.status = "rolling" -> RollingStep(l, snap.rows, silent)
       [] OTHER -> TickDone(l) /\ Sweep(silent) /\ UNCHANGED run
  /\ UNCHANGED <<release, online, restarts, wasAborted>>

LoopExit(l) ==
  /\ driver[l].pc = "idle" /\ driver[l].stop
  /\ LoopReturns(l)
  /\ UNCHANGED <<run, urow, release, online, memq, durable, working, restarts, wasAborted>>

-----------------------------------------------------------------------------
(* The operator. *)

Retry ==
  LET failed == { h \in Fleet : urow[h] \in FailedHost } IN
  /\ run.status \in {"paused_failure", "rolling", "canary"}
  /\ run.status = "canary" => failed \cap run.cohort = {}
  /\ release /\ failed # {}
  /\ dispatchHosts(failed, urow, durable)
  /\ run' = [run EXCEPT !.status = "rolling"]
  /\ ensureLoop
  /\ UNCHANGED <<release, online, restarts, wasAborted>>

Skip ==
  LET failed == { h \in Fleet : urow[h] \in FailedHost } IN
  /\ run.status = "paused_failure" /\ failed # {}
  /\ urow' = SetUpdateHostStatus(urow, failed, "skipped")
  /\ clearPending(failed)
  /\ run' = [run EXCEPT !.status = "rolling"]
  /\ ensureLoop
  /\ UNCHANGED <<release, online, memq, working, restarts, wasAborted>>

Abort ==
  LET open == { h \in Fleet : urow[h] \notin HostTerminal } IN
  /\ run.status \notin RunTerminal \cup {"none"}
  /\ run' = [run EXCEPT !.status = "aborted"]
  /\ urow' = SetUpdateHostStatus(urow, open, "skipped")
  /\ clearPending(open)
  /\ stopLoop
  /\ wasAborted' = TRUE
  /\ UNCHANGED <<release, online, memq, working, restarts>>

handleUpdateRunAction ==
  Retry \/ Skip \/ Abort \/ (\E effect \in Effects3 : Start(effect))

DeleteRelease ==
  /\ release /\ run.status # "none"
  /\ release' = FALSE
  /\ UNCHANGED <<run, urow, driver, loops, online, memq, durable, working,
                 restarts, wasAborted>>

-----------------------------------------------------------------------------
(* Results, streams and restarts. *)

ActiveUpdateHostFor(h) == urow[h] \notin HostTerminal \cup {"none"}

(* OnResult, or a result that is lost because it is never spooled. *)
OnResult(h, phase, lost) ==
  LET moved == CASE phase = "failed" -> "failed_rollback"
                 [] phase = "swapped" -> "restarting"
                 [] phase = "verified" -> "verified"
      applied == ~lost /\ ActiveUpdateHostFor(h)
  IN
  /\ h \in working
  /\ lost \/ h \in online
  /\ urow' = IF applied THEN [urow EXCEPT ![h] = moved] ELSE urow
  /\ durable' = IF applied /\ phase # "swapped" THEN durable \ {h} ELSE durable
  /\ working' = IF phase = "swapped" THEN working ELSE working \ {h}
  /\ UNCHANGED <<run, release, driver, loops, online, memq, restarts, wasAborted>>

Disconnect(h) ==
  /\ h \in online \cap Flaky
  /\ online' = online \ {h}
  /\ UNCHANGED <<run, urow, release, driver, loops, memq, durable, working,
                 restarts, wasAborted>>

(* A copy without a release is dropped, one with it gets a fresh grant. *)
deliverPendingUpdate(h) == h \in durable /\ release

(* drainOffline: the in-memory copy goes first and retires the durable row; *)
(* without one the durable row is sent, or dropped with its release.        *)
Reconnect(h) ==
  LET sent == h \in memq \/ deliverPendingUpdate(h) IN
  /\ h \notin online
  /\ online' = online \cup {h}
  /\ memq' = memq \ {h} /\ durable' = durable \ {h}
  /\ working' = IF sent THEN working \cup {h} ELSE working
  /\ UNCHANGED <<run, urow, release, driver, loops, restarts, wasAborted>>

ResumeAll ==
  IF run.status \in RunTerminal \cup {"none", "pending"}
  THEN driver' = [l \in Loops |-> Idle] /\ loops' = "none"
  ELSE /\ driver' = [l \in Loops |-> IF l = "a" THEN [Idle EXCEPT !.pc = "idle"] ELSE Idle]
       /\ loops' = "a"

\* Bug: no loop is attached to the active runs.
ServerRestartNoResume ==
  /\ restarts < MaxRestarts
  /\ restarts' = restarts + 1
  /\ memq' = {} /\ online' = {}
  /\ driver' = [l \in Loops |-> Idle] /\ loops' = "none"
  /\ UNCHANGED <<run, urow, release, durable, working, wasAborted>>

(* The process is replaced: goroutines, queue and streams are gone, then   *)
(* ResumeAll attaches a loop to every active run that is not pending.      *)
ServerRestart ==
  /\ restarts < MaxRestarts
  /\ restarts' = restarts + 1
  /\ memq' = {} /\ online' = {}
  /\ ResumeAll
  /\ UNCHANGED <<run, urow, release, durable, working, wasAborted>>

RolloutNext ==
  \/ handleCreateUpdateRun \/ MaybeDraft \/ handleUpdateRunAction
  \/ DispatchApprovedRun \/ DeleteRelease
  \/ \E l \in Loops : StepRead(l) \/ LoopExit(l)
  \/ \E l \in Loops, silent \in SUBSET Fleet : StepWrite(l, silent)
  \/ \E h \in Fleet, phase \in {"failed", "swapped", "verified"}, lost \in BOOLEAN :
       OnResult(h, phase, lost)
  \/ \E h \in Fleet : Disconnect(h) \/ Reconnect(h)
  \/ ServerRestart

RolloutSpec == RolloutInit /\ [][RolloutNext]_rolloutVars

-----------------------------------------------------------------------------
RolloutTypeOK ==
  /\ run.status \in {"none", "draft", "pending", "canary", "rolling", "paused_failure"}
                    \cup RunTerminal
  /\ run.cohort \subseteq Fleet /\ run.params \in BOOLEAN
  /\ urow \in [Fleet -> {"none", "queued"} \cup InFlightHost \cup HostTerminal]
  /\ \A l \in Loops : driver[l].pc \in {"off", "idle", "step"}
  /\ loops \in Loops \cup {"none"}
  /\ online \subseteq Fleet /\ memq \subseteq Fleet /\ durable \subseteq Fleet
  /\ working \subseteq Fleet /\ restarts \in 0..MaxRestarts

(* updates.go, step: "A canary failure is a hard gate".  A host outside    *)
(* the cohort is first dispatched only when every canary is verified or    *)
(* was skipped.  A draft resumed by an approval is left out: its request   *)
(* carries no parameters, and DispatchApprovedRun then skips the phase.    *)
CanaryGate ==
  [][\A h \in Fleet \ run.cohort :
       run.params /\ urow[h] = "queued" /\ urow'[h] = "dispatching"
         => \A c \in run.cohort : urow[c] \in {"verified", "skipped"}]_rolloutVars

(* updates.go, clearPending: "a stale directive must not be delivered      *)
(* later (after a server restart) to a host the run has already finished   *)
(* with".  The durable row of a host lasts no longer than its update.      *)
DurableIsInFlight == \A h \in durable : urow[h] \in InFlightHost

(* updates.go, step: a run is completed only when every host of it is      *)
(* verified or was skipped, whatever raced the tick that completed it, as  *)
(* long as no abort left a second goroutine behind.                        *)
CompletedIsSettled ==
  run.status = "completed" /\ ~wasAborted => \A h \in Fleet : urow[h] \in {"verified", "skipped"}

(* updates.go, ensureLoop and stopLoop: a run in its canary phase or in    *)
(* its waves has a goroutine that will take its next step, or it would     *)
(* stand still until the server restarts.  Once an operator has pressed    *)
(* abort this is lost: a tick in flight overwrites the status, and the     *)
(* deferred stopLoop of the old goroutine closes a new one.                *)
ActiveRunIsDriven ==
  run.status \in {"canary", "rolling"} /\ ~wasAborted
    => loops # "none" /\ driver[loops].pc # "off" /\ ~driver[loops].stop

(* The run, its hosts, its goroutine and its durable directives agree: the *)
(* parts above, over races of tick, result, operator and restart.          *)
RolloutInv == RolloutTypeOK /\ DurableIsInFlight /\ CompletedIsSettled /\ ActiveRunIsDriven

(* updates.go, Abort: "Abort ends the run". *)
AbortEndsTheRun == [][run.status = "aborted" => run'.status = "aborted"]_rolloutVars

(* updates.go, Abort: "no queued directive for an aborted run is ever      *)
(* delivered".                                                             *)
AbortedIsNotDelivered ==
  [][\A h \in Fleet : run.status = "aborted" /\ h \in working' => h \in working]_rolloutVars
=============================================================================
