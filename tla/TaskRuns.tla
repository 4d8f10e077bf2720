------------------------------ MODULE TaskRuns ------------------------------
(***************************************************************************)
(* One run of a task, from the operator's request to its row's last state: *)
(* a task run, a manual run of a job or a scheduled one.  The agent runs   *)
(* the steps one by one; a reboot step writes a resume marker, reboots the *)
(* host and lets the resumer run the rest after the next policy bundle.    *)
(* Results are not spooled: without a stream they are lost.                *)
(*                                                                         *)
(* Time is abstracted to the number of boots: the uptime check of the      *)
(* resumer asks whether the host booted after the marker was written.  A   *)
(* waiter on the server takes a result and writes the row at once: no      *)
(* reboot completes in between.                                            *)
(***************************************************************************)
EXTENDS Integers, Sequences, FiniteSets

CONSTANTS TaskPlans,        \* the step lists: sequences over "step", "reboot"
          MaxTaskFaults     \* bound on stream drops, crashes, server restarts and
                            \* bundles pushed besides those of a connect

ASSUME TaskAssumption ==
  /\ MaxTaskFaults \in Nat
  /\ \A p \in TaskPlans : p \in Seq({"step", "reboot"}) /\ Len(p) > 0

RunKinds == {"task", "manual", "cron"}
Resumers == {"r1", "r2"}
TaskThreads == {"run"} \cup Resumers
NoResumeMarker == [start |-> 0, boot |-> 0]
Off == [pc |-> "off", at |-> 0, res |-> "none", m |-> NoResumeMarker]

VARIABLES plan,      \* the steps of the run
          runKind,   \* what kind of run it is
          runRow,    \* state of its task_runs or job_runs row
          taskSlot,  \* does a waiter hold a pending result slot: "none", "open"
          taskUp,    \* results on their way up
          taskDown,  \* is the TASK_RUN on its way down, or the cron fire due
          linked,    \* has the agent a stream
          threads,   \* the goroutines of the agent that run the steps
          resumeMarker, \* the resume marker on disk
          bootNo,    \* boots of the host
          going,     \* a reboot command succeeded, the host is going down
          executed,  \* how often each step was executed
          taskFaults, taskRestarted

serverTaskVars == <<plan, runKind, runRow, taskSlot>>
hostVars == <<threads, resumeMarker, bootNo, going, executed>>
taskCounters == <<taskFaults, taskRestarted>>
taskVars == <<serverTaskVars, taskUp, taskDown, linked, hostVars, taskCounters>>

TaskInit ==
  /\ plan \in TaskPlans /\ runKind \in RunKinds
  /\ runRow = "none" /\ taskSlot = "none" /\ taskUp = <<>> /\ taskDown = (runKind = "cron")
  /\ linked = TRUE
  /\ threads = [t \in TaskThreads |-> Off] /\ resumeMarker = NoResumeMarker
  /\ bootNo = 1 /\ going = FALSE /\ executed = [i \in 1..Len(plan) |-> 0]
  /\ taskFaults = 0 /\ taskRestarted = FALSE

-----------------------------------------------------------------------------
(* The server: gate, dispatch, wait. *)

FinalizeTaskRun(state) == runRow' = state
FinalizeJobRun(state) == runRow' = state
MarkTaskRunAwaiting == runRow' = "awaiting_approval"

(* The run goes down the stream and a slot waits for its result, or there  *)
(* is no stream and the run has failed.                                    *)
SendTaskRun(rowAfter) ==
  \/ linked /\ taskDown' = TRUE /\ taskSlot' = "open" /\ runRow' = rowAfter
  \/ ~linked /\ UNCHANGED <<taskDown, taskSlot>> /\ runRow' = "failed"

dispatchRun == SendTaskRun("running")
dispatchJobRun == SendTaskRun("dispatched")

Dispatch == IF runKind = "task" THEN dispatchRun ELSE dispatchJobRun

(* The effect of the rules over the run and its command-like steps.  The   *)
(* secrets the steps name may not be available: the run fails here.        *)
EvaluateRunSteps == {"allow", "deny", "require_approval"}

GatedRun(effect) ==
  \/ effect = "allow" /\ Dispatch
  \/ effect = "require_approval" /\ MarkTaskRunAwaiting /\ UNCHANGED <<taskDown, taskSlot>>
  \/ effect = "deny" /\ FinalizeTaskRun("failed") /\ UNCHANGED <<taskDown, taskSlot>>
  \/ effect = "allow" /\ FinalizeTaskRun("failed") /\ UNCHANGED <<taskDown, taskSlot>>

taskRun ==
  /\ runKind = "task" /\ runRow = "none"
  /\ \E effect \in EvaluateRunSteps : GatedRun(effect)
  /\ UNCHANGED <<plan, runKind, taskUp, linked, hostVars, taskCounters>>

RunNow ==
  /\ runKind = "manual" /\ runRow = "none"
  /\ \E effect \in EvaluateRunSteps : GatedRun(effect)
  /\ UNCHANGED <<plan, runKind, taskUp, linked, hostVars, taskCounters>>

\* The approvals engine hands the run back; another state than parked is refused.
DispatchApprovedTaskRun ==
  /\ runKind = "task" /\ runRow = "awaiting_approval"
  /\ \/ Dispatch
     \/ FinalizeTaskRun("failed") /\ UNCHANGED <<taskDown, taskSlot>>
  /\ UNCHANGED <<plan, runKind, taskUp, linked, hostVars, taskCounters>>

DispatchApprovedJobRun ==
  /\ runKind = "manual" /\ runRow = "awaiting_approval"
  /\ \/ Dispatch
     \/ FinalizeJobRun("failed") /\ UNCHANGED <<taskDown, taskSlot>>
  /\ UNCHANGED <<plan, runKind, taskUp, linked, hostVars, taskCounters>>

ResultStates == {"succeeded", "failed", "rebooting"}

ResultStatus(state) == IF state # "succeeded" THEN state ELSE "succeeded"

\* Bug: a timeout leaves the row alone.
WaitTaskTimeoutSilent ==
  /\ taskSlot = "open" /\ taskSlot' = "none" /\ UNCHANGED runRow
  /\ UNCHANGED <<plan, runKind, taskUp, taskDown, linked, hostVars, taskCounters>>

(* Its time is up, or the caller's request was cancelled: a task run has   *)
(* failed, the row of a manual job run stays as it is.                     *)
WaitTaskTimeout ==
  /\ taskSlot = "open" /\ taskSlot' = "none"
  /\ runRow' = IF runKind = "task" THEN "failed" ELSE runRow
  /\ UNCHANGED <<plan, runKind, taskUp, taskDown, linked, hostVars, taskCounters>>

(* The waiter of the run takes the result and writes the row, or finds its *)
(* deadline passed at the same moment: the result in the slot is lost.     *)
WaitTaskResult(state) ==
  /\ taskSlot = "open" /\ taskSlot' = "none"
  /\ \/ runRow' = ResultStatus(state)
     \/ runRow' = IF runKind = "task" THEN "failed" ELSE runRow

(* A result goes to the waiter of its run, and finalizes the row itself    *)
(* when nobody waits.                                                      *)
OnLateResult(state) == runRow' = ResultStatus(state) /\ UNCHANGED taskSlot
OnTaskRunResult(state) == runRow' = state /\ UNCHANGED taskSlot
OnRunResult(state) == runRow' = state /\ UNCHANGED taskSlot

handleTaskResult ==
  /\ taskUp # <<>> /\ taskUp' = Tail(taskUp)
  /\ LET state == Head(taskUp) IN
       \/ runKind = "cron" /\ OnRunResult(state)
       \/ runKind # "cron" /\ WaitTaskResult(state)
       \/ runKind = "task" /\ taskSlot = "none" /\ OnLateResult(state)
       \/ runKind = "manual" /\ taskSlot = "none" /\ OnTaskRunResult(state)
  /\ UNCHANGED <<plan, runKind, taskDown, linked, hostVars, taskCounters>>

LoseDown == taskDown' = (taskDown /\ runKind = "cron")

TaskFault == taskFaults < MaxTaskFaults /\ taskFaults' = taskFaults + 1

TaskServerRestart ==
  /\ TaskFault /\ taskRestarted' = TRUE
  /\ taskSlot' = "none" /\ taskUp' = <<>> /\ LoseDown /\ linked' = FALSE
  /\ UNCHANGED <<plan, runKind, runRow, hostVars>>

-----------------------------------------------------------------------------
(* The agent: the step runner. *)

Thread(t, f) == threads' = [threads EXCEPT ![t] = f]
Finish(t, state) == Thread(t, [threads[t] EXCEPT !.pc = "report", !.res = state])

(* TASK_RUN arrives, or the scheduler fires the job.  The guardrail checks *)
(* the signed decision again and may refuse.                               *)
RecheckTask == BOOLEAN

StartTaskRun ==
  /\ runKind # "cron" /\ taskDown /\ linked
  /\ taskDown' = FALSE
  /\ \E ok \in RecheckTask :
       Thread("run", [Off EXCEPT !.pc = IF ok THEN "step" ELSE "report", !.at = 1,
                                 !.res = IF ok THEN "none" ELSE "failed"])
  /\ UNCHANGED <<serverTaskVars, taskUp, linked, resumeMarker, bootNo, going, executed, taskCounters>>

CronRun ==
  /\ runKind = "cron" /\ taskDown /\ taskDown' = FALSE
  /\ Thread("run", [Off EXCEPT !.pc = "step", !.at = 1])
  /\ UNCHANGED <<serverTaskVars, taskUp, linked, resumeMarker, bootNo, going, executed, taskCounters>>

Executed(i) == executed' = [executed EXCEPT ![i] = IF @ < 2 THEN @ + 1 ELSE @]

Step(t) ==
  /\ threads[t].pc = "step" /\ threads[t].at <= Len(plan) /\ plan[threads[t].at] = "step"
  /\ \/ Executed(threads[t].at) /\ Thread(t, [threads[t] EXCEPT !.at = @ + 1])
     \/ Finish(t, "failed") /\ UNCHANGED executed
  /\ UNCHANGED <<serverTaskVars, taskUp, taskDown, linked, resumeMarker, bootNo, going, taskCounters>>

AllStepsDone(t) ==
  /\ threads[t].pc = "step" /\ threads[t].at > Len(plan)
  /\ Finish(t, "succeeded")
  /\ UNCHANGED <<serverTaskVars, taskUp, taskDown, linked, resumeMarker, bootNo, going, executed, taskCounters>>

rebootHook(i) == [start |-> i + 1, boot |-> bootNo]

(* The marker is written first, then the grace period runs.                *)
runReboot(t) ==
  /\ threads[t].pc = "step" /\ threads[t].at <= Len(plan) /\ plan[threads[t].at] = "reboot"
  /\ resumeMarker' = rebootHook(threads[t].at)
  /\ Thread(t, [threads[t] EXCEPT !.pc = "flush"])
  /\ UNCHANGED <<serverTaskVars, taskUp, taskDown, linked, bootNo, going, executed, taskCounters>>

(* The reboot command returns before the host is down; when it fails, the  *)
(* marker is discarded.                                                    *)
DoReboot(t) ==
  /\ threads[t].pc = "flush"
  /\ \/ Executed(threads[t].at) /\ going' = TRUE /\ Finish(t, "rebooting") /\ UNCHANGED resumeMarker
     \/ resumeMarker' = NoResumeMarker /\ Finish(t, "failed") /\ UNCHANGED <<going, executed>>
  /\ UNCHANGED <<serverTaskVars, taskUp, taskDown, linked, bootNo, taskCounters>>

(* The result goes up, or is lost without a stream.  A resumer deletes the *)
(* marker afterwards.                                                      *)
sendTaskResult(t) ==
  /\ threads[t].pc = "report"
  /\ taskUp' = IF linked THEN Append(taskUp, threads[t].res) ELSE taskUp
  /\ Thread(t, IF t \in Resumers THEN [threads[t] EXCEPT !.pc = "delete"] ELSE Off)
  /\ UNCHANGED <<serverTaskVars, taskDown, linked, resumeMarker, bootNo, going, executed, taskCounters>>

DeleteMarker(t) ==
  /\ threads[t].pc = "delete"
  /\ resumeMarker' = NoResumeMarker /\ Thread(t, Off)
  /\ UNCHANGED <<serverTaskVars, taskUp, taskDown, linked, bootNo, going, executed, taskCounters>>

-----------------------------------------------------------------------------
(* The agent: resuming. *)

\* A bundle starts a goroutine that takes up every marker it finds.
ResumePending ==
  IF resumeMarker = NoResumeMarker THEN UNCHANGED threads
  ELSE \E t \in Resumers :
         /\ threads[t].pc = "off" /\ (t = "r2" => threads["r1"].pc # "off")
         /\ Thread(t, [Off EXCEPT !.pc = "check", !.m = resumeMarker])

PolicyBundle ==
  /\ linked /\ TaskFault
  /\ ResumePending
  /\ UNCHANGED <<serverTaskVars, taskUp, taskDown, linked, resumeMarker, bootNo, going, executed, taskRestarted>>

TaskAgentConnects ==
  /\ ~linked /\ linked' = TRUE
  /\ ResumePending
  /\ UNCHANGED <<serverTaskVars, taskUp, taskDown, resumeMarker, bootNo, going, executed, taskCounters>>

\* Bug: the host's uptime is not compared with the age of the marker.
RebootedAnyway(m) == TRUE

\* Did the host boot after the marker was written.
RebootedSince(m) == m.boot < bootNo

resumeOne(t) ==
  /\ threads[t].pc = "check"
  /\ \E ok \in RecheckTask :
       IF RebootedSince(threads[t].m) /\ ok
       THEN Thread(t, [threads[t] EXCEPT !.pc = "step", !.at = threads[t].m.start])
       ELSE Finish(t, "failed")
  /\ UNCHANGED <<serverTaskVars, taskUp, taskDown, linked, resumeMarker, bootNo, going, executed, taskCounters>>

-----------------------------------------------------------------------------
(* Faults and the reboot itself: goroutines, stream and what it carried    *)
(* are gone, the marker stays.                                             *)

HostReboots ==
  /\ going /\ going' = FALSE /\ bootNo' = bootNo + 1
  /\ threads' = [t \in TaskThreads |-> Off]
  /\ linked' = FALSE /\ LoseDown /\ taskUp' \in {taskUp, <<>>}
  /\ UNCHANGED <<serverTaskVars, resumeMarker, executed, taskCounters>>

TaskStreamDrops ==
  /\ linked /\ TaskFault
  /\ linked' = FALSE /\ LoseDown /\ taskUp' \in {taskUp, <<>>}
  /\ UNCHANGED <<serverTaskVars, hostVars, taskRestarted>>

TaskAgentCrashes ==
  /\ TaskFault
  /\ threads' = [t \in TaskThreads |-> Off]
  /\ linked' = FALSE /\ LoseDown
  /\ UNCHANGED <<serverTaskVars, taskUp, resumeMarker, bootNo, going, executed, taskRestarted>>

AgentTaskStep ==
  \E t \in TaskThreads :
    \/ Step(t) \/ AllStepsDone(t) \/ runReboot(t) \/ DoReboot(t) \/ sendTaskResult(t)
    \/ t \in Resumers /\ (DeleteMarker(t) \/ resumeOne(t))

TaskNext ==
  \/ taskRun
  \/ RunNow
  \/ DispatchApprovedTaskRun
  \/ DispatchApprovedJobRun
  \/ WaitTaskTimeout
  \/ handleTaskResult
  \/ TaskServerRestart
  \/ StartTaskRun
  \/ CronRun
  \/ AgentTaskStep
  \/ PolicyBundle
  \/ TaskAgentConnects
  \/ HostReboots
  \/ TaskStreamDrops
  \/ TaskAgentCrashes

(* The agent's goroutines run, the agent reconnects with a backoff for as  *)
(* long as it takes, a reboot that was commanded happens, and every waiter *)
(* has a deadline.                                                         *)
TaskFairness ==
  /\ WF_taskVars(AgentTaskStep) /\ WF_taskVars(StartTaskRun)
  /\ WF_taskVars(TaskAgentConnects) /\ WF_taskVars(HostReboots)
  /\ WF_taskVars(handleTaskResult) /\ WF_taskVars(WaitTaskTimeout)

TaskSpec == TaskInit /\ [][TaskNext]_taskVars /\ TaskFairness

-----------------------------------------------------------------------------
(* The types, and a marker never points behind the end of the plan by more *)
(* than the one step: there is nothing left to run then.                   *)
TaskTypeOK ==
  /\ runRow \in {"none", "running", "dispatched", "awaiting_approval"} \cup ResultStates
  /\ taskSlot \in {"none", "open"}
  /\ resumeMarker.start \in 0..(Len(plan) + 1) /\ resumeMarker.boot \in 0..bootNo
  /\ \A t \in TaskThreads : threads[t].at \in 0..(Len(plan) + 1)

(* A run is reported succeeded only when every one of its steps, those     *)
(* before and those after a reboot, was executed.                          *)
SucceededIsComplete ==
  runRow = "succeeded" => \A i \in 1..Len(plan) : executed[i] > 0

(* Steps run in order: none runs before every step in front of it did, not *)
(* even after a resume.                                                    *)
StepsInOrder ==
  \A i \in 1..Len(plan) : executed[i] > 0 => \A j \in 1..(i - 1) : executed[j] > 0

Reboots(p, i) == Cardinality({j \in 1..(i - 1) : p[j] = "reboot"})

(* No step behind a reboot step runs in the boot the reboot step ran in:   *)
(* the resumer only takes up a marker once the host has really rebooted.   *)
RestRunsAfterReboot ==
  \A i \in 1..Len(plan) : executed[i] > 0 => bootNo > Reboots(plan, i)

(* The steps of a run are executed in order and across reboots before it   *)
(* is reported succeeded (runReboot, ResumePending): the parts above.      *)
TaskInv == TaskTypeOK /\ SucceededIsComplete /\ StepsInOrder /\ RestRunsAfterReboot

(* A task run does not stay running: its result, or the deadline of its    *)
(* waiter, settles it, unless the server that waited went away.            *)
RunningSettles ==
  (runKind = "task" /\ runRow = "running")
    ~> (runRow # "running" \/ taskRestarted)

(* Without faults a run that reboots once is finished after the reboot.    *)
RebootingResumes ==
  (runRow = "rebooting" /\ Len(SelectSeq(plan, LAMBDA s : s = "reboot")) = 1)
    ~> (runRow \in {"succeeded", "failed"} \/ taskFaults > 0)

(* No task run stays where it is for ever, neither running nor rebooting.  *)
TaskSettles == RunningSettles /\ RebootingResumes

(* What the step runner says of the marker: "Marker first: without it the  *)
(* remaining steps are lost on reboot".  The host does not go down for a   *)
(* reboot step without the marker of its run.                              *)
RebootKeepsMarker == going => resumeMarker # NoResumeMarker

(* What the resumer says of itself: "Safe to call more than once:          *)
(* processed markers are deleted".  No step is executed twice.             *)
ResumedOnce == \A i \in 1..Len(plan) : executed[i] <= 1
=============================================================================
