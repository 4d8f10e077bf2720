----------------------------- MODULE HostProofs -----------------------------
(***************************************************************************)
(* Proofs about one host: the steps of a task run, before and after a      *)
(* reboot (TaskRuns), what a step reports of the host it ran on            *)
(* (TaskSteps), the files behind the file operations (Files) and the paths *)
(* they reach (FilePaths), the agent's update of itself (SelfUpdate), how  *)
(* the host is provisioned and enrolled (Provision, Credentials) and its   *)
(* PTY sessions (Sessions), for every plan, caller, version and fault.     *)
(***************************************************************************)
EXTENDS TaskRuns, TaskSteps, Files, FilePaths, SelfUpdate, Provision, Credentials, Sessions,
        FiniteSetTheorems, SequenceTheorems, WellFoundedInduction, TLAPS

-----------------------------------------------------------------------------
(* TaskRuns. *)

Steps == 1..Len(plan)

MarkerTypes == [start : Nat, boot : Nat]
Pcs == {"off", "step", "flush", "report", "delete", "check"}
Frames == [pc : Pcs, at : 0..(Len(plan) + 1), res : ResultStates \cup {"none"}, m : MarkerTypes]

TaskTypes ==
  /\ plan \in TaskPlans /\ runKind \in RunKinds
  /\ runRow \in {"none", "running", "dispatched", "awaiting_approval"} \cup ResultStates
  /\ taskSlot \in {"none", "open"} /\ taskUp \in Seq(ResultStates)
  /\ threads \in [TaskThreads -> Frames] /\ resumeMarker \in MarkerTypes
  /\ bootNo \in Nat \ {0} /\ executed \in [Steps -> 0..2]

\* Every step in front of k was executed.
DoneBefore(ex, k) == \A j \in 1..(k - 1) : ex[j] > 0

\* A marker names the step behind a reboot step of this boot or the one before;
\* once the host has booted since, that reboot step and all before it were run.
SoundMarker(m) ==
  /\ m.start \in 2..(Len(plan) + 1) /\ plan[m.start - 1] = "reboot"
  /\ m.boot = Reboots(plan, m.start) /\ m.boot \in {bootNo - 1, bootNo}
  /\ m.boot < bootNo => DoneBefore(executed, m.start)

MarkerIsSound == resumeMarker = NoResumeMarker \/ SoundMarker(resumeMarker)

\* No marker of an earlier boot is on the disk.
MarkerIsOwn == resumeMarker = NoResumeMarker \/ resumeMarker.boot = bootNo

\* A thread stands at a step whose predecessors were run, in the boot that
\* follows the reboot steps among them; one about to reboot has left no marker
\* of an earlier boot on the disk.
ThreadIsSound(t) ==
  /\ threads[t].pc \in {"step", "flush"} =>
       /\ threads[t].at # 0
       /\ DoneBefore(executed, threads[t].at) /\ bootNo = Reboots(plan, threads[t].at) + 1
  /\ threads[t].pc = "flush" =>
       /\ threads[t].at \in Steps /\ plan[threads[t].at] = "reboot" /\ MarkerIsOwn
  /\ threads[t].pc = "check" => SoundMarker(threads[t].m)
  /\ threads[t].pc = "report" => threads[t].res \in ResultStates
  /\ threads[t].res = "succeeded" => DoneBefore(executed, Len(plan) + 1)

\* While the host goes down, the reboot step of this boot was run.
RebootWasRun ==
  going => /\ \A k \in Steps : plan[k] = "reboot" /\ Reboots(plan, k) + 1 = bootNo => executed[k] > 0
           /\ MarkerIsOwn

\* A run that the agent has not begun has left nothing behind, and is begun once.
BegunOnce ==
  /\ taskDown \/ (runKind # "cron" /\ runRow \in {"none", "awaiting_approval"}) =>
       threads = [t \in TaskThreads |-> Off] /\ resumeMarker = NoResumeMarker /\ ~ going /\ bootNo = 1
  /\ taskDown /\ runKind # "cron" => runRow \notin {"none", "awaiting_approval"}

\* A result that says succeeded is that of a run whose steps were all executed.
ResultsAreTrue ==
  /\ \A i \in DOMAIN taskUp : taskUp[i] = "succeeded" => DoneBefore(executed, Len(plan) + 1)
  /\ runRow = "succeeded" => DoneBefore(executed, Len(plan) + 1)

HostIsSound ==
  /\ MarkerIsSound /\ \A t \in TaskThreads : ThreadIsSound(t)
  /\ RebootWasRun /\ StepsInOrder /\ RestRunsAfterReboot

StepsInv == TaskTypes /\ HostIsSound /\ BegunOnce /\ ResultsAreTrue

\* The plan is a sequence of steps and reboots.
LEMMA PlanIsSeq == TaskTypes => plan \in Seq({"step", "reboot"}) /\ Len(plan) \in Nat \ {0}
  BY TaskAssumption DEF TaskTypes

\* How the reboot steps in front of a step are counted; no two reboot steps
\* have the same number of them in front.
LEMMA RebootsCount ==
  ASSUME NEW p \in Seq({"step", "reboot"})
  PROVE  /\ Reboots(p, 1) = 0
         /\ \A i \in 1..(Len(p) + 1) : Reboots(p, i) \in Nat
         /\ \A i \in 1..Len(p) : Reboots(p, i + 1) = IF p[i] = "reboot" THEN Reboots(p, i) + 1 ELSE Reboots(p, i)
         /\ \A i, j \in 1..Len(p) :
              p[i] = "reboot" /\ p[j] = "reboot" /\ Reboots(p, i) = Reboots(p, j) => i = j
<1> DEFINE S(i) == {j \in 1..(i - 1) : p[j] = "reboot"}
<1>1. \A i \in Int : IsFiniteSet(S(i)) /\ Cardinality(S(i)) \in Nat
  <2> SUFFICES ASSUME NEW i \in Int PROVE IsFiniteSet(S(i)) /\ Cardinality(S(i)) \in Nat
    OBVIOUS
  <2>1. IsFiniteSet(1..(i - 1))
    BY FS_Interval
  <2>2. S(i) \subseteq 1..(i - 1)
    OBVIOUS
  <2>3. IsFiniteSet(S(i))
    BY <2>1, <2>2, FS_Subset
  <2> QED  BY <2>3, FS_CardinalityType
<1>2. Reboots(p, 1) = 0
  <2>1. S(1) = {}
    OBVIOUS
  <2> QED  BY <2>1, FS_EmptySet DEF Reboots
<1>3. ASSUME NEW i \in 1..Len(p)
      PROVE  Reboots(p, i + 1) = IF p[i] = "reboot" THEN Reboots(p, i) + 1 ELSE Reboots(p, i)
  <2>1. i \in Int /\ i \notin S(i)
    OBVIOUS
  <2>2. CASE p[i] = "reboot"
    <3>1. S(i + 1) = S(i) \cup {i}
      BY <2>2
    <3> HIDE DEF S
    <3>2. Cardinality(S(i + 1)) = Cardinality(S(i)) + 1
      BY <1>1, <2>1, <3>1, FS_AddElement
    <3> QED  BY <2>2, <3>2 DEF Reboots, S
  <2>3. CASE p[i] # "reboot"
    <3>1. S(i + 1) = S(i)
      BY <2>3
    <3> QED  BY <2>3, <3>1 DEF Reboots
  <2> QED  BY <2>2, <2>3
<1>4. ASSUME NEW i \in 1..Len(p), NEW j \in 1..Len(p), i < j, p[i] = "reboot"
      PROVE  Reboots(p, i) < Reboots(p, j)
  <2>1. S(i + 1) \subseteq S(j) /\ i \in Int /\ i + 1 \in Int /\ j \in Int
    BY <1>4
  <2> HIDE DEF S
  <2>2. Cardinality(S(i + 1)) <= Cardinality(S(j))
    BY <1>1, <2>1, FS_Subset
  <2>3. Reboots(p, i + 1) = Reboots(p, i) + 1
    BY <1>3, <1>4
  <2>4. Reboots(p, i) \in Nat /\ Reboots(p, j) \in Nat /\ Reboots(p, i + 1) <= Reboots(p, j)
    BY <1>1, <2>1, <2>2 DEF Reboots, S
  <2> QED  BY <2>3, <2>4
<1>5. ASSUME NEW i \in 1..(Len(p) + 1) PROVE Reboots(p, i) \in Nat
  <2>1. i \in Int /\ Reboots(p, i) = Cardinality(S(i))
    BY DEF Reboots
  <2> HIDE DEF S
  <2> QED  BY <1>1, <2>1
<1>6. ASSUME NEW i \in 1..Len(p), NEW j \in 1..Len(p), p[i] = "reboot", p[j] = "reboot", Reboots(p, i) = Reboots(p, j)
      PROVE  i = j
  <2>1. ~ (i < j)
    BY <1>4, <1>5, <1>6
  <2>2. ~ (j < i)
    BY <1>4, <1>5, <1>6
  <2> QED  BY <2>1, <2>2
<1> QED  BY <1>2, <1>3, <1>5, <1>6

\* Nothing that runs a step takes away what was executed.
LEMMA MoreExecuted ==
  ASSUME TaskTypes, plan' = plan, NEW i \in Steps, Executed(i)
  PROVE  /\ executed' \in [Steps -> 0..2] /\ executed'[i] > 0
         /\ \A j \in Steps : (executed[j] > 0 => executed'[j] > 0) /\ (j # i => executed'[j] = executed[j])
         /\ \A k \in 0..(Len(plan) + 1) : DoneBefore(executed, k) => DoneBefore(executed', k)
<1>1. executed \in [Steps -> 0..2] /\ Len(plan) \in Nat
  BY PlanIsSeq DEF TaskTypes
<1>2. executed' \in [Steps -> 0..2] /\ executed'[i] > 0
  BY <1>1 DEF Executed
<1>3. \A j \in Steps : (executed[j] > 0 => executed'[j] > 0) /\ (j # i => executed'[j] = executed[j])
  BY <1>1, <1>2 DEF Executed
<1>4. \A k \in 0..(Len(plan) + 1) : \A j \in 1..(k - 1) : j \in Steps
  BY <1>1 DEF Steps
<1>5. \A k \in 0..(Len(plan) + 1) : DoneBefore(executed, k) => DoneBefore(executed', k)
  BY <1>3, <1>4 DEF DoneBefore
<1> QED  BY <1>2, <1>3, <1>5

\* The server's own steps leave what the host did and its threads alone.
LEMMA HostUntouched ==
  ASSUME HostIsSound, UNCHANGED <<plan, hostVars>>
  PROVE  HostIsSound'
BY DEF HostIsSound, hostVars, MarkerIsSound, SoundMarker, ThreadIsSound, MarkerIsOwn, RebootWasRun, StepsInOrder,
       RestRunsAfterReboot, Steps, DoneBefore

\* A dispatch or a decision of the rules takes up a run that was not begun.
LEMMA GatedKeeps ==
  ASSUME StepsInv, runKind # "cron", runRow \in {"none", "awaiting_approval"},
         \/ \E effect \in EvaluateRunSteps : runRow = "none" /\ GatedRun(effect)
         \/ Dispatch
         \/ runRow' = "failed" /\ UNCHANGED <<taskDown, taskSlot>>,
         UNCHANGED <<plan, runKind, taskUp, linked, hostVars, taskCounters>>
  PROVE  StepsInv'
<1>1. /\ runRow' \in {"running", "dispatched", "awaiting_approval", "failed"} /\ taskSlot' \in {"none", "open"}
      /\ runRow' = "awaiting_approval" => taskDown' = taskDown
  BY DEF GatedRun, Dispatch, dispatchRun, dispatchJobRun, SendTaskRun, MarkTaskRunAwaiting, FinalizeTaskRun,
         StepsInv, TaskTypes
<1>2. ~ taskDown
  BY DEF StepsInv, BegunOnce
<1>3. TaskTypes'
  BY <1>1 DEF StepsInv, TaskTypes, hostVars, Frames, Steps, ResultStates
<1>4. HostIsSound'
  BY HostUntouched DEF StepsInv
<1>5. BegunOnce'
  BY <1>1, <1>2 DEF StepsInv, BegunOnce, hostVars
<1>6. ResultsAreTrue'
  BY <1>1 DEF StepsInv, ResultsAreTrue, hostVars, DoneBefore
<1> QED  BY <1>3, <1>4, <1>5, <1>6 DEF StepsInv

\* The server takes a result, gives up waiting for it, or forgets its waiters.
LEMMA ServerKeeps ==
  ASSUME StepsInv,
         taskRun \/ RunNow \/ DispatchApprovedTaskRun \/ DispatchApprovedJobRun \/ WaitTaskTimeout
         \/ handleTaskResult \/ TaskServerRestart \/ TaskStreamDrops
  PROVE  StepsInv'
<1>0. taskUp \in Seq(ResultStates) /\ taskSlot \in {"none", "open"}
  BY DEF StepsInv, TaskTypes
<1>1. CASE taskRun
  BY <1>1, GatedKeeps DEF taskRun
<1>2. CASE RunNow
  BY <1>2, GatedKeeps DEF RunNow
<1>3. CASE DispatchApprovedTaskRun
  BY <1>3, GatedKeeps DEF DispatchApprovedTaskRun, FinalizeTaskRun
<1>4. CASE DispatchApprovedJobRun
  BY <1>4, GatedKeeps DEF DispatchApprovedJobRun, FinalizeJobRun
<1>5. CASE WaitTaskTimeout \/ handleTaskResult \/ TaskServerRestart \/ TaskStreamDrops
  <2>1. /\ UNCHANGED <<plan, runKind, hostVars>> /\ taskSlot' \in {"none", "open"}
        /\ taskDown' => taskDown
    <3>1. CASE WaitTaskTimeout
      BY <3>1 DEF WaitTaskTimeout
    <3>2. CASE handleTaskResult
      BY <1>0, <3>2 DEF handleTaskResult, WaitTaskResult, OnLateResult, OnTaskRunResult, OnRunResult
    <3>3. CASE TaskServerRestart
      BY <3>3 DEF TaskServerRestart, LoseDown
    <3>4. CASE TaskStreamDrops
      BY <1>0, <3>4 DEF TaskStreamDrops, LoseDown, serverTaskVars
    <3> QED  BY <1>5, <3>1, <3>2, <3>3, <3>4
  <2>2. taskUp' \in {taskUp, <<>>} \/ (taskUp # <<>> /\ taskUp' = Tail(taskUp))
    BY <1>5 DEF WaitTaskTimeout, handleTaskResult, TaskServerRestart, TaskStreamDrops
  <2>3. /\ taskUp' \in Seq(ResultStates)
        /\ \A i \in DOMAIN taskUp' : \E j \in DOMAIN taskUp : taskUp'[i] = taskUp[j]
    <3>1. CASE taskUp # <<>> /\ taskUp' = Tail(taskUp)
      <4>1. taskUp' \in Seq(ResultStates)
        BY <1>0, <3>1
      <4>2. \A i \in DOMAIN taskUp' : i + 1 \in DOMAIN taskUp /\ taskUp'[i] = taskUp[i + 1]
        BY <1>0, <3>1
      <4> QED  BY <4>1, <4>2
    <3>2. CASE taskUp' = taskUp
      BY <1>0, <3>2
    <3>3. CASE taskUp' = <<>>
      <4>1. taskUp' \in Seq(ResultStates) /\ DOMAIN taskUp' = {}
        BY <3>3
      <4> QED  BY <4>1
    <3> QED  BY <2>2, <3>1, <3>2, <3>3
  <2>4. runRow' \in {runRow, "failed"} \/ (taskUp # <<>> /\ runRow' = Head(taskUp))
    BY <1>5 DEF WaitTaskTimeout, handleTaskResult, TaskServerRestart, TaskStreamDrops, serverTaskVars,
                WaitTaskResult, ResultStatus, OnLateResult, OnTaskRunResult, OnRunResult
  <2>5. taskUp # <<>> => Head(taskUp) \in ResultStates /\ 1 \in DOMAIN taskUp /\ Head(taskUp) = taskUp[1]
    BY <1>0
  <2>6. TaskTypes'
    BY <2>1, <2>3, <2>4, <2>5 DEF StepsInv, TaskTypes, hostVars, Frames, Steps, ResultStates
  <2>7. HostIsSound'
    BY <2>1, HostUntouched DEF StepsInv
  <2>8. runRow' \in {"none", "awaiting_approval"} => runRow' = runRow
    BY <2>4, <2>5 DEF ResultStates
  <2>9. BegunOnce'
    BY <2>1, <2>8 DEF StepsInv, BegunOnce, hostVars
  <2>10. ResultsAreTrue'
    BY <2>1, <2>3, <2>4, <2>5 DEF StepsInv, ResultsAreTrue, hostVars
  <2> QED  BY <2>6, <2>7, <2>9, <2>10 DEF StepsInv
<1> QED  BY <1>1, <1>2, <1>3, <1>4, <1>5

\* A marker stays sound, and a thread where it is stays sound, while another
\* thread of the boot runs a step or handles its own marker.
LEMMA OthersStaySound ==
  ASSUME StepsInv, NEW t \in TaskThreads, NEW f \in Frames, Thread(t, f), plan' = plan, bootNo' = bootNo,
         executed' = executed \/ \E i \in Steps : Executed(i),
         resumeMarker' = resumeMarker \/ (MarkerIsSound' /\ MarkerIsOwn')
  PROVE  /\ threads' \in [TaskThreads -> Frames] /\ threads'[t] = f
         /\ executed' \in [Steps -> 0..2]
         /\ \A k \in 0..(Len(plan) + 1) : DoneBefore(executed, k) => DoneBefore(executed', k)
         /\ \A j \in Steps : executed[j] > 0 => executed'[j] > 0
         /\ MarkerIsSound' /\ (MarkerIsOwn => MarkerIsOwn')
         /\ \A u \in TaskThreads \ {t} : ThreadIsSound(u)'
<1>0. /\ TaskTypes /\ MarkerIsSound /\ \A u \in TaskThreads : ThreadIsSound(u)
      /\ plan \in Seq({"step", "reboot"}) /\ Len(plan) \in Nat
  BY PlanIsSeq DEF StepsInv, HostIsSound
<1>1. /\ threads' \in [TaskThreads -> Frames] /\ threads'[t] = f
      /\ \A u \in TaskThreads \ {t} : threads'[u] = threads[u]
  BY <1>0 DEF Thread, TaskTypes
<1>2. /\ executed' \in [Steps -> 0..2]
      /\ \A k \in 0..(Len(plan) + 1) : DoneBefore(executed, k) => DoneBefore(executed', k)
      /\ \A j \in Steps : executed[j] > 0 => executed'[j] > 0
  <2>1. CASE executed' = executed
    BY <1>0, <2>1 DEF TaskTypes
  <2>2. CASE \E i \in Steps : Executed(i)
    BY <1>0, <2>2, MoreExecuted
  <2> QED  BY <2>1, <2>2
<1>3. ASSUME NEW m, SoundMarker(m) PROVE m.start \in 0..(Len(plan) + 1) /\ (m.boot < bootNo => DoneBefore(executed', m.start))
  BY <1>0, <1>2, <1>3 DEF SoundMarker
<1>4. MarkerIsSound'
  <2>1. CASE resumeMarker' = resumeMarker
    BY <1>0, <1>3, <2>1 DEF MarkerIsSound, SoundMarker
  <2> QED  BY <2>1
<1>5. MarkerIsOwn => MarkerIsOwn'
  BY DEF MarkerIsOwn
<1>6. ASSUME NEW u \in TaskThreads \ {t} PROVE ThreadIsSound(u)'
  <2>1. threads'[u] = threads[u] /\ ThreadIsSound(u) /\ threads[u] \in Frames
    BY <1>0, <1>1 DEF TaskTypes
  <2>2. threads[u].at \in 0..(Len(plan) + 1) /\ Len(plan) + 1 \in 0..(Len(plan) + 1)
    BY <1>0, <2>1 DEF Frames
  <2>3. threads'[u].pc = "check" => SoundMarker(threads[u].m)'
    BY <1>3, <2>1 DEF ThreadIsSound, SoundMarker
  <2> QED  BY <1>2, <1>5, <2>1, <2>2, <2>3 DEF ThreadIsSound, Steps
<1> QED  BY <1>1, <1>2, <1>4, <1>5, <1>6

\* What a step of a running thread has to leave behind.
LEMMA ThreadKeeps ==
  ASSUME StepsInv, NEW t \in TaskThreads, NEW f \in Frames, Thread(t, f), threads[t].pc # "off",
         UNCHANGED <<serverTaskVars, taskDown, bootNo>>,
         taskUp' = taskUp \/ (threads[t].pc = "report" /\ taskUp' = Append(taskUp, threads[t].res)),
         resumeMarker' \in MarkerTypes,
         resumeMarker' = resumeMarker \/ (MarkerIsSound' /\ MarkerIsOwn'),
         \/ executed' = executed
         \/ /\ threads[t].pc \in {"step", "flush"} /\ threads[t].at \in Steps
            /\ Executed(threads[t].at),
         ThreadIsSound(t)', going' = going \/ RebootWasRun'
  PROVE  StepsInv'
<1>0. /\ TaskTypes /\ MarkerIsSound /\ ThreadIsSound(t) /\ RebootWasRun /\ StepsInOrder /\ RestRunsAfterReboot
      /\ BegunOnce /\ ResultsAreTrue
      /\ plan \in Seq({"step", "reboot"}) /\ Len(plan) \in Nat /\ threads[t] \in Frames
  BY PlanIsSeq DEF StepsInv, HostIsSound, TaskTypes
<1>1. UNCHANGED <<plan, runKind, runRow, taskSlot, taskDown, bootNo>>
  BY DEF serverTaskVars
<1>2. /\ threads' \in [TaskThreads -> Frames] /\ threads'[t] = f
      /\ executed' \in [Steps -> 0..2]
      /\ \A k \in 0..(Len(plan) + 1) : DoneBefore(executed, k) => DoneBefore(executed', k)
      /\ \A j \in Steps : executed[j] > 0 => executed'[j] > 0
      /\ MarkerIsSound' /\ (MarkerIsOwn => MarkerIsOwn')
      /\ \A u \in TaskThreads \ {t} : ThreadIsSound(u)'
  BY <1>1, OthersStaySound
<1>3. taskUp' \in Seq(ResultStates)
  BY <1>0 DEF TaskTypes, ThreadIsSound
<1>4. TaskTypes'
  BY <1>0, <1>1, <1>2, <1>3 DEF TaskTypes, Frames, Steps
<1>5. RebootWasRun'
  BY <1>0, <1>1, <1>2 DEF RebootWasRun, Steps
<1>6. StepsInOrder' /\ RestRunsAfterReboot'
  <2>1. CASE executed' = executed
    BY <1>0, <1>1, <2>1 DEF StepsInOrder, RestRunsAfterReboot
  <2>2. CASE /\ threads[t].pc \in {"step", "flush"} /\ threads[t].at \in Steps
             /\ Executed(threads[t].at)
    <3> DEFINE i == threads[t].at
    <3>1. /\ i \in Steps /\ DoneBefore(executed, i) /\ bootNo = Reboots(plan, i) + 1
      BY <1>0, <2>2 DEF ThreadIsSound
    <3>2. \A j \in Steps \ {i} : executed'[j] = executed[j]
      BY <1>0, <1>1, <2>2, MoreExecuted
    <3>3. Reboots(plan, i) \in Nat
      BY <1>0, <3>1, RebootsCount DEF Steps
    <3> HIDE DEF i
    <3>4. StepsInOrder'
      <4>1. DoneBefore(executed', i)
        BY <1>0, <1>2, <3>1 DEF Steps
      <4> QED  BY <1>0, <1>1, <1>2, <3>1, <3>2, <4>1 DEF StepsInOrder, DoneBefore, Steps
    <3>5. RestRunsAfterReboot'
      BY <1>0, <1>1, <3>1, <3>2, <3>3 DEF RestRunsAfterReboot, Steps
    <3> QED  BY <3>4, <3>5
  <2> QED  BY <2>1, <2>2
<1>7. BegunOnce'
  <2>1. threads # [u \in TaskThreads |-> Off]
    BY DEF Off
  <2> QED  BY <1>0, <1>1, <2>1 DEF BegunOnce
<1>8. ResultsAreTrue'
  <2>1. DoneBefore(executed, Len(plan) + 1) => DoneBefore(executed', Len(plan) + 1)
    BY <1>0, <1>2
  <2>2. CASE taskUp' = taskUp
    BY <1>0, <1>1, <2>1, <2>2 DEF ResultsAreTrue
  <2>3. CASE threads[t].pc = "report" /\ taskUp' = Append(taskUp, threads[t].res)
    <3>1. \A i \in DOMAIN taskUp' : (i \in DOMAIN taskUp /\ taskUp'[i] = taskUp[i]) \/ taskUp'[i] = threads[t].res
      BY <1>0, <2>3 DEF TaskTypes, ThreadIsSound
    <3> QED  BY <1>0, <1>1, <2>1, <3>1 DEF ResultsAreTrue, ThreadIsSound
  <2> QED  BY <2>2, <2>3
<1> QED  BY <1>2, <1>4, <1>5, <1>6, <1>7, <1>8 DEF StepsInv, HostIsSound

\* A step that runs, and the end of the list of steps.
LEMMA StepKeeps ==
  ASSUME StepsInv, NEW t \in TaskThreads, Step(t) \/ AllStepsDone(t)
  PROVE  StepsInv'
<1>0. /\ ThreadIsSound(t) /\ threads[t] \in Frames /\ resumeMarker \in MarkerTypes
      /\ plan \in Seq({"step", "reboot"}) /\ Len(plan) \in Nat \ {0} /\ TaskTypes
      /\ threads \in [TaskThreads -> Frames]
  BY PlanIsSeq DEF StepsInv, HostIsSound, TaskTypes
<1>1. /\ threads[t].pc = "step" /\ UNCHANGED <<serverTaskVars, plan, taskDown, taskUp, bootNo, resumeMarker, going>>
  BY DEF Step, AllStepsDone, serverTaskVars
<1>2. /\ threads[t].at \in 1..(Len(plan) + 1) /\ DoneBefore(executed, threads[t].at)
      /\ bootNo = Reboots(plan, threads[t].at) + 1
  BY <1>0, <1>1 DEF ThreadIsSound, Frames
<1>3. CASE /\ threads[t].at <= Len(plan) /\ plan[threads[t].at] = "step"
           /\ Executed(threads[t].at) /\ Thread(t, [threads[t] EXCEPT !.at = @ + 1])
  <2> DEFINE i == threads[t].at
             f == [threads[t] EXCEPT !.at = @ + 1]
  <2>1. i \in Steps /\ i + 1 \in 0..(Len(plan) + 1)
    BY <1>2, <1>3 DEF Steps
  <2>2. f \in Frames /\ f.pc = "step" /\ f.at = i + 1 /\ f.res = threads[t].res
    BY <1>0, <1>1, <2>1 DEF Frames, Pcs
  <2>3. threads'[t] = f
    BY <1>0, <1>3 DEF Thread
  <2>4. /\ executed'[i] > 0 /\ \A k \in 0..(Len(plan) + 1) : DoneBefore(executed, k) => DoneBefore(executed', k)
    BY <1>0, <1>1, <1>3, <2>1, MoreExecuted
  <2>5. Reboots(plan, i + 1) = Reboots(plan, i)
    BY <1>0, <1>3, <2>1, RebootsCount DEF Steps
  <2>6. DoneBefore(executed', i + 1)
    <3>1. DoneBefore(executed', i)
      BY <1>2, <2>1, <2>4
    <3>2. \A j \in 1..((i + 1) - 1) : j \in 1..(i - 1) \/ j = i
      BY <2>1 DEF Steps
    <3> QED  BY <2>4, <3>1, <3>2 DEF DoneBefore
  <2>7. threads[t].res = "succeeded" => DoneBefore(executed', Len(plan) + 1)
    <3>1. Len(plan) + 1 \in 0..(Len(plan) + 1)
      BY <1>0
    <3> QED  BY <1>0, <2>4, <3>1 DEF ThreadIsSound
  <2>8. i + 1 # 0 /\ f.pc # "flush" /\ f.pc # "check" /\ f.pc # "report"
    BY <2>1, <2>2 DEF Steps
  <2>9. ThreadIsSound(t)'
    BY <1>1, <1>2, <2>2, <2>3, <2>5, <2>6, <2>7, <2>8 DEF ThreadIsSound
  <2> HIDE DEF f, i
  <2>10. Thread(t, f) /\ threads[t].pc # "off" /\ threads[t].at \in Steps /\ Executed(threads[t].at)
    BY <1>1, <1>3, <2>1 DEF f, i
  <2> QED  BY <1>0, <1>1, <2>2, <2>9, <2>10, ThreadKeeps
<1>4. ASSUME NEW res \in {"failed", "succeeded"}, Finish(t, res), UNCHANGED executed,
             res = "succeeded" => threads[t].at > Len(plan)
      PROVE  StepsInv'
  <2> DEFINE f == [threads[t] EXCEPT !.pc = "report", !.res = res]
  <2>1. f \in Frames /\ f.pc = "report" /\ f.res = res /\ res \in ResultStates
    BY <1>0 DEF Frames, Pcs, ResultStates
  <2>2. threads'[t] = f /\ Thread(t, f)
    BY <1>0, <1>4 DEF Finish, Thread
  <2>3. res = "succeeded" => DoneBefore(executed, Len(plan) + 1)
    <3>1. threads[t].at > Len(plan) => threads[t].at = Len(plan) + 1
      BY <1>0, <1>2
    <3> QED  BY <1>2, <1>4, <3>1
  <2> HIDE DEF f
  <2>4. ThreadIsSound(t)'
    BY <1>1, <1>4, <2>1, <2>2, <2>3 DEF ThreadIsSound
  <2> QED  BY <1>0, <1>1, <1>4, <2>1, <2>2, <2>4, ThreadKeeps
<1> QED  BY <1>1, <1>3, <1>4 DEF Step, AllStepsDone

\* The marker of a reboot step is written, and the reboot command returns or
\* fails.
LEMMA RebootKeeps ==
  ASSUME StepsInv, NEW t \in TaskThreads, runReboot(t) \/ DoReboot(t)
  PROVE  StepsInv'
<1>0. /\ ThreadIsSound(t) /\ threads[t] \in Frames /\ resumeMarker \in MarkerTypes
      /\ plan \in Seq({"step", "reboot"}) /\ Len(plan) \in Nat \ {0} /\ TaskTypes
      /\ threads \in [TaskThreads -> Frames] /\ bootNo \in Nat \ {0}
  BY PlanIsSeq DEF StepsInv, HostIsSound, TaskTypes
<1>1. /\ threads[t].pc \in {"step", "flush"} /\ UNCHANGED <<serverTaskVars, plan, taskDown, taskUp, bootNo>>
  BY DEF runReboot, DoReboot, serverTaskVars
<1>2. /\ DoneBefore(executed, threads[t].at) /\ bootNo = Reboots(plan, threads[t].at) + 1
      /\ threads[t].at \in Steps /\ plan[threads[t].at] = "reboot"
  BY <1>0, <1>1 DEF ThreadIsSound, Frames, runReboot, DoReboot, Steps
<1> DEFINE i == threads[t].at
<1>3. CASE runReboot(t)
  <2> DEFINE f == [threads[t] EXCEPT !.pc = "flush"]
  <2>1. f \in Frames /\ f.pc = "flush" /\ f.at = i /\ f.res = threads[t].res
    BY <1>0 DEF Frames, Pcs
  <2>2. /\ Thread(t, f) /\ threads'[t] = f /\ UNCHANGED <<executed, going>>
        /\ resumeMarker' = [start |-> i + 1, boot |-> bootNo]
    BY <1>0, <1>3 DEF runReboot, Thread, rebootHook
  <2>3. /\ Reboots(plan, i + 1) = bootNo /\ i \in 1..Len(plan) /\ (i + 1) - 1 = i /\ i + 1 \in 2..(Len(plan) + 1)
    BY <1>0, <1>2, RebootsCount DEF Steps
  <2>4. /\ resumeMarker'.start = i + 1 /\ resumeMarker'.boot = bootNo
        /\ resumeMarker' \in MarkerTypes
    BY <1>0, <2>2, <2>3 DEF MarkerTypes
  <2> HIDE DEF f
  <2>5. SoundMarker(resumeMarker)'
    <3>1. plan[i + 1 - 1] = "reboot"
      BY <1>2, <2>3
    <3> QED  BY <1>0, <1>1, <2>3, <2>4, <3>1 DEF SoundMarker
  <2>6. MarkerIsSound' /\ MarkerIsOwn'
    BY <1>1, <2>4, <2>5 DEF MarkerIsSound, MarkerIsOwn
  <2>7. ThreadIsSound(t)'
    BY <1>0, <1>1, <1>2, <2>1, <2>2, <2>3, <2>6 DEF ThreadIsSound, Steps
  <2>8. threads[t].pc # "off"
    BY <1>1
  <2> QED  BY <1>1, <2>1, <2>2, <2>4, <2>6, <2>7, <2>8, ThreadKeeps
<1>4. CASE DoReboot(t)
  <2> DEFINE f(res) == [threads[t] EXCEPT !.pc = "report", !.res = res]
  <2>1. MarkerIsOwn
    BY <1>0, <1>4 DEF ThreadIsSound, DoReboot
  <2>2. \A res \in ResultStates : f(res) \in Frames /\ f(res).pc = "report" /\ f(res).res = res
    BY <1>0 DEF Frames, Pcs
  <2>3. ASSUME NEW res \in ResultStates, Finish(t, res), res # "succeeded"
        PROVE  Thread(t, f(res)) /\ ThreadIsSound(t)'
    <3>1. Thread(t, f(res)) /\ threads'[t] = f(res)
      BY <1>0, <2>3 DEF Finish, Thread
    <3> HIDE DEF f
    <3> QED  BY <2>2, <2>3, <3>1 DEF ThreadIsSound
  <2>4. {"rebooting", "failed"} \subseteq ResultStates /\ threads[t].pc # "off"
    BY <1>1 DEF ResultStates
  <2> HIDE DEF f
  <2>5. CASE Executed(i) /\ Finish(t, "rebooting") /\ UNCHANGED resumeMarker
    <3>1. executed'[i] > 0
      BY <1>0, <1>1, <1>2, <2>5, MoreExecuted
    <3>2. \A k \in Steps : plan[k] = "reboot" /\ Reboots(plan, k) + 1 = bootNo => k = i
      <4>1. \A k \in Steps : Reboots(plan, k) \in Nat
        BY <1>0, RebootsCount DEF Steps
      <4> QED  BY <1>0, <1>2, <4>1, RebootsCount DEF Steps
    <3>3. RebootWasRun'
      BY <1>1, <2>1, <2>5, <3>1, <3>2 DEF RebootWasRun, MarkerIsOwn, Steps
    <3> QED  BY <1>0, <1>1, <1>2, <2>2, <2>3, <2>4, <2>5, <3>3, ThreadKeeps
  <2>6. CASE resumeMarker' = NoResumeMarker /\ Finish(t, "failed") /\ UNCHANGED <<going, executed>>
    <3>1. MarkerIsSound' /\ MarkerIsOwn' /\ resumeMarker' \in MarkerTypes
      BY <2>6 DEF MarkerIsSound, MarkerIsOwn, NoResumeMarker, MarkerTypes
    <3> QED  BY <1>1, <2>2, <2>3, <2>4, <2>6, <3>1, ThreadKeeps
  <2> QED  BY <1>4, <2>5, <2>6 DEF DoReboot
<1> QED  BY <1>3, <1>4

\* A thread that is off, or about to delete its marker, claims nothing.
LEMMA OffIsSound ==
  ASSUME TaskTypes
  PROVE  Off \in Frames /\ Off.pc = "off" /\ Off.res = "none"
<1>1. Len(plan) \in Nat
  BY PlanIsSeq
<1> QED  BY <1>1 DEF Off, Frames, Pcs, MarkerTypes, NoResumeMarker

\* A result is sent, the marker deleted behind it.
LEMMA ReportKeeps ==
  ASSUME StepsInv, NEW t \in TaskThreads, sendTaskResult(t) \/ DeleteMarker(t)
  PROVE  StepsInv'
<1>0. /\ ThreadIsSound(t) /\ threads[t] \in Frames /\ resumeMarker \in MarkerTypes /\ TaskTypes
      /\ threads \in [TaskThreads -> Frames]
      /\ Off \in Frames /\ Off.pc = "off" /\ Off.res = "none"
  BY OffIsSound DEF StepsInv, HostIsSound, TaskTypes
<1>1. UNCHANGED <<serverTaskVars, plan, taskDown, bootNo, going, executed>> /\ threads[t].pc # "off"
  BY DEF sendTaskResult, DeleteMarker, serverTaskVars
<1>2. CASE sendTaskResult(t)
  <2> DEFINE f == IF t \in Resumers THEN [threads[t] EXCEPT !.pc = "delete"] ELSE Off
  <2>1. f \in Frames /\ f.pc \in {"delete", "off"} /\ f.res \in {threads[t].res, "none"}
    BY <1>0 DEF Frames, Pcs
  <2>2. Thread(t, f) /\ threads'[t] = f /\ resumeMarker' = resumeMarker
    BY <1>0, <1>2 DEF sendTaskResult, Thread
  <2> HIDE DEF f
  <2>3. ThreadIsSound(t)'
    BY <1>0, <1>1, <2>1, <2>2 DEF ThreadIsSound
  <2>4. taskUp' = taskUp \/ (threads[t].pc = "report" /\ taskUp' = Append(taskUp, threads[t].res))
    BY <1>2 DEF sendTaskResult
  <2> QED  BY <1>0, <1>1, <2>1, <2>2, <2>3, <2>4, ThreadKeeps
<1>3. CASE DeleteMarker(t)
  <2>1. Thread(t, Off) /\ threads'[t] = Off /\ resumeMarker' = NoResumeMarker /\ taskUp' = taskUp
    BY <1>0, <1>3 DEF DeleteMarker, Thread
  <2>2. MarkerIsSound' /\ MarkerIsOwn' /\ resumeMarker' \in MarkerTypes
    BY <2>1 DEF MarkerIsSound, MarkerIsOwn, NoResumeMarker, MarkerTypes
  <2>3. ThreadIsSound(t)'
    BY <1>0, <2>1 DEF ThreadIsSound
  <2> QED  BY <1>0, <1>1, <2>1, <2>2, <2>3, ThreadKeeps
<1> QED  BY <1>2, <1>3

\* A resumer goes on behind the reboot step only when the host has booted since.
LEMMA ResumeKeeps ==
  ASSUME StepsInv, NEW t \in TaskThreads, resumeOne(t)
  PROVE  StepsInv'
<1>0. /\ ThreadIsSound(t) /\ threads[t] \in Frames /\ resumeMarker \in MarkerTypes /\ TaskTypes
      /\ threads \in [TaskThreads -> Frames] /\ bootNo \in Nat \ {0}
      /\ plan \in Seq({"step", "reboot"}) /\ Len(plan) \in Nat \ {0}
  BY PlanIsSeq DEF StepsInv, HostIsSound, TaskTypes
<1>1. /\ threads[t].pc = "check"
      /\ UNCHANGED <<serverTaskVars, plan, taskDown, taskUp, bootNo, going, executed, resumeMarker>>
  BY DEF resumeOne, serverTaskVars
<1>2. SoundMarker(threads[t].m)
  BY <1>0, <1>1 DEF ThreadIsSound
<1>3. CASE /\ RebootedSince(threads[t].m)
           /\ Thread(t, [threads[t] EXCEPT !.pc = "step", !.at = threads[t].m.start])
  <2> DEFINE k == threads[t].m.start
             f == [threads[t] EXCEPT !.pc = "step", !.at = k]
  <2>1. /\ k \in 2..(Len(plan) + 1) /\ k \in 0..(Len(plan) + 1) /\ k # 0
        /\ DoneBefore(executed, k) /\ bootNo = Reboots(plan, k) + 1
    BY <1>0, <1>2, <1>3 DEF SoundMarker, RebootedSince
  <2>2. f \in Frames /\ f.pc = "step" /\ f.at = k /\ f.res = threads[t].res
    BY <1>0, <2>1 DEF Frames, Pcs
  <2>3. Thread(t, f) /\ threads'[t] = f
    BY <1>0, <1>3 DEF Thread
  <2> HIDE DEF f, k
  <2>4. ThreadIsSound(t)'
    BY <1>0, <1>1, <2>1, <2>2, <2>3 DEF ThreadIsSound
  <2> QED  BY <1>0, <1>1, <2>2, <2>3, <2>4, ThreadKeeps
<1>4. CASE Finish(t, "failed")
  <2> DEFINE f == [threads[t] EXCEPT !.pc = "report", !.res = "failed"]
  <2>1. f \in Frames /\ f.pc = "report" /\ f.res = "failed" /\ "failed" \in ResultStates
    BY <1>0 DEF Frames, Pcs, ResultStates
  <2>2. Thread(t, f) /\ threads'[t] = f
    BY <1>0, <1>4 DEF Finish, Thread
  <2> HIDE DEF f
  <2>3. ThreadIsSound(t)'
    BY <2>1, <2>2 DEF ThreadIsSound
  <2> QED  BY <1>0, <1>1, <2>1, <2>2, <2>3, ThreadKeeps
<1> QED  BY <1>3, <1>4 DEF resumeOne

\* Where a run begins, nothing of it has been done.
LEMMA BeginKeeps ==
  ASSUME StepsInv, StartTaskRun \/ CronRun
  PROVE  StepsInv'
<1>0. /\ TaskTypes /\ HostIsSound /\ BegunOnce /\ ResultsAreTrue /\ "run" \in TaskThreads
      /\ plan \in Seq({"step", "reboot"}) /\ Len(plan) \in Nat \ {0}
      /\ Off \in Frames /\ Off.pc = "off" /\ Off.res = "none"
  BY PlanIsSeq, OffIsSound DEF StepsInv, TaskThreads
<1>1. /\ taskDown /\ ~ taskDown' /\ UNCHANGED <<plan, runKind, runRow, taskSlot, taskUp, resumeMarker, bootNo, going, executed>>
  BY DEF StartTaskRun, CronRun, serverTaskVars
<1>2. /\ threads = [u \in TaskThreads |-> Off] /\ resumeMarker = NoResumeMarker /\ ~ going /\ bootNo = 1
      /\ runKind # "cron" => runRow \notin {"none", "awaiting_approval"}
  BY <1>0, <1>1 DEF BegunOnce
<1>3. PICK f \in Frames : /\ Thread("run", f) /\ f.pc \in {"step", "report"} /\ f.at = 1
                          /\ f.res = IF f.pc = "step" THEN "none" ELSE "failed"
  <2> DEFINE cron == [Off EXCEPT !.pc = "step", !.at = 1]
             go == [Off EXCEPT !.pc = "step", !.at = 1, !.res = "none"]
             no == [Off EXCEPT !.pc = "report", !.at = 1, !.res = "failed"]
  <2>1. 1 \in 0..(Len(plan) + 1)
    BY <1>0
  <2>2. /\ cron \in Frames /\ cron.pc = "step" /\ cron.at = 1 /\ cron.res = "none"
        /\ go \in Frames /\ go.pc = "step" /\ go.at = 1 /\ go.res = "none"
        /\ no \in Frames /\ no.pc = "report" /\ no.at = 1 /\ no.res = "failed"
    BY <1>0, <2>1 DEF Off, Frames, Pcs, MarkerTypes, NoResumeMarker, ResultStates
  <2>3. Thread("run", cron) \/ Thread("run", go) \/ Thread("run", no)
    <3>1. CASE StartTaskRun
      <4>1. PICK ok \in BOOLEAN : Thread("run", [Off EXCEPT !.pc = IF ok THEN "step" ELSE "report", !.at = 1,
                                                            !.res = IF ok THEN "none" ELSE "failed"])
        BY <3>1 DEF StartTaskRun, RecheckTask
      <4>2. CASE ok = TRUE
        BY <4>1, <4>2
      <4>3. CASE ok = FALSE
        BY <4>1, <4>3
      <4> QED  BY <4>2, <4>3
    <3>2. CASE CronRun
      BY <3>2 DEF CronRun
    <3> QED  BY <3>1, <3>2
  <2> HIDE DEF cron, go, no
  <2> QED  BY <2>2, <2>3
<1>4. /\ threads' \in [TaskThreads -> Frames] /\ threads'["run"] = f /\ executed' \in [Steps -> 0..2]
      /\ MarkerIsSound' /\ \A u \in TaskThreads \ {"run"} : ThreadIsSound(u)'
  BY <1>0, <1>1, <1>3, OthersStaySound
<1>5. ThreadIsSound("run")'
  <2>1. DoneBefore(executed, 1) /\ Reboots(plan, 1) = 0
    BY <1>0, RebootsCount DEF DoneBefore
  <2> QED  BY <1>1, <1>2, <1>3, <1>4, <2>1 DEF ThreadIsSound, ResultStates
<1>6. RebootWasRun' /\ StepsInOrder' /\ RestRunsAfterReboot'
  BY <1>0, <1>1, <1>2 DEF HostIsSound, RebootWasRun, StepsInOrder, RestRunsAfterReboot
<1>7. BegunOnce' /\ ResultsAreTrue'
  BY <1>0, <1>1, <1>2 DEF BegunOnce, ResultsAreTrue
<1>8. TaskTypes'
  BY <1>0, <1>1, <1>4 DEF TaskTypes, Frames, Steps
<1> QED  BY <1>4, <1>5, <1>6, <1>7, <1>8 DEF StepsInv, HostIsSound

\* A bundle lets a resumer look at the marker that is on the disk.
LEMMA BundleKeeps ==
  ASSUME StepsInv, PolicyBundle \/ TaskAgentConnects
  PROVE  StepsInv'
<1>0. /\ TaskTypes /\ HostIsSound /\ BegunOnce /\ ResultsAreTrue
      /\ Off \in Frames /\ Off.pc = "off" /\ Off.res = "none"
  BY OffIsSound DEF StepsInv
<1>1. /\ UNCHANGED <<plan, runKind, runRow, taskSlot, taskUp, taskDown, resumeMarker, bootNo, going, executed>>
      /\ ResumePending
  BY DEF PolicyBundle, TaskAgentConnects, serverTaskVars
<1>2. CASE UNCHANGED threads
  <2>1. UNCHANGED <<plan, hostVars>>
    BY <1>1, <1>2 DEF hostVars
  <2>2. HostIsSound'
    BY <1>0, <2>1, HostUntouched
  <2>3. TaskTypes' /\ BegunOnce' /\ ResultsAreTrue'
    BY <1>0, <1>1, <1>2 DEF TaskTypes, Frames, Steps, BegunOnce, ResultsAreTrue
  <2> QED  BY <2>2, <2>3 DEF StepsInv
<1>3. CASE resumeMarker # NoResumeMarker /\ ~ UNCHANGED threads
  <2>1. PICK t \in Resumers : Thread(t, [Off EXCEPT !.pc = "check", !.m = resumeMarker])
    BY <1>1, <1>3 DEF ResumePending
  <2> DEFINE f == [Off EXCEPT !.pc = "check", !.m = resumeMarker]
  <2>2. f \in Frames /\ f.pc = "check" /\ f.m = resumeMarker /\ f.res = "none" /\ Thread(t, f) /\ t \in TaskThreads
    BY <1>0, <2>1 DEF Off, Frames, Pcs, TaskTypes, TaskThreads
  <2> HIDE DEF f
  <2>3. /\ threads' \in [TaskThreads -> Frames] /\ threads'[t] = f /\ executed' \in [Steps -> 0..2]
        /\ MarkerIsSound' /\ \A u \in TaskThreads \ {t} : ThreadIsSound(u)'
    BY <1>0, <1>1, <2>2, OthersStaySound
  <2>4. SoundMarker(resumeMarker)
    BY <1>0, <1>3 DEF HostIsSound, MarkerIsSound
  <2>5. ThreadIsSound(t)'
    BY <1>1, <2>2, <2>3, <2>4 DEF ThreadIsSound, SoundMarker
  <2>6. RebootWasRun' /\ StepsInOrder' /\ RestRunsAfterReboot'
    BY <1>0, <1>1 DEF HostIsSound, RebootWasRun, StepsInOrder, RestRunsAfterReboot, MarkerIsOwn, Steps
  <2>7. BegunOnce' /\ ResultsAreTrue'
    BY <1>0, <1>1, <1>3 DEF BegunOnce, ResultsAreTrue
  <2>8. TaskTypes'
    BY <1>0, <1>1, <2>3 DEF TaskTypes, Frames, Steps
  <2> QED  BY <2>3, <2>5, <2>6, <2>7, <2>8 DEF StepsInv, HostIsSound
<1> QED  BY <1>1, <1>2, <1>3 DEF ResumePending

\* The agent's threads are gone: it crashed, or the host went down for the
\* reboot step that it had run.
LEMMA ThreadsGoneKeeps ==
  ASSUME StepsInv, HostReboots \/ TaskAgentCrashes
  PROVE  StepsInv'
<1>0. /\ TaskTypes /\ HostIsSound /\ BegunOnce /\ ResultsAreTrue
      /\ Off \in Frames /\ Off.pc = "off" /\ Off.res = "none"
      /\ plan \in Seq({"step", "reboot"}) /\ Len(plan) \in Nat \ {0} /\ bootNo \in Nat \ {0}
  BY PlanIsSeq, OffIsSound DEF StepsInv, TaskTypes
<1>1. /\ UNCHANGED <<plan, runKind, runRow, taskSlot, resumeMarker, executed>>
      /\ threads' = [u \in TaskThreads |-> Off] /\ taskUp' \in {taskUp, <<>>}
      /\ taskDown' => taskDown
  BY DEF HostReboots, TaskAgentCrashes, serverTaskVars, LoseDown
<1>2. bootNo' \in Nat \ {0}
  BY <1>0 DEF HostReboots, TaskAgentCrashes
<1>3. threads' \in [TaskThreads -> Frames] /\ \A u \in TaskThreads : threads'[u] = Off
  BY <1>0, <1>1
<1>4. taskUp' \in Seq(ResultStates) /\ ResultsAreTrue'
  <2>1. CASE taskUp' = taskUp
    BY <1>0, <1>1, <2>1 DEF TaskTypes, ResultsAreTrue
  <2>2. CASE taskUp' = <<>>
    <3>1. taskUp' \in Seq(ResultStates) /\ DOMAIN taskUp' = {}
      BY <2>2
    <3> QED  BY <1>0, <1>1, <3>1 DEF ResultsAreTrue
  <2> QED  BY <1>1, <2>1, <2>2
<1>5. TaskTypes'
  BY <1>0, <1>1, <1>2, <1>3, <1>4 DEF TaskTypes, Frames, Steps
<1>6. \A u \in TaskThreads : ThreadIsSound(u)'
  BY <1>0, <1>3 DEF ThreadIsSound
<1>7. CASE TaskAgentCrashes
  <2>1. bootNo' = bootNo /\ going' = going
    BY <1>7 DEF TaskAgentCrashes
  <2>2. MarkerIsSound' /\ RebootWasRun' /\ StepsInOrder' /\ RestRunsAfterReboot'
    BY <1>0, <1>1, <2>1 DEF HostIsSound, MarkerIsSound, SoundMarker, RebootWasRun, StepsInOrder,
                            RestRunsAfterReboot, MarkerIsOwn, Steps
  <2>3. BegunOnce'
    BY <1>0, <1>1, <2>1 DEF BegunOnce
  <2> QED  BY <1>4, <1>5, <1>6, <2>2, <2>3 DEF StepsInv, HostIsSound
<1>8. CASE HostReboots
  <2>1. going /\ ~ going' /\ bootNo' = bootNo + 1
    BY <1>8 DEF HostReboots
  <2>2. MarkerIsSound'
    <3> SUFFICES ASSUME resumeMarker # NoResumeMarker PROVE SoundMarker(resumeMarker)'
      BY <1>1 DEF MarkerIsSound
    <3>1. SoundMarker(resumeMarker) /\ resumeMarker.boot = bootNo
      BY <1>0, <2>1 DEF HostIsSound, MarkerIsSound, RebootWasRun, MarkerIsOwn
    <3> DEFINE k == resumeMarker.start - 1
    <3>2. k \in Steps /\ k + 1 = resumeMarker.start /\ plan[k] = "reboot" /\ Reboots(plan, k + 1) = bootNo
      <4>1. /\ resumeMarker.start \in 2..(Len(plan) + 1) /\ plan[resumeMarker.start - 1] = "reboot"
            /\ Reboots(plan, resumeMarker.start) = bootNo
        BY <3>1 DEF SoundMarker
      <4>2. \A x \in 2..(Len(plan) + 1) : x - 1 \in Steps /\ (x - 1) + 1 = x
        BY <1>0 DEF Steps
      <4> QED  BY <4>1, <4>2
    <3>3. Reboots(plan, k) + 1 = bootNo
      BY <1>0, <3>2, RebootsCount DEF Steps
    <3>4. executed[k] > 0
      BY <1>0, <2>1, <3>2, <3>3 DEF HostIsSound, RebootWasRun
    <3>5. \A j \in 1..(k - 1) : executed[j] > 0
      BY <1>0, <3>2, <3>4 DEF HostIsSound, StepsInOrder, Steps
    <3>6. DoneBefore(executed, resumeMarker.start)
      <4>1. \A j \in 1..((k + 1) - 1) : j \in 1..(k - 1) \/ j = k
        BY <3>2 DEF Steps
      <4> QED  BY <3>2, <3>4, <3>5, <4>1 DEF DoneBefore
    <3> QED  BY <1>0, <1>1, <2>1, <3>1, <3>6 DEF SoundMarker
  <2>3. RebootWasRun' /\ StepsInOrder'
    BY <1>0, <1>1, <2>1 DEF HostIsSound, RebootWasRun, StepsInOrder
  <2>4. RestRunsAfterReboot'
    <3>1. \A i \in Steps : Reboots(plan, i) \in Nat
      BY <1>0, RebootsCount DEF Steps
    <3> QED  BY <1>0, <1>1, <2>1, <3>1 DEF HostIsSound, RestRunsAfterReboot, Steps
  <2>5. BegunOnce'
    BY <1>0, <1>1, <2>1 DEF BegunOnce
  <2> QED  BY <1>4, <1>5, <1>6, <2>2, <2>3, <2>4, <2>5 DEF StepsInv, HostIsSound
<1> QED  BY <1>7, <1>8

\* A host on which the run has not begun satisfies the invariant.
LEMMA StepsStart == TaskInit => StepsInv
<1> SUFFICES ASSUME TaskInit PROVE StepsInv
  OBVIOUS
<1>0. plan \in Seq({"step", "reboot"}) /\ Len(plan) \in Nat \ {0}
  BY TaskAssumption DEF TaskInit
<1>1. Off \in Frames /\ Off.pc = "off" /\ Off.res = "none"
  BY <1>0 DEF Off, Frames, Pcs, MarkerTypes, NoResumeMarker
<1>2. threads \in [TaskThreads -> Frames] /\ \A t \in TaskThreads : threads[t] = Off
  BY <1>1 DEF TaskInit
<1>3. executed \in [Steps -> 0..2] /\ \A i \in Steps : executed[i] = 0
  BY DEF TaskInit, Steps
<1>4. taskUp = <<>> /\ taskUp \in Seq(ResultStates) /\ DOMAIN taskUp = {}
  BY DEF TaskInit
<1>5. TaskTypes
  BY <1>2, <1>3, <1>4 DEF TaskInit, TaskTypes, NoResumeMarker, MarkerTypes
<1>6. HostIsSound
  BY <1>1, <1>2, <1>3 DEF TaskInit, HostIsSound, MarkerIsSound, ThreadIsSound, RebootWasRun, StepsInOrder,
                          RestRunsAfterReboot, Steps
<1>7. BegunOnce /\ ResultsAreTrue
  BY <1>4 DEF TaskInit, BegunOnce, ResultsAreTrue
<1> QED  BY <1>5, <1>6, <1>7 DEF StepsInv

\* No step of the server, the agent, the host or the faults disturbs it.
LEMMA StepsStep == StepsInv /\ [TaskNext]_taskVars => StepsInv'
<1> SUFFICES ASSUME StepsInv, [TaskNext]_taskVars PROVE StepsInv'
  OBVIOUS
<1>1. CASE taskRun \/ RunNow \/ DispatchApprovedTaskRun \/ DispatchApprovedJobRun \/ WaitTaskTimeout
           \/ handleTaskResult \/ TaskServerRestart \/ TaskStreamDrops
  BY <1>1, ServerKeeps
<1>2. CASE StartTaskRun \/ CronRun
  BY <1>2, BeginKeeps
<1>3. CASE AgentTaskStep
  <2>1. PICK t \in TaskThreads : \/ Step(t) \/ AllStepsDone(t) \/ runReboot(t) \/ DoReboot(t) \/ sendTaskResult(t)
                                 \/ t \in Resumers /\ (DeleteMarker(t) \/ resumeOne(t))
    BY <1>3 DEF AgentTaskStep
  <2> QED  BY <2>1, StepKeeps, RebootKeeps, ReportKeeps, ResumeKeeps
<1>4. CASE PolicyBundle \/ TaskAgentConnects
  BY <1>4, BundleKeeps
<1>5. CASE HostReboots \/ TaskAgentCrashes
  BY <1>5, ThreadsGoneKeeps
<1>6. CASE UNCHANGED taskVars
  <2>1. UNCHANGED <<plan, runKind, runRow, taskSlot, taskUp, taskDown, hostVars>>
        /\ UNCHANGED <<threads, resumeMarker, bootNo, going, executed>>
    BY <1>6 DEF taskVars, serverTaskVars, hostVars
  <2>2. HostIsSound'
    BY <2>1, HostUntouched DEF StepsInv
  <2>3. TaskTypes' /\ BegunOnce' /\ ResultsAreTrue'
    BY <2>1 DEF StepsInv, TaskTypes, Frames, Steps, BegunOnce, ResultsAreTrue
  <2> QED  BY <2>2, <2>3 DEF StepsInv
<1> QED  BY <1>1, <1>2, <1>3, <1>4, <1>5, <1>6 DEF TaskNext

\* The steps of a run are executed in order, those behind a reboot step in a
\* later boot, and the row says succeeded only when all were: through crashes,
\* lost results, several bundles and several reboots (runReboot, ResumePending).
THEOREM StepsSurviveReboots == TaskSpec => []TaskInv
<1>1. StepsInv => TaskInv
  <2> SUFFICES ASSUME StepsInv PROVE TaskInv
    OBVIOUS
  <2>0. /\ TaskTypes /\ HostIsSound /\ ResultsAreTrue
        /\ plan \in Seq({"step", "reboot"}) /\ Len(plan) \in Nat \ {0} /\ bootNo \in Nat \ {0}
    BY PlanIsSeq DEF StepsInv, TaskTypes
  <2>1. resumeMarker.start \in 0..(Len(plan) + 1) /\ resumeMarker.boot \in 0..bootNo
    <3>1. CASE resumeMarker = NoResumeMarker
      BY <2>0, <3>1 DEF NoResumeMarker
    <3>2. CASE SoundMarker(resumeMarker)
      BY <2>0, <3>2 DEF SoundMarker
    <3> QED  BY <2>0, <3>1, <3>2 DEF HostIsSound, MarkerIsSound
  <2>2. \A t \in TaskThreads : threads[t].at \in 0..(Len(plan) + 1)
    BY <2>0 DEF TaskTypes, Frames
  <2>3. TaskTypeOK
    BY <2>0, <2>1, <2>2 DEF TaskTypes, TaskTypeOK
  <2>4. SucceededIsComplete
    <3>1. \A i \in 1..Len(plan) : i \in 1..((Len(plan) + 1) - 1)
      BY <2>0
    <3> QED  BY <2>0, <3>1 DEF ResultsAreTrue, DoneBefore, SucceededIsComplete
  <2> QED  BY <2>0, <2>3, <2>4 DEF HostIsSound, TaskInv
<1> QED  BY <1>1, StepsStart, StepsStep, PTL DEF TaskSpec

-----------------------------------------------------------------------------
(* Files. *)

OpKinds == {"stat", "list", "download", "begin", "chunk", "commit", "abort", "edit", "perm"}
Answers == {"none", "error", "ok", "denied", "conflict", "approval_required"}
Codes == {"ok", "500", "403", "409"}
Chunks == Callers \cup {"old", "edit"}

CallRecs == [kind : {"none", "stat", "list", "download", "upload", "edit", "perm"}, agent : FileAgents \cup {"none"},
             step : OpKinds \cup {"idle", "parked"}, off : Nat, seen : Seq(Chunks), answer : Answers,
             clean : BOOLEAN, number : Nat, approved : BOOLEAN]
Slots == {s \in [n : Nat, state : {"none", "open", "full"}, res : Codes \cup {"none", "closed"},
                 data : Seq(Chunks), done : BOOLEAN] : s.state = "full" => s.res # "none"}
FileOps == [c : Callers, n : Nat, number : Nat, agent : FileAgents, kind : OpKinds, off : Nat, expect : Seq(Chunks)]
Results == [c : Callers, n : Nat, agent : FileAgents, res : Codes, data : Seq(Chunks), done : BOOLEAN]
TempFiles == [agent : FileAgents, c : Callers, number : Nat, data : Seq(Chunks)]
FileVersions == [content : Seq(Chunks), mode : Callers \cup {"old"}]

FileTypes ==
  /\ conn \subseteq FileAgents /\ call \in [Callers -> CallRecs] /\ slot \in [Callers -> Slots]
  /\ down \subseteq FileOps /\ up \subseteq Results /\ edits \subseteq FileOps /\ temps \subseteq TempFiles
  /\ disk \in [FileAgents -> FileVersions] /\ fileCalls \in Nat

\* The steps a call of a kind sends.
StepsOf(kind) == CASE kind = "upload" -> {"begin", "chunk", "commit", "abort"}
                   [] kind = "download" -> {"stat", "download"}
                   [] OTHER -> {kind}

\* A call waits on its slot while, and only while, one of its steps is under way;
\* an upload sends the chunks of its body one by one.
CallShape(c) ==
  /\ IF slot[c].state = "none" THEN call[c].step \in {"idle", "parked"}
     ELSE call[c].step \in StepsOf(call[c].kind)
  /\ call[c].step = "parked" => call[c].kind \in Writes
  /\ call[c].step \in {"begin", "parked"} => call[c].off = 0
  /\ call[c].step = "chunk" => call[c].off \in {0, 1}
  /\ call[c].step = "abort" => call[c].answer = "error"
  /\ call[c].number <= fileCalls

\* An op belongs to a call and a slot that were opened, and one that carries the
\* number of the open slot is the step its caller waits for.
OpIsOwned(o) ==
  /\ o.n <= slot[o.c].n /\ o.number <= fileCalls
  /\ o.number = call[o.c].number => o.agent = call[o.c].agent
  /\ o.n = slot[o.c].n /\ slot[o.c].state # "none" => o.kind = call[o.c].step /\ o.number = call[o.c].number
  /\ o.kind = "chunk" => o.off \in {0, 1}
  /\ o.kind = "commit" => o.off = 2

TempIsOwned(t) ==
  /\ t.number <= fileCalls /\ (t.number = call[t.c].number => t.agent = call[t.c].agent)
  /\ t.data \in {<<>>, <<t.c>>, <<t.c, t.c>>}

OpsAndTemps ==
  /\ \A o \in down : OpIsOwned(o)
  /\ \A o \in edits : OpIsOwned(o) /\ o.kind = "edit"
  /\ \A t \in temps : TempIsOwned(t)
  /\ \A r \in up : r.n <= slot[r.c].n

\* The step a call waits for has been answered, in its slot or on the way to it.
Answered(c, res) ==
  \/ slot[c].state = "full" /\ slot[c].res = res
  \/ slot[c].state = "open" /\ \E r \in up : r.c = c /\ r.n = slot[c].n /\ r.res = res

\* What is answered ok took place.
AnswersAreTrue(c) ==
  Answered(c, "ok") /\ call[c].step \in {"commit", "edit", "perm"} => <<c, call[c].number>> \in applied

OpsOf(c, number) == {o \in down : o.c = c /\ o.number = number}
TempsLeft(c, number) == {t \in temps : t.c = c /\ t.number = number}

\* An upload that has met no fault has one op under way or its answer, never
\* both, and its temp file only between a begin and the commit or abort.
UploadIsClean(c) ==
  call[c].kind = "upload" /\ call[c].clean =>
    LET ops == OpsOf(c, call[c].number)
        left == TempsLeft(c, call[c].number)
    IN  /\ call[c].step \in {"idle", "parked"} => ops = {} /\ left = {}
        /\ \A o \in ops : o.n = slot[c].n /\ ops = {o}
        /\ call[c].step = "begin" /\ ops # {} => left = {}
        /\ \A res \in Codes : Answered(c, res) =>
             /\ ops = {}
             /\ call[c].step = "begin" /\ res # "ok" => left = {}
             /\ call[c].step = "commit" /\ res = "ok" => left = {}
             /\ call[c].step = "abort" => left = {}

CallersInv ==
  /\ FileTypes /\ OpsAndTemps /\ FileIsWhole /\ OkMeansApplied
  /\ \A c \in Callers : CallShape(c) /\ AnswersAreTrue(c) /\ UploadIsClean(c)

\* A stream that ends or returns, and a result that reaches its slot, take away
\* operations and results and answer nothing that was not answered before.
LEMMA FewerKeeps ==
  ASSUME CallersInv, UNCHANGED <<call, edits, disk, temps, applied, fileCalls>>,
         conn' \subseteq FileAgents, down' \subseteq down, up' \subseteq up, slot' \in [Callers -> Slots],
         \A c \in Callers : slot'[c].n = slot[c].n /\ (slot'[c].state = "none" <=> slot[c].state = "none"),
         \A c \in Callers, res \in Codes : Answered(c, res)' => Answered(c, res)
  PROVE  CallersInv'
<1>0. /\ FileTypes /\ OpsAndTemps /\ FileIsWhole /\ OkMeansApplied
      /\ \A c \in Callers : CallShape(c) /\ AnswersAreTrue(c) /\ UploadIsClean(c)
  BY DEF CallersInv
<1>1. FileTypes'
  BY <1>0 DEF FileTypes
<1>2. OpsAndTemps'
  <2>1. \A o \in down \cup edits : o.c \in Callers
    BY <1>0 DEF FileTypes, FileOps
  <2>2. \A r \in up : r.c \in Callers
    BY <1>0 DEF FileTypes, Results
  <2> QED  BY <1>0, <2>1, <2>2 DEF OpsAndTemps, OpIsOwned, TempIsOwned
<1>3. FileIsWhole' /\ OkMeansApplied'
  BY <1>0 DEF FileIsWhole, OkMeansApplied
<1>4. ASSUME NEW c \in Callers PROVE CallShape(c)' /\ AnswersAreTrue(c)' /\ UploadIsClean(c)'
  <2>1. CallShape(c) /\ AnswersAreTrue(c) /\ UploadIsClean(c)
    BY <1>0
  <2>2. CallShape(c)'
    BY <2>1 DEF CallShape
  <2>3. AnswersAreTrue(c)'
    BY <2>1 DEF AnswersAreTrue, Codes
  <2>4. UploadIsClean(c)'
    BY <2>1 DEF UploadIsClean, OpsOf, TempsLeft
  <2> QED  BY <2>2, <2>3, <2>4
<1> QED  BY <1>1, <1>2, <1>3, <1>4 DEF CallersInv

\* The stream and its pending slots.
LEMMA StreamKeeps ==
  ASSUME CallersInv,
         \/ \E a \in FileAgents : StreamTeardown(a) \/ StreamReturns(a)
         \/ \E r \in up : FileOpResultArrives(r)
  PROVE  CallersInv'
<1>0. /\ slot \in [Callers -> Slots] /\ conn \subseteq FileAgents /\ up \subseteq Results
  BY DEF CallersInv, FileTypes
<1>1. ASSUME NEW a \in FileAgents, StreamTeardown(a) PROVE CallersInv'
  <2>1. /\ UNCHANGED <<call, edits, disk, temps, applied, fileCalls>>
        /\ conn' \subseteq FileAgents /\ down' \subseteq down /\ up' \subseteq up
    BY <1>0, <1>1 DEF StreamTeardown, agentDiskVars
  <2>2. PICK late \in SUBSET {c \in Callers : slot[c].state = "full"} :
          slot' = [c \in Callers |-> IF slot[c].state = "open" \/ c \in late
                                     THEN [slot[c] EXCEPT !.state = "full", !.res = "closed"] ELSE slot[c]]
    BY <1>1 DEF StreamTeardown
  <2>3. ASSUME NEW c \in Callers
        PROVE  /\ slot'[c] \in Slots /\ slot'[c].n = slot[c].n
               /\ slot'[c].state = "none" <=> slot[c].state = "none"
               /\ slot'[c] = slot[c] \/ (slot'[c].state = "full" /\ slot'[c].res = "closed")
    <3>1. slot[c] \in Slots
      BY <1>0
    <3>2. CASE slot'[c] = slot[c]
      BY <3>1, <3>2
    <3>3. CASE /\ slot[c].state = "open" \/ c \in late
               /\ slot'[c] = [slot[c] EXCEPT !.state = "full", !.res = "closed"]
      BY <3>1, <3>3 DEF Slots, Codes
    <3> QED  BY <2>2, <3>2, <3>3
  <2>4. slot' \in [Callers -> Slots]
    BY <2>2, <2>3
  <2>5. \A c \in Callers, res \in Codes : Answered(c, res)' => Answered(c, res)
    BY <2>1, <2>3 DEF Answered, Codes
  <2> QED  BY <2>1, <2>3, <2>4, <2>5, FewerKeeps
<1>2. ASSUME NEW a \in FileAgents, StreamReturns(a) PROVE CallersInv'
  <2>1. /\ UNCHANGED <<call, slot, down, up, edits, disk, temps, applied, fileCalls>> /\ conn' \subseteq FileAgents
    BY <1>0, <1>2 DEF StreamReturns, agentDiskVars, callVars
  <2>2. \A c \in Callers, res \in Codes : Answered(c, res)' => Answered(c, res)
    BY <2>1 DEF Answered
  <2> QED  BY <1>0, <2>1, <2>2, FewerKeeps
<1>3. ASSUME NEW r \in up, FileOpResultArrives(r) PROVE CallersInv'
  <2>1. /\ UNCHANGED <<call, conn, down, edits, disk, temps, applied, fileCalls>> /\ up' = up \ {r}
    BY <1>3 DEF FileOpResultArrives, agentDiskVars
  <2>2. r \in Results /\ r.c \in Callers /\ r.res \in Codes /\ slot[r.c] \in Slots
    BY <1>0 DEF Results
  <2>3. CASE /\ slot[r.c].state = "open" /\ slot[r.c].n = r.n
             /\ slot' = [slot EXCEPT ![r.c] = [@ EXCEPT !.state = "full", !.res = r.res, !.data = r.data, !.done = r.done]]
    <3> DEFINE sn == [slot[r.c] EXCEPT !.state = "full", !.res = r.res, !.data = r.data, !.done = r.done]
    <3>0. sn \in Slots /\ sn.state = "full" /\ sn.res = r.res /\ sn.n = slot[r.c].n
      BY <2>2 DEF Slots, Results, Codes
    <3>5. slot' = [slot EXCEPT ![r.c] = sn]
      BY <2>3
    <3> HIDE DEF sn
    <3>1. /\ slot'[r.c] \in Slots /\ slot'[r.c].state = "full" /\ slot'[r.c].res = r.res /\ slot'[r.c].n = slot[r.c].n
          /\ slot' \in [Callers -> Slots]
          /\ \A c \in Callers \ {r.c} : slot'[c] = slot[c]
      BY <1>0, <2>2, <3>0, <3>5
    <3>2. \A c \in Callers, res \in Codes : Answered(c, res)' => Answered(c, res)
      <4>1. Answered(r.c, r.res)
        BY <2>3 DEF Answered
      <4>2. \A res \in Codes : Answered(r.c, res)' => Answered(r.c, res)
        BY <3>1, <4>1 DEF Answered
      <4>3. \A c \in Callers \ {r.c}, res \in Codes : Answered(c, res)' => Answered(c, res)
        BY <2>1, <3>1 DEF Answered
      <4> QED  BY <4>2, <4>3
    <3>3. \A c \in Callers : slot'[c].n = slot[c].n /\ (slot'[c].state = "none" <=> slot[c].state = "none")
      BY <2>3, <3>1
    <3>4. conn' \subseteq FileAgents /\ down' \subseteq down /\ up' \subseteq up
      BY <1>0, <2>1
    <3> QED  BY <2>1, <3>1, <3>2, <3>3, <3>4, FewerKeeps
  <2>4. CASE slot' = slot
    <3>1. \A c \in Callers, res \in Codes : Answered(c, res)' => Answered(c, res)
      BY <2>1, <2>4 DEF Answered
    <3> QED  BY <1>0, <2>1, <2>4, <3>1, FewerKeeps
  <2> QED  BY <1>3, <2>3, <2>4 DEF FileOpResultArrives, SlotTakes
<1> QED  BY <1>1, <1>2, <1>3

\* What a caller turns to next is the call it was at, or a new one.
Fits(c, cl) ==
  /\ cl \in CallRecs /\ cl.number <= fileCalls'
  /\ \A o \in down \cup edits : o.c = c /\ o.number = cl.number => o.agent = cl.agent
  /\ \A t \in temps : t.c = c /\ t.number = cl.number => t.agent = cl.agent

\* An upload that has met no fault has nothing under way and nothing left.
NothingLeft(c, cl) ==
  cl.kind = "upload" /\ cl.clean => OpsOf(c, cl.number) = {} /\ TempsLeft(c, cl.number) = {}

\* A call that ends, is parked or never begins, is answered truly and has
\* cleaned up.
LEMMA EndKeeps ==
  ASSUME CallersInv, NEW c \in Callers, NEW cl, Fits(c, cl), fileCalls' \in Nat, fileCalls <= fileCalls',
         UNCHANGED <<conn, down, up, edits, disk, temps, applied>>,
         call' = [call EXCEPT ![c] = cl], slot' = [slot EXCEPT ![c].state = "none"],
         cl.step \in {"idle", "parked"}, cl.step = "parked" => cl.off = 0 /\ cl.kind \in Writes,
         NothingLeft(c, cl),
         cl.answer = "ok" /\ cl.step = "idle" /\ cl.kind \in Writes => <<c, cl.number>> \in applied
  PROVE  CallersInv'
<1>0. /\ FileTypes /\ OpsAndTemps /\ FileIsWhole /\ OkMeansApplied
      /\ \A d \in Callers : CallShape(d) /\ AnswersAreTrue(d) /\ UploadIsClean(d)
      /\ call \in [Callers -> CallRecs] /\ slot \in [Callers -> Slots] /\ cl \in CallRecs /\ fileCalls \in Nat
  BY DEF CallersInv, FileTypes, Fits
<1>1. /\ call' \in [Callers -> CallRecs] /\ slot' \in [Callers -> Slots]
      /\ call'[c] = cl /\ slot'[c].state = "none" /\ slot'[c].n = slot[c].n
      /\ \A d \in Callers \ {c} : call'[d] = call[d] /\ slot'[d] = slot[d]
  <2>1. slot[c] \in Slots /\ [slot[c] EXCEPT !.state = "none"] \in Slots
    BY <1>0 DEF Slots
  <2> QED  BY <1>0, <2>1 DEF Slots
<1>2. FileTypes'
  BY <1>0, <1>1 DEF FileTypes
<1>3. OpsAndTemps'
  <2>1. ASSUME NEW o \in down \cup edits PROVE OpIsOwned(o)'
    <3>1. o.c \in Callers /\ OpIsOwned(o) /\ o.number \in Nat
      BY <1>0 DEF FileTypes, FileOps, OpsAndTemps
    <3>2. CASE o.c = c
      BY <1>0, <1>1, <3>1, <3>2 DEF OpIsOwned, Fits
    <3>3. CASE o.c # c
      BY <1>0, <1>1, <3>1, <3>3 DEF OpIsOwned
    <3> QED  BY <3>2, <3>3
  <2>2. ASSUME NEW t \in temps PROVE TempIsOwned(t)'
    <3>1. t.c \in Callers /\ TempIsOwned(t) /\ t.number \in Nat
      BY <1>0 DEF FileTypes, TempFiles, OpsAndTemps
    <3>2. CASE t.c = c
      BY <1>0, <1>1, <3>1, <3>2 DEF TempIsOwned, Fits
    <3>3. CASE t.c # c
      BY <1>0, <1>1, <3>1, <3>3 DEF TempIsOwned
    <3> QED  BY <3>2, <3>3
  <2>3. \A r \in up : r.n <= slot'[r.c].n
    <3>1. \A r \in up : r.c \in Callers
      BY <1>0 DEF FileTypes, Results
    <3> QED  BY <1>0, <1>1, <3>1 DEF OpsAndTemps
  <2> QED  BY <1>0, <2>1, <2>2, <2>3 DEF OpsAndTemps
<1>4. FileIsWhole' /\ OkMeansApplied'
  BY <1>0, <1>1 DEF FileIsWhole, OkMeansApplied
<1>5. ASSUME NEW d \in Callers PROVE CallShape(d)' /\ AnswersAreTrue(d)' /\ UploadIsClean(d)'
  <2>1. CASE d = c
    <3>1. CallShape(d)'
      BY <1>0, <1>1, <2>1 DEF CallShape, Fits
    <3>2. \A res : ~ Answered(d, res)'
      BY <1>1, <2>1 DEF Answered
    <3>3. AnswersAreTrue(d)'
      BY <3>2 DEF AnswersAreTrue
    <3>4. UploadIsClean(d)'
      BY <1>1, <2>1, <3>2 DEF UploadIsClean, NothingLeft, OpsOf, TempsLeft
    <3> QED  BY <3>1, <3>3, <3>4
  <2>2. CASE d # c
    <3>1. call'[d] = call[d] /\ slot'[d] = slot[d] /\ CallShape(d) /\ AnswersAreTrue(d) /\ UploadIsClean(d)
      BY <1>0, <1>1, <2>2
    <3>2. \A res : Answered(d, res)' <=> Answered(d, res)
      BY <3>1 DEF Answered
    <3>3. call[d].number \in Nat
      BY <1>0 DEF CallRecs
    <3>4. CallShape(d)'
      BY <1>0, <3>1, <3>3 DEF CallShape
    <3>5. AnswersAreTrue(d)'
      BY <3>1, <3>2 DEF AnswersAreTrue
    <3>6. UploadIsClean(d)'
      BY <3>1, <3>2 DEF UploadIsClean, OpsOf, TempsLeft
    <3> QED  BY <3>4, <3>5, <3>6
  <2> QED  BY <2>1, <2>2
<1> QED  BY <1>2, <1>3, <1>4, <1>5 DEF CallersInv

\* A step that is sent opens a slot of a new number, for which nothing has
\* been answered yet.
LEMMA SlotOpens ==
  ASSUME CallersInv, NEW c \in Callers, NEW cn, Fits(c, cn), fileCalls' \in Nat, fileCalls <= fileCalls',
         NEW new \in FileOps, NEW sn \in Slots,
         cn.step \in OpKinds, cn.step \in StepsOf(cn.kind), cn.agent \in conn,
         UNCHANGED <<conn, up, edits, disk, temps, applied>>,
         call' = [call EXCEPT ![c] = cn], slot' = [slot EXCEPT ![c] = sn], down' = down \cup {new},
         sn.n = slot[c].n + 1, sn.state = "open",
         new.c = c, new.n = sn.n, new.number = cn.number, new.agent = cn.agent, new.kind = cn.step, new.off = cn.off,
         cn.step = "begin" => cn.off = 0, cn.step = "chunk" => cn.off \in {0, 1}, cn.step = "commit" => cn.off = 2,
         cn.step = "abort" => cn.answer = "error",
         cn.kind = "upload" /\ cn.clean =>
           OpsOf(c, cn.number) = {} /\ (cn.step = "begin" => TempsLeft(c, cn.number) = {})
  PROVE  CallersInv'
<1>0. /\ FileTypes /\ OpsAndTemps /\ FileIsWhole /\ OkMeansApplied
      /\ \A d \in Callers : CallShape(d) /\ AnswersAreTrue(d) /\ UploadIsClean(d)
      /\ call \in [Callers -> CallRecs] /\ slot \in [Callers -> Slots] /\ cn \in CallRecs /\ fileCalls \in Nat
      /\ conn \subseteq FileAgents
  BY DEF CallersInv, FileTypes, Fits
<1>1. slot[c].n \in Nat
  BY <1>0 DEF Slots
<1>6. /\ call' \in [Callers -> CallRecs] /\ slot' \in [Callers -> Slots]
      /\ call'[c] = cn /\ slot'[c] = sn
      /\ \A d \in Callers \ {c} : call'[d] = call[d] /\ slot'[d] = slot[d]
  BY <1>0
<1>7. FileTypes'
  BY <1>0, <1>6 DEF FileTypes
<1>8. OpsAndTemps'
  <2>1. ASSUME NEW o \in down \cup edits PROVE OpIsOwned(o)'
    <3>1. o.c \in Callers /\ OpIsOwned(o) /\ o.number \in Nat /\ o.n \in Nat
      BY <1>0 DEF FileTypes, FileOps, OpsAndTemps
    <3>2. CASE o.c = c
      BY <1>0, <1>1, <1>6, <3>1, <3>2 DEF OpIsOwned, Fits
    <3>3. CASE o.c # c
      BY <1>0, <1>6, <3>1, <3>3 DEF OpIsOwned
    <3> QED  BY <3>2, <3>3
  <2>2. OpIsOwned(new)'
    BY <1>1, <1>6 DEF OpIsOwned, Fits
  <2>3. ASSUME NEW t \in temps PROVE TempIsOwned(t)'
    <3>1. t.c \in Callers /\ TempIsOwned(t) /\ t.number \in Nat
      BY <1>0 DEF FileTypes, TempFiles, OpsAndTemps
    <3>2. CASE t.c = c
      BY <1>0, <1>6, <3>1, <3>2 DEF TempIsOwned, Fits
    <3>3. CASE t.c # c
      BY <1>0, <1>6, <3>1, <3>3 DEF TempIsOwned
    <3> QED  BY <3>2, <3>3
  <2>4. ASSUME NEW r \in up PROVE r.n <= slot'[r.c].n
    <3>1. r.c \in Callers /\ r.n \in Nat /\ r.n <= slot[r.c].n /\ slot[r.c].n \in Nat
      BY <1>0 DEF FileTypes, Results, OpsAndTemps, Slots
    <3> QED  BY <1>1, <1>6, <3>1
  <2> QED  BY <1>0, <2>1, <2>2, <2>3, <2>4 DEF OpsAndTemps
<1>9. FileIsWhole' /\ OkMeansApplied'
  <2>1. cn.step # "idle"
    BY DEF OpKinds
  <2> QED  BY <1>0, <1>6, <2>1 DEF FileIsWhole, OkMeansApplied
<1>10. ASSUME NEW d \in Callers PROVE CallShape(d)' /\ AnswersAreTrue(d)' /\ UploadIsClean(d)'
  <2>1. CASE d = c
    <3>1. CallShape(d)'
      BY <1>0, <1>6, <2>1 DEF CallShape, Fits, OpKinds
    <3>2. \A res : ~ Answered(d, res)'
      <4>1. \A r \in up : r.c = c => r.n # slot[c].n + 1
        <5>1. \A r \in up : r.n \in Nat /\ r.n <= slot[r.c].n
          BY <1>0 DEF FileTypes, Results, OpsAndTemps
        <5> QED  BY <1>1, <5>1
      <4> QED  BY <1>6, <2>1, <4>1 DEF Answered
    <3>3. AnswersAreTrue(d)'
      BY <3>2 DEF AnswersAreTrue
    <3>4. UploadIsClean(d)'
      <4> SUFFICES ASSUME cn.kind = "upload", cn.clean
                   PROVE  UploadIsClean(d)'
        BY <1>6, <2>1 DEF UploadIsClean
      <4>1. OpsOf(c, cn.number)' = {new} /\ (cn.step = "begin" => TempsLeft(c, cn.number)' = {})
        BY DEF OpsOf, TempsLeft
      <4>2. cn.step \notin {"idle", "parked"}
        BY DEF OpKinds
      <4>3. /\ {o \in down' : o.c = c /\ o.number = cn.number} = {new}
            /\ cn.step = "begin" => {t \in temps' : t.c = c /\ t.number = cn.number} = {}
        BY <4>1 DEF OpsOf, TempsLeft
      <4> QED  BY <1>6, <2>1, <3>2, <4>2, <4>3 DEF UploadIsClean, OpsOf, TempsLeft
    <3> QED  BY <3>1, <3>3, <3>4
  <2>2. CASE d # c
    <3>1. call'[d] = call[d] /\ slot'[d] = slot[d] /\ CallShape(d) /\ AnswersAreTrue(d) /\ UploadIsClean(d)
      BY <1>0, <1>6, <2>2
    <3>2. \A res : Answered(d, res)' <=> Answered(d, res)
      BY <3>1 DEF Answered
    <3>3. call[d].number \in Nat /\ {o \in down' : o.c = d /\ o.number = call[d].number}
                                    = {o \in down : o.c = d /\ o.number = call[d].number}
      BY <1>0, <2>2 DEF CallRecs
    <3>4. CallShape(d)'
      BY <1>0, <3>1, <3>3 DEF CallShape
    <3>5. AnswersAreTrue(d)'
      BY <3>1, <3>2 DEF AnswersAreTrue
    <3>6. UploadIsClean(d)'
      BY <3>1, <3>2, <3>3 DEF UploadIsClean, OpsOf, TempsLeft
    <3> QED  BY <3>4, <3>5, <3>6
  <2> QED  BY <2>1, <2>2
<1> QED  BY <1>7, <1>8, <1>9, <1>10 DEF CallersInv

\* A slot is opened empty.
LEMMA OpenSlot ==
  ASSUME NEW m \in Nat
  PROVE  /\ [NoSlot EXCEPT !.n = m, !.state = "open"] \in Slots
         /\ [NoSlot EXCEPT !.n = m, !.state = "open"].n = m
         /\ [NoSlot EXCEPT !.n = m, !.state = "open"].state = "open"
<1>1. <<>> \in Seq(Chunks)
  OBVIOUS
<1>2. NoSlot \in Slots
  BY <1>1 DEF NoSlot, Slots
<1> QED  BY <1>2 DEF Slots

\* A step is sent to an agent that has a session, or the call fails at once.
LEMMA SendKeeps ==
  ASSUME CallersInv, NEW c \in Callers, NEW cl, Fits(c, cl), fileCalls' \in Nat, fileCalls <= fileCalls',
         NEW kind \in OpKinds, kind \in StepsOf(cl.kind), SendFileOp(c, cl, kind),
         UNCHANGED <<conn, up, edits, disk, temps, applied>>,
         kind = "begin" => cl.off = 0, kind = "chunk" => cl.off \in {0, 1}, kind = "commit" => cl.off = 2,
         kind = "abort" => cl.answer = "error",
         cl.kind = "upload" /\ cl.clean =>
           OpsOf(c, cl.number) = {} /\ (kind = "begin" => TempsLeft(c, cl.number) = {})
  PROVE  CallersInv'
<1>0. cl \in CallRecs /\ slot[c] \in Slots /\ conn \subseteq FileAgents
  BY DEF Fits, CallersInv, FileTypes
<1>1. CASE cl.agent \in conn
  <2> DEFINE new == [c |-> c, n |-> slot[c].n + 1, number |-> cl.number, agent |-> cl.agent, kind |-> kind,
                     off |-> cl.off, expect |-> cl.seen]
             cn == [cl EXCEPT !.step = kind]
             sn == [NoSlot EXCEPT !.n = slot[c].n + 1, !.state = "open"]
  <2>1. slot[c].n \in Nat
    BY <1>0 DEF Slots
  <2>2. /\ new \in FileOps /\ new.c = c /\ new.n = slot[c].n + 1 /\ new.number = cl.number /\ new.agent = cl.agent
        /\ new.kind = kind /\ new.off = cl.off
    BY <1>0, <1>1, <2>1 DEF FileOps, CallRecs
  <2>3. /\ cn \in CallRecs /\ cn.step = kind /\ cn.kind = cl.kind /\ cn.agent = cl.agent /\ cn.number = cl.number
        /\ cn.off = cl.off /\ cn.answer = cl.answer /\ cn.clean = cl.clean
    BY <1>0 DEF CallRecs
  <2>4. sn \in Slots /\ sn.n = slot[c].n + 1 /\ sn.state = "open"
    <3>1. slot[c].n + 1 \in Nat
      BY <2>1
    <3> QED  BY <3>1, OpenSlot
  <2>5. down' = down \cup {new} /\ call' = [call EXCEPT ![c] = cn] /\ slot' = [slot EXCEPT ![c] = sn]
    BY <1>1 DEF SendFileOp
  <2> HIDE DEF new, cn, sn
  <2>6. Fits(c, cn)
    BY <2>3 DEF Fits
  <2> QED  BY <1>1, <2>2, <2>3, <2>4, <2>5, <2>6, SlotOpens
<1>2. CASE cl.agent \notin conn
  <2> DEFINE cn == [cl EXCEPT !.step = "idle", !.answer = "error", !.clean = FALSE]
  <2>1. /\ cn \in CallRecs /\ cn.step = "idle" /\ cn.agent = cl.agent /\ cn.number = cl.number
        /\ cn.answer = "error" /\ ~ cn.clean
    BY <1>0 DEF CallRecs, Answers
  <2>2. call' = [call EXCEPT ![c] = cn] /\ slot' = [slot EXCEPT ![c].state = "none"] /\ down' = down
    BY <1>2 DEF SendFileOp
  <2> HIDE DEF cn
  <2>3. Fits(c, cn) /\ NothingLeft(c, cn)
    BY <2>1 DEF Fits, NothingLeft
  <2> QED  BY <2>1, <2>2, <2>3, EndKeeps
<1> QED  BY <1>1, <1>2

\* A call that goes on keeps its number and its agent.
LEMMA StillFits ==
  ASSUME CallersInv, fileCalls' = fileCalls, NEW c \in Callers, NEW cl \in CallRecs,
         cl.number = call[c].number, cl.agent = call[c].agent
  PROVE  Fits(c, cl) /\ fileCalls' \in Nat /\ fileCalls <= fileCalls'
<1>1. fileCalls \in Nat /\ cl.number <= fileCalls
  BY DEF CallersInv, FileTypes, CallShape
<1>2. \A o \in down \cup edits : o.c = c /\ o.number = cl.number => o.agent = cl.agent
  BY DEF CallersInv, OpsAndTemps, OpIsOwned
<1>3. \A t \in temps : t.c = c /\ t.number = cl.number => t.agent = cl.agent
  BY DEF CallersInv, OpsAndTemps, TempIsOwned
<1> QED  BY <1>1, <1>2, <1>3 DEF Fits

\* A new call has a number that nothing carries yet.
LEMMA NewCallFits ==
  ASSUME CallersInv, fileCalls' = fileCalls + 1, NEW c \in Callers, NEW cl \in CallRecs, cl.number = fileCalls + 1
  PROVE  /\ Fits(c, cl) /\ fileCalls' \in Nat /\ fileCalls <= fileCalls'
         /\ OpsOf(c, cl.number) = {} /\ TempsLeft(c, cl.number) = {}
<1>1. fileCalls \in Nat
  BY DEF CallersInv, FileTypes
<1>2. \A o \in down \cup edits : o.number <= fileCalls /\ o.number \in Nat
  BY DEF CallersInv, OpsAndTemps, OpIsOwned, FileTypes, FileOps
<1>3. \A t \in temps : t.number <= fileCalls /\ t.number \in Nat
  BY DEF CallersInv, OpsAndTemps, TempIsOwned, FileTypes, TempFiles
<1> QED  BY <1>1, <1>2, <1>3 DEF Fits, OpsOf, TempsLeft

\* Where a caller is idle or parked, its slot is closed.
LEMMA IdleSlot ==
  ASSUME CallersInv, NEW c \in Callers, call[c].step \in {"idle", "parked"}
  PROVE  slot[c].state = "none" /\ slot = [slot EXCEPT ![c].state = "none"]
<1>1. /\ slot \in [Callers -> Slots] /\ slot[c] \in Slots
      /\ slot[c].state # "none" => call[c].step \in StepsOf(call[c].kind)
      /\ call[c] \in CallRecs
  BY DEF CallersInv, FileTypes, CallShape
<1>2. StepsOf(call[c].kind) \cap {"idle", "parked"} = {}
  BY <1>1 DEF StepsOf, CallRecs
<1>3. slot[c].state = "none"
  BY <1>1, <1>2
<1>4. [slot[c] EXCEPT !.state = "none"] = slot[c]
  BY <1>1, <1>3 DEF Slots
<1> QED  BY <1>1, <1>3, <1>4

\* A call begins, unless the rules hold it or deny it.
LEMMA BeginsKeeps ==
  ASSUME CallersInv, NEW c \in Callers, NEW a \in FileAgents, FileRead(c, a) \/ FileWrite(c, a)
  PROVE  CallersInv'
<1>0. /\ call[c].step = "idle" /\ fileCalls' = fileCalls + 1 /\ UNCHANGED <<conn, up, edits, disk, temps, applied>>
      /\ fileCalls \in Nat /\ call[c] \in CallRecs
      /\ slot = [slot EXCEPT ![c].state = "none"]
  BY IdleSlot DEF FileRead, FileWrite, Begins, agentDiskVars, CallersInv, FileTypes
<1>1. ASSUME NEW kind \in {"stat", "list", "download", "upload", "edit", "perm"}
      PROVE  /\ NewCall(c, a, kind) \in CallRecs
             /\ NewCall(c, a, kind).kind = kind /\ NewCall(c, a, kind).agent = a
             /\ NewCall(c, a, kind).number = fileCalls + 1 /\ NewCall(c, a, kind).step = "idle"
             /\ NewCall(c, a, kind).off = 0 /\ NewCall(c, a, kind).answer = "none"
  <2>1. <<>> \in Seq(Chunks) /\ fileCalls + 1 \in Nat
    BY <1>0
  <2> QED  BY <2>1 DEF NewCall, NoCall, CallRecs, Answers
<1>2. ASSUME NEW cl \in CallRecs, cl.number = fileCalls + 1, cl.off = 0,
             NEW kind \in OpKinds, kind \in StepsOf(cl.kind), SendFileOp(c, cl, kind),
             kind \notin {"chunk", "commit", "abort"}
      PROVE  CallersInv'
  BY <1>0, <1>2, NewCallFits, SendKeeps
<1>3. ASSUME NEW cl \in CallRecs, cl.number = fileCalls + 1, cl.off = 0, cl.step = "idle", cl.kind \in Writes,
             cl.answer = "none",
             NEW kind \in {"begin", "edit", "perm"}, kind \in StepsOf(cl.kind), policyGate(c, cl, kind)
      PROVE  CallersInv'
  <2>1. CASE SendFileOp(c, cl, kind)
    BY <1>2, <1>3, <2>1 DEF OpKinds
  <2>2. ASSUME NEW cn \in CallRecs, cn.number = fileCalls + 1, cn.off = 0, cn.kind \in Writes, cn.step \in {"idle", "parked"},
               cn.answer # "ok", call' = [call EXCEPT ![c] = cn], UNCHANGED <<slot, down>>
        PROVE  CallersInv'
    <3>1. Fits(c, cn) /\ fileCalls' \in Nat /\ fileCalls <= fileCalls' /\ NothingLeft(c, cn)
      BY <1>0, <2>2, NewCallFits DEF NothingLeft
    <3> QED  BY <1>0, <2>2, <3>1, EndKeeps
  <2>3. ASSUME NEW answer \in Answers \ {"ok"}, call' = [call EXCEPT ![c] = [cl EXCEPT !.answer = answer]],
               UNCHANGED <<slot, down>>
        PROVE  CallersInv'
    <3> DEFINE cn == [cl EXCEPT !.answer = answer]
    <3>1. cn \in CallRecs /\ cn.number = cl.number /\ cn.off = cl.off /\ cn.step = cl.step /\ cn.answer = answer
          /\ cn.kind = cl.kind
      BY DEF CallRecs
    <3> HIDE DEF cn
    <3> QED  BY <1>3, <2>2, <2>3, <3>1 DEF cn
  <2>4. CASE park(c, cl) /\ UNCHANGED <<slot, down>>
    <3> DEFINE cn == [cl EXCEPT !.step = "parked"]
    <3>1. cn \in CallRecs /\ cn.number = cl.number /\ cn.off = cl.off /\ cn.step = "parked" /\ cn.answer = cl.answer
          /\ cn.kind = cl.kind
      BY DEF CallRecs
    <3>2. call' = [call EXCEPT ![c] = cn]
      BY <2>4 DEF park
    <3> HIDE DEF cn
    <3> QED  BY <1>3, <2>2, <2>4, <3>1, <3>2
  <2> QED  BY <1>3, <2>1, <2>3, <2>4 DEF policyGate, stageBodyFails, parkFails, Answers
<1>4. CASE fileStat(c, a) \/ fileList(c, a) \/ fileDownload(c, a)
  BY <1>1, <1>2, <1>4 DEF fileStat, fileList, fileDownload, StepsOf, OpKinds
<1>5. CASE fileUpload(c, a) \/ filePerm(c, a)
  BY <1>1, <1>3, <1>5 DEF fileUpload, filePerm, StepsOf, Writes
<1>6. CASE fileEdit(c, a)
  <2> DEFINE cl == [NewCall(c, a, "edit") EXCEPT !.seen = call[c].seen]
  <2>1. cl \in CallRecs /\ cl.number = fileCalls + 1 /\ cl.off = 0 /\ cl.step = "idle" /\ cl.kind = "edit" /\ cl.answer = "none"
    <3>1. call[c].seen \in Seq(Chunks) /\ NewCall(c, a, "edit") \in CallRecs
      BY <1>0, <1>1 DEF CallRecs
    <3> QED  BY <1>1, <3>1 DEF CallRecs
  <2>2. policyGate(c, cl, "edit")
    BY <1>6 DEF fileEdit
  <2> HIDE DEF cl
  <2> QED  BY <1>3, <2>1, <2>2 DEF StepsOf, Writes
<1> QED  BY <1>4, <1>5, <1>6 DEF FileRead, FileWrite

\* The next step of a call that was answered.
LEMMA GoesOn ==
  ASSUME CallersInv, NEW c \in Callers, UNCHANGED <<conn, up, edits, disk, temps, applied, fileCalls>>,
         NEW cl \in CallRecs, cl.number = call[c].number, cl.agent = call[c].agent,
         NEW kind \in OpKinds, kind \in StepsOf(cl.kind), SendFileOp(c, cl, kind),
         kind = "begin" => cl.off = 0, kind = "chunk" => cl.off \in {0, 1}, kind = "commit" => cl.off = 2,
         kind = "abort" => cl.answer = "error",
         cl.kind = "upload" /\ cl.clean =>
           OpsOf(c, cl.number) = {} /\ (kind = "begin" => TempsLeft(c, cl.number) = {})
  PROVE  CallersInv'
BY StillFits, SendKeeps

\* The end of a call that was answered.
LEMMA ComesToEnd ==
  ASSUME CallersInv, NEW c \in Callers, UNCHANGED <<conn, up, edits, disk, temps, applied, fileCalls, down>>,
         NEW cl \in CallRecs, cl.number = call[c].number, cl.agent = call[c].agent,
         call' = [call EXCEPT ![c] = cl], slot' = [slot EXCEPT ![c].state = "none"],
         cl.step = "idle", NothingLeft(c, cl),
         cl.answer = "ok" /\ cl.kind \in Writes => <<c, cl.number>> \in applied
  PROVE  CallersInv'
BY StillFits, EndKeeps

\* Ends changes the answer and forgets what was seen.
LEMMA EndsEnds ==
  ASSUME CallersInv, NEW c \in Callers, UNCHANGED <<conn, up, edits, disk, temps, applied, fileCalls>>,
         NEW answer \in Answers, Ends(c, answer), NothingLeft(c, call[c]),
         answer = "ok" /\ call[c].kind \in Writes => <<c, call[c].number>> \in applied
  PROVE  CallersInv'
<1> DEFINE cl == [call[c] EXCEPT !.step = "idle", !.answer = answer, !.off = 0, !.seen = <<>>]
<1>1. call[c] \in CallRecs /\ <<>> \in Seq(Chunks)
  BY DEF CallersInv, FileTypes
<1>2. /\ cl \in CallRecs /\ cl.number = call[c].number /\ cl.agent = call[c].agent /\ cl.step = "idle"
      /\ cl.kind = call[c].kind /\ cl.clean = call[c].clean /\ cl.answer = answer
  BY <1>1 DEF CallRecs
<1>3. call' = [call EXCEPT ![c] = cl] /\ slot' = [slot EXCEPT ![c].state = "none"] /\ down' = down
  BY DEF Ends
<1> HIDE DEF cl
<1>4. NothingLeft(c, cl)
  BY <1>2 DEF NothingLeft
<1> QED  BY <1>2, <1>3, <1>4, ComesToEnd

\* An approved write is sent again, a refused one ends.
LEMMA ApprovalKeeps ==
  ASSUME CallersInv, NEW c \in Callers, DispatchApprovedFileOp(c) \/ ApprovalRefused(c)
  PROVE  CallersInv'
<1>1. /\ call[c].step = "parked" /\ UNCHANGED <<conn, up, edits, disk, temps, applied, fileCalls>>
      /\ call[c] \in CallRecs /\ CallShape(c) /\ UploadIsClean(c)
  BY DEF DispatchApprovedFileOp, ApprovalRefused, agentDiskVars, CallersInv, FileTypes
<1>2. NothingLeft(c, call[c]) /\ call[c].kind \in Writes /\ call[c].off = 0
  BY <1>1 DEF NothingLeft, UploadIsClean, CallShape
<1>3. CASE DispatchApprovedFileOp(c)
  <2> DEFINE cl == [call[c] EXCEPT !.approved = TRUE]
             kind == IF call[c].kind = "upload" THEN "begin" ELSE call[c].kind
  <2>1. /\ cl \in CallRecs /\ cl.number = call[c].number /\ cl.agent = call[c].agent /\ cl.kind = call[c].kind
        /\ cl.clean = call[c].clean /\ cl.off = 0
    BY <1>1, <1>2 DEF CallRecs
  <2>2. kind \in {"begin", "edit", "perm"} /\ kind \in StepsOf(cl.kind) /\ kind \in OpKinds
    BY <1>2, <2>1 DEF Writes, StepsOf, OpKinds
  <2>3. SendFileOp(c, cl, kind)
    BY <1>3 DEF DispatchApprovedFileOp
  <2> HIDE DEF cl, kind
  <2> QED  BY <1>1, <1>2, <2>1, <2>2, <2>3, GoesOn DEF NothingLeft
<1>4. CASE ApprovalRefused(c)
  BY <1>1, <1>2, <1>4, EndsEnds DEF ApprovalRefused, Answers
<1> QED  BY <1>3, <1>4

\* The wait for a step ends without an answer.
LEMMA WaitFailedKeeps ==
  ASSUME CallersInv, NEW c \in Callers, FileOpTimesOut(c) \/ WaitSeesClose(c)
  PROVE  CallersInv'
<1>1. /\ WaitFailed(c) /\ UNCHANGED <<conn, up, edits, disk, temps, applied, fileCalls>> /\ call[c] \in CallRecs
  BY DEF FileOpTimesOut, WaitSeesClose, agentDiskVars, CallersInv, FileTypes
<1> DEFINE cl == [call[c] EXCEPT !.clean = FALSE, !.answer = "error"]
           cn == [cl EXCEPT !.step = "idle"]
<1>2. /\ cl \in CallRecs /\ cl.number = call[c].number /\ cl.agent = call[c].agent /\ cl.kind = call[c].kind
      /\ ~ cl.clean /\ cl.answer = "error"
  BY <1>1 DEF CallRecs, Answers
<1>3. /\ cn \in CallRecs /\ cn.number = call[c].number /\ cn.agent = call[c].agent /\ cn.step = "idle"
      /\ ~ cn.clean /\ cn.answer = "error"
  BY <1>1 DEF CallRecs, Answers
<1>4. \/ call[c].kind = "upload" /\ SendFileOp(c, cl, "abort")
      \/ call' = [call EXCEPT ![c] = cn] /\ slot' = [slot EXCEPT ![c].state = "none"] /\ down' = down
  BY <1>1 DEF WaitFailed
<1> HIDE DEF cl, cn
<1>5. CASE call[c].kind = "upload" /\ SendFileOp(c, cl, "abort")
  BY <1>1, <1>2, <1>5, GoesOn DEF StepsOf, OpKinds
<1>6. CASE call' = [call EXCEPT ![c] = cn] /\ slot' = [slot EXCEPT ![c].state = "none"] /\ down' = down
  <2>1. NothingLeft(c, cn)
    BY <1>3 DEF NothingLeft
  <2> QED  BY <1>1, <1>3, <1>6, <2>1, ComesToEnd
<1> QED  BY <1>4, <1>5, <1>6

\* The waiter reads the answer of its step, and goes on or ends the call.
LEMMA WaitKeeps ==
  ASSUME CallersInv, NEW c \in Callers, WaitFileResult(c)
  PROVE  CallersInv'
<1> DEFINE res == slot[c].res
           cl == call[c]
<1>0. /\ UNCHANGED <<conn, up, edits, disk, temps, applied, fileCalls>> /\ slot[c].state = "full" /\ res # "closed"
      /\ cl \in CallRecs /\ slot[c] \in Slots /\ CallShape(c) /\ AnswersAreTrue(c) /\ UploadIsClean(c)
  BY DEF WaitFileResult, agentDiskVars, CallersInv, FileTypes
<1>1. cl.step \in StepsOf(cl.kind) /\ res \in Codes /\ <<>> \in Seq(Chunks) /\ slot[c].data \in Seq(Chunks)
  BY <1>0 DEF CallShape, Slots
<1>2. Answered(c, res) /\ (res = "ok" /\ cl.step \in {"commit", "edit", "perm"} => <<c, cl.number>> \in applied)
  BY <1>0 DEF Answered, AnswersAreTrue
<1>3. cl.kind = "upload" /\ cl.clean =>
        /\ OpsOf(c, cl.number) = {}
        /\ cl.step = "begin" /\ res # "ok" => TempsLeft(c, cl.number) = {}
        /\ cl.step = "commit" /\ res = "ok" => TempsLeft(c, cl.number) = {}
        /\ cl.step = "abort" => TempsLeft(c, cl.number) = {}
  BY <1>0, <1>1, <1>2 DEF UploadIsClean
<1>4. opStateForCode(res) \in Answers /\ (opStateForCode(res) = "ok" <=> res = "ok")
  BY <1>1 DEF opStateForCode, Codes, Answers
<1>5. CASE cl.step = "abort"
  <2>0. cl.kind = "upload"
    BY <1>0, <1>1, <1>5 DEF StepsOf, CallRecs
  <2>1. Ends(c, cl.answer)
    BY <1>5, <2>0 DEF WaitFileResult
  <2>2. cl.answer = "error" /\ NothingLeft(c, cl)
    BY <1>0, <1>3, <1>5 DEF NothingLeft, CallShape
  <2> QED  BY <1>0, <2>1, <2>2, EndsEnds DEF Answers
<1>6. CASE cl.step # "abort" /\ cl.kind = "upload"
  <2>0. Upload(c) /\ cl.step \in {"begin", "chunk", "commit"}
    BY <1>0, <1>1, <1>6 DEF WaitFileResult, StepsOf
  <2>1. CASE res # "ok" /\ cl.step = "begin" /\ ~ cl.approved
    <3>1. Ends(c, opStateForCode(res)) /\ NothingLeft(c, cl)
      BY <1>3, <2>0, <2>1 DEF Upload, UploadFailed, NothingLeft
    <3> QED  BY <1>0, <1>4, <2>1, <3>1, EndsEnds
  <2>2. CASE res # "ok" /\ ~ (cl.step = "begin" /\ ~ cl.approved)
    <3> DEFINE cn == [call[c] EXCEPT !.answer = "error"]
    <3>1. /\ cn \in CallRecs /\ cn.number = cl.number /\ cn.agent = cl.agent /\ cn.kind = cl.kind
          /\ cn.clean = cl.clean /\ cn.answer = "error"
      BY <1>0 DEF CallRecs, Answers
    <3>2. SendFileOp(c, cn, "abort")
      BY <2>0, <2>2 DEF Upload, UploadFailed, abort
    <3> HIDE DEF cn
    <3>3. "abort" \in StepsOf(cn.kind) /\ "abort" \in OpKinds
      BY <1>6, <3>1 DEF StepsOf, OpKinds
    <3> QED  BY <1>0, <1>3, <3>1, <3>2, <3>3, GoesOn
  <2>3. CASE res = "ok" /\ cl.step = "begin"
    <3>1. SendFileOp(c, call[c], "chunk") /\ cl.off = 0
      BY <1>0, <2>0, <2>3 DEF Upload, CallShape
    <3>2. "chunk" \in StepsOf(cl.kind) /\ "chunk" \in OpKinds
      BY <1>6 DEF StepsOf, OpKinds
    <3> QED  BY <1>0, <1>3, <1>6, <3>1, <3>2, GoesOn
  <2>4. CASE res = "ok" /\ cl.step = "chunk"
    <3> DEFINE cn == [call[c] EXCEPT !.off = @ + 1]
               kind == IF cn.off < Len(UploadBody(c)) THEN "chunk" ELSE "commit"
    <3>1. cl.off \in {0, 1}
      BY <1>0, <2>4 DEF CallShape
    <3>2. /\ cn \in CallRecs /\ cn.number = cl.number /\ cn.agent = cl.agent /\ cn.kind = cl.kind
          /\ cn.clean = cl.clean /\ cn.off = cl.off + 1
      BY <1>0, <3>1 DEF CallRecs
    <3>3. SendFileOp(c, cn, kind)
      BY <2>0, <2>4 DEF Upload
    <3>4. kind \in {"chunk", "commit"} /\ (kind = "chunk" => cn.off \in {0, 1}) /\ (kind = "commit" => cn.off = 2)
      BY <3>1, <3>2 DEF UploadBody
    <3> HIDE DEF cn, kind
    <3>5. kind \in StepsOf(cn.kind) /\ kind \in OpKinds
      BY <1>6, <3>2, <3>4 DEF StepsOf, OpKinds
    <3> QED  BY <1>0, <1>3, <3>2, <3>3, <3>4, <3>5, GoesOn
  <2>5. CASE res = "ok" /\ cl.step = "commit"
    <3>1. Ends(c, "ok") /\ NothingLeft(c, cl)
      BY <1>3, <2>0, <2>5 DEF Upload, NothingLeft
    <3> QED  BY <1>0, <1>2, <2>5, <3>1, EndsEnds DEF Answers
  <2> QED  BY <2>0, <2>1, <2>2, <2>3, <2>4, <2>5
<1>7. CASE cl.step # "abort" /\ cl.kind = "download"
  <2>0. Download(c) /\ NothingLeft(c, cl)
    BY <1>0, <1>7 DEF WaitFileResult, NothingLeft
  <2>1. CASE res # "ok"
    <3>1. Ends(c, opStateForCode(res))
      BY <2>0, <2>1 DEF Download
    <3> QED  BY <1>0, <1>4, <2>0, <2>1, <3>1, EndsEnds
  <2>2. ASSUME NEW cn \in CallRecs, cn.number = cl.number, cn.agent = cl.agent, cn.kind = "download",
               SendFileOp(c, cn, "download")
        PROVE  CallersInv'
    <3>1. "download" \in StepsOf(cn.kind) /\ "download" \in OpKinds
      BY <2>2 DEF StepsOf, OpKinds
    <3> QED  BY <1>0, <2>2, <3>1, GoesOn
  <2>3. CASE res = "ok" /\ cl.step = "stat"
    <3> DEFINE cn == [call[c] EXCEPT !.seen = <<>>]
    <3>1. cn \in CallRecs /\ cn.number = cl.number /\ cn.agent = cl.agent /\ cn.kind = "download"
      BY <1>0, <1>1, <1>7 DEF CallRecs
    <3>2. SendFileOp(c, cn, "download")
      BY <2>0, <2>3 DEF Download
    <3> HIDE DEF cn
    <3> QED  BY <2>2, <3>1, <3>2
  <2>4. CASE res = "ok" /\ cl.step # "stat"
    <3> DEFINE cn == [call[c] EXCEPT !.seen = @ \o slot[c].data, !.off = @ + Len(slot[c].data)]
               ce == [cn EXCEPT !.step = "idle", !.answer = "ok"]
    <3>1. cl.seen \o slot[c].data \in Seq(Chunks) /\ cl.off + Len(slot[c].data) \in Nat
      <4>1. cl.seen \in Seq(Chunks) /\ cl.off \in Nat
        BY <1>0 DEF CallRecs
      <4>2. Len(slot[c].data) \in Nat
        BY <1>1, LenProperties
      <4> QED  BY <1>1, <4>1, <4>2, ConcatProperties
    <3>2. cn \in CallRecs /\ cn.number = cl.number /\ cn.agent = cl.agent /\ cn.kind = "download"
      BY <1>0, <1>7, <3>1 DEF CallRecs
    <3>3. /\ ce \in CallRecs /\ ce.number = cl.number /\ ce.agent = cl.agent /\ ce.kind = "download"
          /\ ce.step = "idle"
      BY <3>2 DEF CallRecs, Answers
    <3>4. \/ call' = [call EXCEPT ![c] = ce] /\ slot' = [slot EXCEPT ![c].state = "none"] /\ down' = down
          \/ SendFileOp(c, cn, "download")
      BY <2>0, <2>4 DEF Download
    <3> HIDE DEF cn, ce
    <3>5. NothingLeft(c, ce) /\ ce.kind \notin Writes
      BY <3>3 DEF NothingLeft, Writes
    <3> QED  BY <1>0, <2>2, <3>2, <3>3, <3>4, <3>5, ComesToEnd
  <2> QED  BY <2>1, <2>3, <2>4
<1>8. CASE cl.step # "abort" /\ cl.kind \notin {"upload", "download"}
  <2> DEFINE cn == [call[c] EXCEPT !.step = "idle", !.answer = opStateForCode(slot[c].res),
                                   !.seen = IF @ = <<>> THEN slot[c].data ELSE @]
  <2>1. cl.step = cl.kind
    BY <1>1, <1>8 DEF StepsOf
  <2>2. (IF cl.seen = <<>> THEN slot[c].data ELSE cl.seen) \in Seq(Chunks)
    BY <1>0, <1>1 DEF CallRecs
  <2>3. /\ cn \in CallRecs /\ cn.number = cl.number /\ cn.agent = cl.agent /\ cn.kind = cl.kind
        /\ cn.step = "idle" /\ cn.answer = opStateForCode(res)
    BY <1>0, <1>4, <2>2 DEF CallRecs
  <2>4. call' = [call EXCEPT ![c] = cn] /\ slot' = [slot EXCEPT ![c].state = "none"] /\ down' = down
    BY <1>8 DEF WaitFileResult, do
  <2> HIDE DEF cn
  <2>5. NothingLeft(c, cn)
    BY <1>8, <2>3 DEF NothingLeft
  <2>6. cn.answer = "ok" /\ cn.kind \in Writes => <<c, cn.number>> \in applied
    BY <1>2, <1>4, <1>8, <2>1, <2>3 DEF Writes
  <2> QED  BY <1>0, <2>3, <2>4, <2>5, <2>6, ComesToEnd
<1> QED  BY <1>5, <1>6, <1>7, <1>8

\* An operation that runs on the agent leaves down or edits for good, touches
\* the temp files of its own upload only, and may report one result.
LEMMA OpRuns ==
  ASSUME CallersInv, NEW o \in down \cup edits, UNCHANGED <<conn, call, slot, fileCalls>>,
         down' = down \ {o} \/ (o.kind = "edit" /\ down' = down),
         \A e \in edits' : e \in edits \/ (e = o /\ o.kind = "edit"),
         NEW r \in Results, r.c = o.c, r.n = o.n, up' = up \/ up' = up \cup {r},
         disk' \in [FileAgents -> FileVersions], FileIsWhole',
         temps' \subseteq TempFiles, \A t \in temps' : TempIsOwned(t),
         \A t \in temps' : t \in temps \/ (t.c = o.c /\ t.number = o.number /\ o.kind \in {"begin", "chunk"}),
         applied \subseteq applied',
         r.res = "ok" /\ o.kind \in {"commit", "edit", "perm"} => <<o.c, o.number>> \in applied',
         o.kind = "begin" /\ r.res # "ok" => temps' = temps,
         (o.kind = "commit" /\ r.res = "ok") \/ o.kind = "abort" => temps' \cap TempsOf(o) = {}
  PROVE  CallersInv'
<1>0. /\ FileTypes /\ OpsAndTemps /\ FileIsWhole /\ OkMeansApplied
      /\ \A d \in Callers : CallShape(d) /\ AnswersAreTrue(d) /\ UploadIsClean(d)
      /\ o \in FileOps /\ OpIsOwned(o) /\ (o \in edits => o.kind = "edit")
      /\ call \in [Callers -> CallRecs] /\ slot \in [Callers -> Slots]
  BY DEF CallersInv, FileTypes, OpsAndTemps
<1>1. o.c \in Callers /\ o.number \in Nat /\ o.n \in Nat
  BY <1>0 DEF FileOps
<1>2. FileTypes'
  <2>1. edits' \subseteq FileOps /\ up' \subseteq Results /\ down' \subseteq FileOps
    BY <1>0 DEF FileTypes
  <2> QED  BY <1>0, <2>1 DEF FileTypes
<1>3. OpsAndTemps'
  <2>1. \A e \in down' : OpIsOwned(e)'
    BY <1>0 DEF OpsAndTemps, OpIsOwned
  <2>2. \A e \in edits' : OpIsOwned(e)' /\ e.kind = "edit"
    BY <1>0 DEF OpsAndTemps, OpIsOwned
  <2>3. \A t \in temps' : TempIsOwned(t)'
    BY DEF TempIsOwned
  <2>4. \A a \in up' : a.n <= slot'[a.c].n
    BY <1>0 DEF OpsAndTemps, OpIsOwned
  <2> QED  BY <2>1, <2>2, <2>3, <2>4 DEF OpsAndTemps
<1>4. OkMeansApplied'
  BY <1>0 DEF OkMeansApplied
<1>5. ASSUME NEW c \in Callers PROVE CallShape(c)' /\ AnswersAreTrue(c)' /\ UploadIsClean(c)'
  <2>0. /\ CallShape(c) /\ AnswersAreTrue(c) /\ UploadIsClean(c) /\ call[c] \in CallRecs
        /\ call'[c] = call[c] /\ slot'[c] = slot[c]
    BY <1>0
  <2>1. CallShape(c)'
    BY <2>0 DEF CallShape
  <2>2. ASSUME NEW res, Answered(c, res)', ~ Answered(c, res)
        PROVE  res = r.res /\ o.c = c /\ o.n = slot[c].n /\ o.kind = call[c].step /\ o.number = call[c].number
    <3>1. slot[c].state = "open" /\ \E a \in up' : a.c = c /\ a.n = slot[c].n /\ a.res = res
      BY <2>0, <2>2 DEF Answered
    <3>2. res = r.res /\ o.c = c /\ o.n = slot[c].n
      BY <2>2, <3>1 DEF Answered
    <3> QED  BY <1>0, <3>1, <3>2 DEF OpIsOwned
  <2>3. AnswersAreTrue(c)'
    BY <2>0, <2>2 DEF AnswersAreTrue
  <2>4. UploadIsClean(c)'
    <3> SUFFICES ASSUME call[c].kind = "upload", call[c].clean
                 PROVE  UploadIsClean(c)'
      BY <2>0 DEF UploadIsClean
    <3> DEFINE ops == OpsOf(c, call[c].number)
               left == TempsLeft(c, call[c].number)
               opsN == {e \in down' : e.c = c /\ e.number = call[c].number}
               leftN == {t \in temps' : t.c = c /\ t.number = call[c].number}
    <3>1. /\ call[c].step \in {"idle", "parked"} => ops = {} /\ left = {}
          /\ \A e \in ops : e.n = slot[c].n /\ ops = {e}
          /\ call[c].step = "begin" /\ ops # {} => left = {}
          /\ \A res \in Codes : Answered(c, res) =>
               /\ ops = {}
               /\ call[c].step = "begin" /\ res # "ok" => left = {}
               /\ call[c].step = "commit" /\ res = "ok" => left = {}
               /\ call[c].step = "abort" => left = {}
      BY <2>0 DEF UploadIsClean
    <3>2. call[c].step # "edit"
      BY <2>0 DEF CallShape, StepsOf
    <3>3. SUFFICES /\ call[c].step \in {"idle", "parked"} => opsN = {} /\ leftN = {}
                   /\ \A e \in opsN : e.n = slot[c].n /\ opsN = {e}
                   /\ call[c].step = "begin" /\ opsN # {} => leftN = {}
                   /\ \A res \in Codes : Answered(c, res)' =>
                        /\ opsN = {}
                        /\ call[c].step = "begin" /\ res # "ok" => leftN = {}
                        /\ call[c].step = "commit" /\ res = "ok" => leftN = {}
                        /\ call[c].step = "abort" => leftN = {}
      BY <2>0 DEF UploadIsClean, OpsOf, TempsLeft
    <3>4. CASE o \in ops
      <4>1. /\ o \in down /\ o.c = c /\ o.number = call[c].number /\ ops = {o} /\ o.n = slot[c].n
            /\ call[c].step \notin {"idle", "parked"}
        BY <3>1, <3>4 DEF OpsOf
      <4>2. slot[c].state # "none" /\ o.kind = call[c].step /\ o.agent = call[c].agent
        BY <1>0, <2>0, <4>1 DEF CallShape, OpIsOwned
      <4>3. opsN = {}
        BY <3>2, <4>1, <4>2 DEF OpsOf
      <4>4. ASSUME NEW res \in Codes, Answered(c, res)' PROVE res = r.res
        BY <2>2, <3>1, <4>1, <4>4
      <4>5. call[c].step = "begin" /\ r.res # "ok" => leftN = {}
        BY <3>1, <4>1, <4>2 DEF TempsLeft
      <4>6. (call[c].step = "commit" /\ r.res = "ok") \/ call[c].step = "abort" => leftN = {}
        <5>1. \A t \in leftN : t.agent = o.agent
          BY <4>1, <4>2 DEF TempIsOwned
        <5>2. call[c].step \in {"commit", "abort"} => leftN \subseteq temps
          BY <4>2
        <5> QED  BY <4>1, <4>2, <5>1, <5>2 DEF TempsOf
      <4> QED  BY <4>1, <4>3, <4>4, <4>5, <4>6
    <3>5. CASE o \notin ops
      <4>1. opsN = ops
        BY <3>5 DEF OpsOf
      <4>2. leftN \subseteq left
        BY <1>0, <3>5 DEF TempsLeft, OpsOf
      <4>3. ASSUME NEW res \in Codes, Answered(c, res)' PROVE Answered(c, res)
        BY <1>0, <2>2, <3>2, <3>5, <4>3 DEF OpsOf
      <4> HIDE DEF ops, left, opsN, leftN
      <4> QED  BY <3>1, <4>1, <4>2, <4>3
    <3> QED  BY <3>4, <3>5
  <2> QED  BY <2>1, <2>3, <2>4
<1> QED  BY <1>2, <1>3, <1>4, <1>5 DEF CallersInv

\* The bodies a temp file can hold, chunk by chunk.
LEMMA BodiesGrow ==
  ASSUME NEW x \in Chunks
  PROVE  /\ <<>> \in Seq(Chunks) /\ <<x>> \in Seq(Chunks) /\ <<x, x>> \in Seq(Chunks)
         /\ Len(<<>>) = 0 /\ Len(<<x>>) = 1 /\ Len(<<x, x>>) = 2
         /\ Append(<<>>, x) = <<x>> /\ Append(<<x>>, x) = <<x, x>>
<1>1. <<>> \in Seq(Chunks)
  OBVIOUS
<1>2. <<x>> \in Seq(Chunks) /\ <<x, x>> \in Seq(Chunks)
  OBVIOUS
<1>3. Len(<<>>) = 0 /\ Len(<<x>>) = 1 /\ Len(<<x, x>>) = 2
  OBVIOUS
<1>4. Append(<<>>, x) = <<x>>
  <2>1. Append(<<>>, x) \in Seq(Chunks) /\ Len(Append(<<>>, x)) = 1 /\ Append(<<>>, x)[1] = x
    BY <1>1, <1>3, AppendProperties
  <2>2. \A i \in 1..1 : Append(<<>>, x)[i] = <<x>>[i]
    BY <2>1
  <2> QED  BY <1>2, <1>3, <2>1, <2>2, SeqEqual
<1>5. Append(<<x>>, x) = <<x, x>>
  <2>1. /\ Append(<<x>>, x) \in Seq(Chunks) /\ Len(Append(<<x>>, x)) = 2
        /\ Append(<<x>>, x)[1] = x /\ Append(<<x>>, x)[2] = x
    BY <1>2, <1>3, AppendProperties
  <2>2. \A i \in 1..2 : Append(<<x>>, x)[i] = <<x, x>>[i]
    BY <2>1
  <2> QED  BY <1>2, <1>3, <2>1, <2>2, SeqEqual
<1> QED  BY <1>1, <1>2, <1>3, <1>4, <1>5

\* The result of an operation is a result.
LEMMA ResultIsTyped ==
  ASSUME NEW o \in FileOps, NEW res \in Codes, NEW data \in Seq(Chunks), NEW done \in BOOLEAN
  PROVE  /\ Result(o, res, data, done) \in Results
         /\ Result(o, res, data, done).c = o.c /\ Result(o, res, data, done).n = o.n
         /\ Result(o, res, data, done).res = res
BY DEF Result, Results, FileOps

\* A write changes one file, to a whole body.
LEMMA WriteIsWhole ==
  ASSUME CallersInv, NEW a \in FileAgents, NEW c \in Callers,
         NEW body \in {disk[a].content, UploadBody(c), EditBody(c)},
         disk' = [disk EXCEPT ![a].content = body]
  PROVE  disk' \in [FileAgents -> FileVersions] /\ FileIsWhole'
<1>1. disk \in [FileAgents -> FileVersions] /\ FileIsWhole /\ disk[a] \in FileVersions
  BY DEF CallersInv, FileTypes
<1>2. UploadBody(c) \in Seq(Chunks) /\ EditBody(c) \in Seq(Chunks)
  BY DEF UploadBody, EditBody, Chunks
<1>3. body \in Seq(Chunks)
  BY <1>1, <1>2 DEF FileVersions
<1>4. [disk[a] EXCEPT !.content = body] \in FileVersions
  BY <1>1, <1>3 DEF FileVersions
<1>5. disk' \in [FileAgents -> FileVersions] /\ disk'[a].content = body /\ \A b \in FileAgents \ {a} : disk'[b] = disk[b]
  BY <1>1, <1>4 DEF FileVersions
<1> QED  BY <1>1, <1>5 DEF FileIsWhole

\* An operation that only answers, and does not answer a write ok.
LEMMA AnswersOnly ==
  ASSUME CallersInv, NEW o \in down, down' = down \ {o},
         UNCHANGED <<conn, call, slot, fileCalls, edits, disk, temps, applied>>,
         NEW res \in Codes, NEW data \in Seq(Chunks), NEW done \in BOOLEAN, sendFileOpResult(o, res, data, done),
         o.kind # "abort", res = "ok" => o.kind \notin {"commit", "edit", "perm"}
  PROVE  CallersInv'
<1> DEFINE r == Result(o, res, data, done)
<1>1. /\ o \in FileOps /\ disk \in [FileAgents -> FileVersions] /\ temps \subseteq TempFiles /\ FileIsWhole
      /\ \A t \in temps : TempIsOwned(t)
  BY DEF CallersInv, FileTypes, OpsAndTemps
<1>2. r \in Results /\ r.c = o.c /\ r.n = o.n /\ r.res = res
  BY <1>1, ResultIsTyped
<1>3. up' = up \/ up' = up \cup {r}
  BY DEF sendFileOpResult
<1>4. disk' \in [FileAgents -> FileVersions] /\ FileIsWhole' /\ temps' \subseteq TempFiles
  BY <1>1 DEF FileIsWhole
<1> HIDE DEF r
<1> QED  BY <1>1, <1>2, <1>3, <1>4, OpRuns

\* What the op of an upload reads and writes.
LEMMA TempIsTyped ==
  ASSUME CallersInv, NEW o \in down, NEW data \in {<<>>, <<o.c>>, <<o.c, o.c>>}
  PROVE  /\ Temp(o, data) \in TempFiles /\ Temp(o, data).data = data
         /\ TempIsOwned(Temp(o, data)) /\ Temp(o, data).c = o.c /\ Temp(o, data).number = o.number
<1>1. o \in FileOps /\ OpIsOwned(o)
  BY DEF CallersInv, FileTypes, OpsAndTemps
<1>2. data \in Seq(Chunks)
  <2>1. o.c \in Chunks
    BY <1>1 DEF FileOps, Chunks
  <2> QED  BY <2>1, BodiesGrow
<1>3. Temp(o, data) \in TempFiles
  BY <1>1, <1>2 DEF Temp, TempFiles, FileOps
<1>4. /\ Temp(o, data).data = data /\ Temp(o, data).c = o.c /\ Temp(o, data).number = o.number
      /\ Temp(o, data).agent = o.agent
  BY DEF Temp
<1>5. TempIsOwned(Temp(o, data))
  BY <1>1, <1>4 DEF TempIsOwned, OpIsOwned
<1> QED  BY <1>3, <1>4, <1>5

\* begin, chunk, commit and abort on the agent.
LEMMA UploadOpKeeps ==
  ASSUME CallersInv, NEW o \in down, down' = down \ {o}, UNCHANGED <<conn, call, slot, fileCalls>>,
         \/ o.kind = "begin" /\ UploadBegin(o)
         \/ o.kind = "chunk" /\ UploadChunk(o)
         \/ o.kind = "commit" /\ UploadCommit(o)
         \/ o.kind = "abort" /\ UploadAbort(o)
  PROVE  CallersInv'
<1>0. /\ o \in FileOps /\ OpIsOwned(o) /\ o.c \in Callers /\ o.agent \in FileAgents
      /\ disk \in [FileAgents -> FileVersions] /\ temps \subseteq TempFiles /\ FileIsWhole
      /\ (\A t \in temps : TempIsOwned(t)) /\ <<>> \in Seq(Chunks)
  BY DEF CallersInv, FileTypes, OpsAndTemps, FileOps
<1>1. ASSUME NEW res \in Codes
      PROVE  /\ Result(o, res, <<>>, TRUE) \in Results
             /\ Result(o, res, <<>>, TRUE).c = o.c /\ Result(o, res, <<>>, TRUE).n = o.n
             /\ Result(o, res, <<>>, TRUE).res = res
             /\ sendFileOpResult(o, res, <<>>, TRUE) => up' = up \/ up' = up \cup {Result(o, res, <<>>, TRUE)}
  BY <1>0, ResultIsTyped DEF sendFileOpResult
<1>2. ASSUME UNCHANGED disk PROVE disk' \in [FileAgents -> FileVersions] /\ FileIsWhole'
  BY <1>0, <1>2 DEF FileIsWhole
<1>3. CASE o.kind = "begin" /\ UploadBegin(o)
  <2> DEFINE t == Temp(o, <<>>)
             r == Result(o, "ok", <<>>, TRUE)
  <2>1. t \in TempFiles /\ TempIsOwned(t) /\ t.c = o.c /\ t.number = o.number
    BY TempIsTyped
  <2>2. r \in Results /\ r.c = o.c /\ r.n = o.n /\ r.res = "ok" /\ (up' = up \/ up' = up \cup {r})
    BY <1>1, <1>3 DEF UploadBegin, Codes
  <2>3. temps' = temps \cup {t} /\ UNCHANGED <<edits, disk, applied>>
    BY <1>3 DEF UploadBegin
  <2> HIDE DEF t, r
  <2> QED  BY <1>0, <1>2, <1>3, <2>1, <2>2, <2>3, OpRuns
<1>4. CASE o.kind = "chunk" /\ UploadChunk(o)
  <2> DEFINE ok == {t \in TempsOf(o) : o.off = Len(t.data)}
             r == Result(o, IF ok # {} THEN "ok" ELSE "500", <<>>, TRUE)
  <2>1. \A t \in ok : Temp(o, Append(t.data, o.c)) \in TempFiles /\ TempIsOwned(Temp(o, Append(t.data, o.c)))
                      /\ Temp(o, Append(t.data, o.c)).c = o.c /\ Temp(o, Append(t.data, o.c)).number = o.number
    <3> SUFFICES ASSUME NEW t \in ok
                 PROVE  Append(t.data, o.c) \in {<<>>, <<o.c>>, <<o.c, o.c>>}
      BY TempIsTyped
    <3>1. t \in temps /\ t.c = o.c /\ o.off = Len(t.data) /\ o.off \in {0, 1}
      BY <1>0, <1>4 DEF TempsOf, OpIsOwned
    <3>2. t.data \in {<<>>, <<o.c>>, <<o.c, o.c>>}
      BY <1>0, <3>1 DEF TempIsOwned
    <3>3. o.c \in Chunks
      BY <1>0 DEF Chunks
    <3>4. CASE t.data = <<>>
      BY <3>3, <3>4, BodiesGrow
    <3>5. CASE t.data = <<o.c>>
      BY <3>3, <3>5, BodiesGrow
    <3>6. CASE t.data = <<o.c, o.c>>
      <4>1. Len(<<o.c, o.c>>) = 2
        BY <3>3, BodiesGrow
      <4> QED  BY <3>1, <3>6, <4>1
    <3> QED  BY <3>2, <3>4, <3>5, <3>6
  <2>2. r \in Results /\ r.c = o.c /\ r.n = o.n /\ (up' = up \/ up' = up \cup {r})
    BY <1>1, <1>4 DEF UploadChunk, Codes
  <2>3. temps' = (temps \ ok) \cup {Temp(o, Append(t.data, o.c)) : t \in ok} /\ UNCHANGED <<edits, disk, applied>>
    BY <1>4 DEF UploadChunk
  <2> HIDE DEF ok, r
  <2>4. temps' \subseteq TempFiles /\ (\A t \in temps' : TempIsOwned(t))
        /\ \A t \in temps' : t \in temps \/ (t.c = o.c /\ t.number = o.number)
    BY <1>0, <2>1, <2>3
  <2> QED  BY <1>2, <1>4, <2>2, <2>3, <2>4, OpRuns
<1>5. CASE o.kind = "commit" /\ UploadCommit(o)
  <2> DEFINE ok == {t \in TempsOf(o) : Len(t.data) = o.off}
             code == IF ok # {} THEN "ok" ELSE "500"
             r == Result(o, code, <<>>, TRUE)
             body == IF ok # {} THEN (CHOOSE t \in ok : TRUE).data ELSE disk[o.agent].content
  <2>1. body \in {disk[o.agent].content, UploadBody(o.c)}
    <3>1. \A t \in ok : t.data = <<o.c, o.c>>
      <4> SUFFICES ASSUME NEW t \in ok PROVE t.data = <<o.c, o.c>>
        OBVIOUS
      <4>1. t \in temps /\ t.c = o.c /\ Len(t.data) = 2
        BY <1>0, <1>5 DEF TempsOf, OpIsOwned
      <4>2. t.data \in {<<>>, <<o.c>>, <<o.c, o.c>>}
        BY <1>0, <4>1 DEF TempIsOwned
      <4> HIDE DEF ok
      <4>3. o.c \in Chunks
        BY <1>0 DEF Chunks
      <4>4. Len(<<>>) = 0 /\ Len(<<o.c>>) = 1
        BY <4>3, BodiesGrow
      <4>5. t.data # <<>> /\ t.data # <<o.c>>
        BY <4>1, <4>4
      <4> QED  BY <4>2, <4>5
    <3>2. ok # {} => (CHOOSE t \in ok : TRUE) \in ok
      OBVIOUS
    <3> QED  BY <3>1, <3>2 DEF UploadBody
  <2>2. code \in Codes /\ r \in Results /\ r.c = o.c /\ r.n = o.n /\ r.res = code /\ (up' = up \/ up' = up \cup {r})
    BY <1>1, <1>5 DEF UploadCommit, Codes
  <2>3. /\ temps' = temps \ TempsOf(o) /\ disk' = [disk EXCEPT ![o.agent].content = body] /\ edits' = edits
        /\ applied' = IF ok # {} THEN applied \cup {<<o.c, o.number>>} ELSE applied
    BY <1>5 DEF UploadCommit
  <2>4. code = "ok" => ok # {}
    OBVIOUS
  <2> HIDE DEF ok, code, r, body
  <2>5. disk' \in [FileAgents -> FileVersions] /\ FileIsWhole'
    BY <1>0, <2>1, <2>3, WriteIsWhole
  <2>6. temps' \subseteq TempFiles /\ (\A t \in temps' : TempIsOwned(t)) /\ temps' \subseteq temps
        /\ temps' \cap TempsOf(o) = {}
    BY <1>0, <2>3
  <2> QED  BY <1>5, <2>2, <2>3, <2>4, <2>5, <2>6, OpRuns
<1>6. CASE o.kind = "abort" /\ UploadAbort(o)
  <2> DEFINE r == Result(o, IF TempsOf(o) # {} THEN "ok" ELSE "500", <<>>, TRUE)
  <2>1. r \in Results /\ r.c = o.c /\ r.n = o.n /\ (up' = up \/ up' = up \cup {r})
    BY <1>1, <1>6 DEF UploadAbort, Codes
  <2>2. temps' = temps \ TempsOf(o) /\ UNCHANGED <<edits, disk, applied>>
    BY <1>6 DEF UploadAbort
  <2> HIDE DEF r
  <2>3. temps' \subseteq TempFiles /\ (\A t \in temps' : TempIsOwned(t)) /\ temps' \subseteq temps
        /\ temps' \cap TempsOf(o) = {}
    BY <1>0, <2>2
  <2> QED  BY <1>2, <1>6, <2>1, <2>2, <2>3, OpRuns
<1> QED  BY <1>3, <1>4, <1>5, <1>6

\* The compare of an edit, and a change of the mode.
LEMMA WriteOpKeeps ==
  ASSUME CallersInv, NEW o \in down, down' = down \ {o}, UNCHANGED <<conn, call, slot, fileCalls>>,
         \/ o.kind = "edit" /\ EditCASCompares(o)
         \/ o.kind = "perm" /\ SetPerm(o)
  PROVE  CallersInv'
<1>0. /\ o \in FileOps /\ o.c \in Callers /\ o.agent \in FileAgents /\ <<>> \in Seq(Chunks)
      /\ disk \in [FileAgents -> FileVersions] /\ temps \subseteq TempFiles /\ FileIsWhole
      /\ \A t \in temps : TempIsOwned(t)
  BY DEF CallersInv, FileTypes, OpsAndTemps, FileOps
<1>1. ASSUME NEW res \in Codes
      PROVE  /\ Result(o, res, <<>>, TRUE) \in Results
             /\ Result(o, res, <<>>, TRUE).c = o.c /\ Result(o, res, <<>>, TRUE).n = o.n
             /\ Result(o, res, <<>>, TRUE).res = res
             /\ sendFileOpResult(o, res, <<>>, TRUE) => up' = up \/ up' = up \cup {Result(o, res, <<>>, TRUE)}
  BY <1>0, ResultIsTyped DEF sendFileOpResult
<1>2. CASE o.kind = "edit" /\ EditCASCompares(o)
  <2> DEFINE r == Result(o, "409", <<>>, TRUE)
  <2>1. r \in Results /\ r.c = o.c /\ r.n = o.n /\ r.res = "409"
    BY <1>1 DEF Codes
  <2>2. /\ up' = up \/ up' = up \cup {r}
        /\ edits' = edits \/ edits' = edits \cup {o}
        /\ UNCHANGED <<disk, temps, applied>>
    BY <1>1, <1>2 DEF EditCASCompares, Codes
  <2> HIDE DEF r
  <2>3. disk' \in [FileAgents -> FileVersions] /\ FileIsWhole'
    BY <1>0, <2>2 DEF FileIsWhole
  <2> QED  BY <1>0, <1>2, <2>1, <2>2, <2>3, OpRuns
<1>3. CASE o.kind = "perm" /\ SetPerm(o)
  <2> DEFINE r == Result(o, "ok", <<>>, TRUE)
  <2>1. r \in Results /\ r.c = o.c /\ r.n = o.n /\ (up' = up \/ up' = up \cup {r})
    BY <1>1, <1>3 DEF SetPerm, Codes
  <2>2. /\ disk' = [disk EXCEPT ![o.agent].mode = o.c] /\ applied' = applied \cup {<<o.c, o.number>>}
        /\ UNCHANGED <<edits, temps>>
    BY <1>3 DEF SetPerm
  <2> HIDE DEF r
  <2>3. disk' \in [FileAgents -> FileVersions] /\ \A a \in FileAgents : disk'[a].content = disk[a].content
    <3>1. disk[o.agent] \in FileVersions /\ [disk[o.agent] EXCEPT !.mode = o.c] \in FileVersions
      BY <1>0 DEF FileVersions
    <3> QED  BY <1>0, <2>2, <3>1 DEF FileVersions
  <2>4. FileIsWhole'
    BY <1>0, <2>3 DEF FileIsWhole
  <2> QED  BY <1>0, <1>3, <2>1, <2>2, <2>3, <2>4, OpRuns
<1> QED  BY <1>2, <1>3

\* Every operation the agent takes, and one it refuses or fails.
LEMMA AgentKeeps ==
  ASSUME CallersInv, NEW o \in down, execFileOp(o) \/ FileOpRefused(o)
  PROVE  CallersInv'
<1>0. /\ down' = down \ {o} /\ UNCHANGED <<conn, call, slot, fileCalls>> /\ <<>> \in Seq(Chunks)
      /\ o \in FileOps /\ o.agent \in FileAgents /\ o.kind \in OpKinds /\ disk[o.agent].content \in Seq(Chunks)
  <2>1. down' = down \ {o} /\ UNCHANGED <<conn, call, slot, fileCalls>>
    BY DEF execFileOp, FileOpRefused, callVars
  <2>2. o \in FileOps /\ disk \in [FileAgents -> FileVersions]
    BY DEF CallersInv, FileTypes
  <2>3. o.agent \in FileAgents /\ o.kind \in OpKinds
    BY <2>2 DEF FileOps
  <2>4. disk[o.agent].content \in Seq(Chunks) /\ <<>> \in Seq(Chunks)
    <3>1. disk[o.agent] \in FileVersions
      BY <2>2, <2>3
    <3> QED  BY <3>1 DEF FileVersions
  <2> QED  BY <2>1, <2>2, <2>3, <2>4
<1>1. ASSUME UNCHANGED agentDiskVars, o.kind # "abort", NEW res \in Codes, NEW data \in Seq(Chunks),
             NEW done \in BOOLEAN, sendFileOpResult(o, res, data, done),
             res = "ok" => o.kind \notin {"commit", "edit", "perm"}
      PROVE  CallersInv'
  BY <1>0, <1>1, AnswersOnly DEF agentDiskVars
<1>2. CASE FileOpRefused(o)
  <2>1. UNCHANGED agentDiskVars /\ o.kind # "abort"
        /\ (sendFileOpResult(o, "403", <<>>, TRUE) \/ sendFileOpResult(o, "500", <<>>, TRUE))
    BY <1>2 DEF FileOpRefused, RecheckFile, fileOpError
  <2> QED  BY <1>0, <1>1, <2>1 DEF Codes
<1>3. CASE execFileOp(o)
  <2>1. CASE o.kind = "stat"
    <3>1. StatPath(o)
      BY <1>3, <2>1 DEF execFileOp
    <3> QED  BY <1>0, <1>1, <2>1, <3>1 DEF StatPath, Codes
  <2>2. CASE o.kind = "list"
    <3>1. List(o)
      BY <1>3, <2>2 DEF execFileOp
    <3> QED  BY <1>0, <1>1, <2>2, <3>1 DEF List, Codes
  <2>3. CASE o.kind = "download"
    <3> DEFINE content == disk[o.agent].content
    <3>1. DownloadAt(o)
      BY <1>3, <2>3 DEF execFileOp
    <3>2. CASE sendFileOpResult(o, "500", <<>>, TRUE) \/ sendFileOpResult(o, "ok", <<>>, TRUE)
      BY <1>0, <1>1, <2>3, <3>1, <3>2 DEF DownloadAt, Codes
    <3>3. CASE o.off < Len(content)
               /\ sendFileOpResult(o, "ok", <<content[o.off + 1]>>, o.off + 1 = Len(content))
      <4>1. o.off \in Nat /\ Len(content) \in Nat
        BY <1>0, LenProperties DEF FileOps
      <4>2. content[o.off + 1] \in Chunks
        BY <1>0, <3>3, <4>1, ElementOfSeq
      <4>3. <<content[o.off + 1]>> \in Seq(Chunks)
        BY <4>2, BodiesGrow
      <4> QED  BY <1>1, <2>3, <3>1, <3>3, <4>3 DEF DownloadAt, Codes
    <3> QED  BY <3>1, <3>2, <3>3 DEF DownloadAt
  <2>4. CASE o.kind \in {"begin", "chunk", "commit", "abort"}
    <3>1. \/ o.kind = "begin" /\ UploadBegin(o)
          \/ o.kind = "chunk" /\ UploadChunk(o)
          \/ o.kind = "commit" /\ UploadCommit(o)
          \/ o.kind = "abort" /\ UploadAbort(o)
      BY <1>3, <2>4 DEF execFileOp
    <3> QED  BY <1>0, <3>1, UploadOpKeeps
  <2>5. CASE o.kind \in {"edit", "perm"}
    <3>1. \/ o.kind = "edit" /\ EditCASCompares(o)
          \/ o.kind = "perm" /\ SetPerm(o)
      BY <1>3, <2>5 DEF execFileOp
    <3> QED  BY <1>0, <3>1, WriteOpKeeps
  <2> QED  BY <1>0, <2>1, <2>2, <2>3, <2>4, <2>5 DEF OpKinds
<1> QED  BY <1>2, <1>3

\* The rename of an edit.
LEMMA EditKeeps ==
  ASSUME CallersInv, NEW o \in edits, EditCAS(o)
  PROVE  CallersInv'
<1> DEFINE r == Result(o, "ok", <<>>, TRUE)
<1>0. /\ o \in FileOps /\ o.c \in Callers /\ o.agent \in FileAgents /\ <<>> \in Seq(Chunks) /\ o.kind = "edit"
      /\ temps \subseteq TempFiles /\ \A t \in temps : TempIsOwned(t)
  BY DEF CallersInv, FileTypes, OpsAndTemps, FileOps
<1>1. r \in Results /\ r.c = o.c /\ r.n = o.n
  BY <1>0, ResultIsTyped DEF Codes
<1>2. /\ edits' = edits \ {o} /\ disk' = [disk EXCEPT ![o.agent].content = EditBody(o.c)]
      /\ applied' = applied \cup {<<o.c, o.number>>} /\ (up' = up \/ up' = up \cup {r})
      /\ UNCHANGED <<conn, call, slot, down, temps, fileCalls>>
  BY DEF EditCAS, sendFileOpResult, callVars
<1> HIDE DEF r
<1>3. disk' \in [FileAgents -> FileVersions] /\ FileIsWhole'
  BY <1>0, <1>2, WriteIsWhole
<1> QED  BY <1>0, <1>1, <1>2, <1>3, OpRuns

\* Nothing is called yet.
LEMMA CallersStart == FilesInit => CallersInv
<1> SUFFICES ASSUME FilesInit PROVE CallersInv
  OBVIOUS
<1>1. <<>> \in Seq(Chunks) /\ Old \in Seq(Chunks)
  BY BodiesGrow DEF Old, Chunks
<1>2. NoCall \in CallRecs /\ NoSlot \in Slots /\ [content |-> Old, mode |-> "old"] \in FileVersions
  BY <1>1 DEF NoCall, NoSlot, CallRecs, Slots, FileVersions, Answers
<1>3. FileTypes
  BY <1>2 DEF FilesInit, FileTypes
<1>4. OpsAndTemps /\ FileIsWhole /\ OkMeansApplied
  BY DEF FilesInit, OpsAndTemps, FileIsWhole, OkMeansApplied, NoCall
<1>5. ASSUME NEW c \in Callers PROVE CallShape(c) /\ AnswersAreTrue(c) /\ UploadIsClean(c)
  BY DEF FilesInit, CallShape, AnswersAreTrue, UploadIsClean, NoCall, NoSlot
<1> QED  BY <1>3, <1>4, <1>5 DEF CallersInv

\* Every step keeps the invariant.
LEMMA CallersStep == CallersInv /\ [FilesNext]_filesVars => CallersInv'
<1> SUFFICES ASSUME CallersInv, [FilesNext]_filesVars PROVE CallersInv'
  OBVIOUS
<1>1. CASE \/ \E a \in FileAgents : StreamTeardown(a) \/ StreamReturns(a)
           \/ \E r \in up : FileOpResultArrives(r)
  BY <1>1, StreamKeeps
<1>2. ASSUME NEW c \in Callers, NEW a \in FileAgents, FileRead(c, a) \/ FileWrite(c, a) PROVE CallersInv'
  BY <1>2, BeginsKeeps
<1>3. ASSUME NEW c \in Callers, DispatchApprovedFileOp(c) \/ ApprovalRefused(c) PROVE CallersInv'
  BY <1>3, ApprovalKeeps
<1>4. ASSUME NEW c \in Callers, WaitFileResult(c) PROVE CallersInv'
  BY <1>4, WaitKeeps
<1>5. ASSUME NEW c \in Callers, FileOpTimesOut(c) \/ WaitSeesClose(c) PROVE CallersInv'
  BY <1>5, WaitFailedKeeps
<1>6. ASSUME NEW o \in down, execFileOp(o) \/ FileOpRefused(o) PROVE CallersInv'
  BY <1>6, AgentKeeps
<1>7. ASSUME NEW o \in edits, EditCAS(o) PROVE CallersInv'
  BY <1>7, EditKeeps
<1>8. CASE UNCHANGED filesVars
  <2>1. /\ UNCHANGED <<call, slot, edits, disk, temps, applied, fileCalls>> /\ conn' = conn /\ down' = down /\ up' = up
        /\ conn \subseteq FileAgents /\ slot \in [Callers -> Slots]
    BY <1>8 DEF filesVars, CallersInv, FileTypes
  <2>2. \A c \in Callers, res \in Codes : Answered(c, res)' => Answered(c, res)
    BY <2>1 DEF Answered
  <2> QED  BY <2>1, <2>2, FewerKeeps
<1> QED  BY <1>1, <1>2, <1>3, <1>4, <1>5, <1>6, <1>7, <1>8 DEF FilesNext

\* Whatever streams, timeouts, failed operations and late results do to the
\* callers of the file API, a file is the old one or a whole body, a write
\* answered ok took place, and an upload that the agent refused or failed leaves
\* no temp file behind (fs.UploadChunk, UploadCommit and EditCAS, the op id of
\* SendFileOp, the deferred abort of the upload handler).
THEOREM FilesStayWhole == FilesSpec => []FilesInv
<1>1. CallersInv => FilesInv
  <2> SUFFICES ASSUME CallersInv PROVE FailedUploadCleans
    BY DEF CallersInv, FilesInv
  <2> SUFFICES ASSUME NEW c \in Callers, call[c].step = "idle", call[c].clean, call[c].kind = "upload", NEW t \in temps
               PROVE  <<t.c, t.number>> # <<c, call[c].number>>
    BY DEF FailedUploadCleans
  <2>1. TempsLeft(c, call[c].number) = {}
    BY DEF CallersInv, UploadIsClean
  <2> QED  BY <2>1 DEF TempsLeft
<1> QED  BY <1>1, CallersStart, CallersStep, PTL DEF FilesSpec

-----------------------------------------------------------------------------
(* The step executor. *)

Hosts == [distro : Distros, pkg : {"absent", "old", "new"}, svc : BOOLEAN, user : BOOLEAN, group : BOOLEAN,
          file : Contents]

ExecutorInv == osHost \in Hosts /\ cached \in BOOLEAN /\ StepConverges /\ ChangedIsReported

\* What a step may report of a host: the change it made, or none.
Reports(op, res, host) ==
  /\ host \in Hosts /\ (res = "changed" <=> host # osHost)
  /\ res \in {"ok", "changed"} =>
       /\ op.kind = "package" => (op.want = "absent" <=> host.pkg = "absent")
       /\ op.kind = "service" => (op.want = "started" <=> host.svc = TRUE)
       /\ op.kind \in {"file", "template"} => op.want \in {"empty", host.file}
       /\ op.kind = "user" => host.user = TRUE
       /\ op.kind = "group" => host.group = TRUE
       /\ op.kind = "upgrade" => host.pkg # "old"

\* The two ways a method of the executor ends.
LEMMA MethodsReport ==
  ASSUME osHost \in Hosts, NEW op
  PROVE  /\ \A res \in {"failed", "skipped"} : \A out \in Same(res) : Reports(op, out.res, out.host)
         /\ Reports(op, "ok", osHost) => \A out \in Same("ok") : Reports(op, out.res, out.host)
         /\ \A h : Reports(op, "changed", h) => \A out \in Becomes(h) : Reports(op, out.res, out.host)
<1>1. ASSUME NEW res \in {"failed", "skipped", "ok"}, NEW out \in Same(res)
      PROVE  out.res = res /\ out.host = osHost
  BY DEF Same
<1>2. ASSUME NEW h, NEW out \in Becomes(h)
      PROVE  \/ out.res = "changed" /\ out.host = h
             \/ out.res = "failed" /\ out.host = osHost
  BY DEF Becomes, Same
<1>3. \A res \in {"failed", "skipped"} : Reports(op, res, osHost)
  BY DEF Reports
<1>4. ASSUME NEW h, Reports(op, "changed", h), NEW out \in Becomes(h) PROVE Reports(op, out.res, out.host)
  BY <1>2, <1>3, <1>4
<1> QED  BY <1>1, <1>3, <1>4

\* The kinds of steps and what each may want.
LEMMA StepsOfThePool ==
  ASSUME NEW op \in StepPool
  PROVE  \/ op.kind = "package" /\ op.want \in {"present", "latest", "absent", "odd"}
         \/ op.kind = "service" /\ op.want \in {"started", "stopped", "odd"}
         \/ op.kind = "file" /\ op.want \in Contents
         \/ op.kind = "template" /\ op.want \in {"x", "y", "broken"}
         \/ op.kind \in {"assert", "user", "group", "upgrade", "reboot", "odd", "command"}
<1> DEFINE packages == { StepDef("package", w, FALSE) : w \in {"present", "latest", "absent", "odd"} }
           services == { StepDef("service", w, FALSE) : w \in {"started", "stopped", "odd"} }
           fileSteps == { StepDef("file", w, r) : w \in Contents, r \in BOOLEAN }
           templates == { StepDef("template", w, r) : w \in {"x", "y", "broken"}, r \in BOOLEAN }
           asserts == { StepDef("assert", w, FALSE) : w \in {"pass", "false", "error"} }
           plain == { StepDef(k, "empty", FALSE) : k \in {"user", "group", "upgrade", "reboot", "odd"} }
           commands == { StepDef("command", "empty", r) : r \in BOOLEAN }
<1>0. StepPool = packages \cup services \cup fileSteps \cup templates \cup asserts \cup plain \cup commands
  BY DEF StepPool
<1>1. \A s \in packages : s.kind = "package" /\ s.want \in {"present", "latest", "absent", "odd"}
  BY DEF StepDef
<1>2. \A s \in services : s.kind = "service" /\ s.want \in {"started", "stopped", "odd"}
  BY DEF StepDef
<1>3. \A s \in fileSteps : s.kind = "file" /\ s.want \in Contents
  BY DEF StepDef
<1>4. \A s \in templates : s.kind = "template" /\ s.want \in {"x", "y", "broken"}
  BY DEF StepDef
<1>5. \A s \in asserts : s.kind = "assert"
  BY DEF StepDef
<1>6. \A s \in plain : s.kind \in {"user", "group", "upgrade", "reboot", "odd"}
  BY DEF StepDef
<1>7. \A s \in commands : s.kind = "command"
  BY DEF StepDef
<1> HIDE DEF packages, services, fileSteps, templates, asserts, plain, commands
<1> QED  BY <1>0, <1>1, <1>2, <1>3, <1>4, <1>5, <1>6, <1>7

\* Every kind of step reports what it did.
LEMMA StepReports ==
  ASSUME osHost \in Hosts, NEW op \in StepPool, NEW out \in doStep(op)
  PROVE  Reports(op, out.res, out.host)
<1>0. /\ \A e \in Same("failed") : Reports(op, e.res, e.host)
      /\ Reports(op, "ok", osHost) => \A e \in Same("ok") : Reports(op, e.res, e.host)
      /\ \A h : Reports(op, "changed", h) => \A e \in Becomes(h) : Reports(op, e.res, e.host)
  BY MethodsReport
<1>1. CASE op.kind = "package" /\ op.want \in {"present", "latest", "absent", "odd"}
  <2>1. out \in Same("failed") \/ out \in doApt(op.want)
    BY <1>1 DEF doStep, doPackage, doDnf
  <2>2. CASE out \in doApt(op.want) /\ op.want \in {"present", "latest"}
    <3>1. CASE Installed
      <4>1. out \in Same("ok") /\ Reports(op, "ok", osHost)
        BY <1>1, <2>2, <3>1 DEF doApt, Installed, Reports
      <4> QED  BY <1>0, <4>1
    <3>2. CASE ~ Installed
      <4> DEFINE h == [osHost EXCEPT !.pkg = "new"]
      <4>1. out \in Becomes(h)
        BY <2>2, <3>2 DEF doApt
      <4>2. Reports(op, "changed", h)
        BY <1>1, <2>2, <3>2 DEF Installed, Reports, Hosts
      <4> QED  BY <1>0, <4>1, <4>2
    <3> QED  BY <3>1, <3>2
  <2>3. CASE out \in doApt(op.want) /\ op.want = "absent"
    <3>1. CASE ~ Installed
      <4>1. out \in Same("ok") /\ Reports(op, "ok", osHost)
        BY <1>1, <2>3, <3>1 DEF doApt, Installed, Reports
      <4> QED  BY <1>0, <4>1
    <3>2. CASE Installed
      <4> DEFINE h == [osHost EXCEPT !.pkg = "absent"]
      <4>1. out \in Becomes(h)
        BY <2>3, <3>2 DEF doApt
      <4>2. Reports(op, "changed", h)
        BY <1>1, <2>3, <3>2 DEF Installed, Reports, Hosts
      <4> QED  BY <1>0, <4>1, <4>2
    <3> QED  BY <3>1, <3>2
  <2>4. CASE out \in doApt(op.want) /\ op.want = "odd"
    BY <1>0, <2>4 DEF doApt
  <2> QED  BY <1>0, <1>1, <2>1, <2>2, <2>3, <2>4
<1>2. CASE op.kind = "service" /\ op.want \in {"started", "stopped", "odd"}
  <2>0. out \in doService(op) /\ osHost.svc \in BOOLEAN
    BY <1>2 DEF doStep, Hosts
  <2>1. CASE op.want = "odd"
    BY <1>0, <2>0, <2>1 DEF doService
  <2>2. CASE op.want \in {"started", "stopped"} /\ osHost.svc = (op.want = "started")
    <3>1. out \in Same("ok") /\ Reports(op, "ok", osHost)
      BY <1>2, <2>0, <2>2 DEF doService, Reports
    <3> QED  BY <1>0, <3>1
  <2>3. CASE op.want = "started" /\ osHost.svc = FALSE
    <3> DEFINE h == [osHost EXCEPT !.svc = TRUE]
    <3>1. out \in Becomes(h)
      BY <2>0, <2>3 DEF doService
    <3>2. Reports(op, "changed", h)
      BY <1>2, <2>3 DEF Reports, Hosts
    <3> QED  BY <1>0, <3>1, <3>2
  <2>4. CASE op.want = "stopped" /\ osHost.svc = TRUE
    <3> DEFINE h == [osHost EXCEPT !.svc = FALSE]
    <3>1. out \in Becomes(h)
      BY <2>0, <2>4 DEF doService
    <3>2. Reports(op, "changed", h)
      BY <1>2, <2>4 DEF Reports, Hosts
    <3> QED  BY <1>0, <3>1, <3>2
  <2> QED  BY <1>2, <2>0, <2>1, <2>2, <2>3, <2>4
<1>3. CASE op.kind \in {"file", "template"} /\ op.want \in Contents \cup {"broken"}
  <2>1. CASE op.want = "empty" /\ op.kind = "file"
    <3>1. Reports(op, "ok", osHost)
      BY <1>3, <2>1 DEF Reports
    <3>2. out \in Same("failed") \cup Same("ok")
      BY <2>1 DEF doStep, doFile
    <3> QED  BY <1>0, <3>1, <3>2
  <2>2. CASE out \in Same("failed")
    BY <1>0, <2>2
  <2>3. CASE op.want \in Contents /\ out \in WriteIfDifferent(op.want)
    <3>1. CASE osHost.file = op.want
      <4>1. out \in Same("ok") /\ Reports(op, "ok", osHost)
        BY <1>3, <2>3, <3>1 DEF WriteIfDifferent, Reports
      <4> QED  BY <1>0, <4>1
    <3>2. CASE osHost.file # op.want
      <4> DEFINE h == [osHost EXCEPT !.file = op.want]
      <4>1. out \in Becomes(h)
        BY <2>3, <3>2 DEF WriteIfDifferent
      <4>2. Reports(op, "changed", h)
        BY <1>3, <2>3, <3>2 DEF Reports, Hosts
      <4> QED  BY <1>0, <4>1, <4>2
    <3> QED  BY <3>1, <3>2
  <2>4. \/ op.want = "empty" /\ op.kind = "file"
        \/ out \in Same("failed")
        \/ op.want \in Contents /\ out \in WriteIfDifferent(op.want)
    <3>1. CASE op.kind = "file"
      <4>1. out \in doFile(op)
        BY <3>1 DEF doStep
      <4>2. op.want # "broken" => op.want \in Contents
        BY <1>3
      <4> QED  BY <3>1, <4>1, <4>2, StepsOfThePool DEF doFile, Contents
    <3>2. CASE op.kind = "template"
      <4>1. out \in doTemplate(op)
        BY <3>2 DEF doStep
      <4> QED  BY <1>3, <4>1 DEF doTemplate
    <3> QED  BY <1>3, <3>1, <3>2
  <2> QED  BY <2>1, <2>2, <2>3, <2>4
<1>4. CASE op.kind = "user"
  <2>0. out \in doUser /\ osHost.user \in BOOLEAN
    BY <1>4 DEF doStep, Hosts
  <2>1. CASE osHost.user = TRUE
    <3>1. out \in Same("ok") /\ Reports(op, "ok", osHost)
      BY <1>4, <2>0, <2>1 DEF doUser, Reports
    <3> QED  BY <1>0, <3>1
  <2>2. CASE osHost.user = FALSE
    <3> DEFINE h == [osHost EXCEPT !.user = TRUE]
    <3>1. out \in Becomes(h)
      BY <2>0, <2>2 DEF doUser
    <3>2. Reports(op, "changed", h)
      BY <1>4, <2>2 DEF Reports, Hosts
    <3> QED  BY <1>0, <3>1, <3>2
  <2> QED  BY <2>0, <2>1, <2>2
<1>5. CASE op.kind = "group"
  <2>0. out \in doGroup /\ osHost.group \in BOOLEAN
    BY <1>5 DEF doStep, Hosts
  <2>1. CASE osHost.group = TRUE
    <3>1. out \in Same("ok") /\ Reports(op, "ok", osHost)
      BY <1>5, <2>0, <2>1 DEF doGroup, Reports
    <3> QED  BY <1>0, <3>1
  <2>2. CASE osHost.group = FALSE
    <3> DEFINE h == [osHost EXCEPT !.group = TRUE]
    <3>1. out \in Becomes(h)
      BY <2>0, <2>2 DEF doGroup
    <3>2. Reports(op, "changed", h)
      BY <1>5, <2>2 DEF Reports, Hosts
    <3> QED  BY <1>0, <3>1, <3>2
  <2> QED  BY <2>0, <2>1, <2>2
<1>6. CASE op.kind = "upgrade"
  <2>1. \/ out \in Same("failed")
        \/ osHost.pkg # "old" /\ out \in Same("ok")
        \/ osHost.pkg = "old" /\ out \in Becomes([osHost EXCEPT !.pkg = "new"])
    BY <1>6 DEF doStep, doUpgrade, isNoOpUpgrade
  <2>2. osHost.pkg # "old" => Reports(op, "ok", osHost)
    BY <1>6 DEF Reports
  <2>3. osHost.pkg = "old" => Reports(op, "changed", [osHost EXCEPT !.pkg = "new"])
    BY <1>6 DEF Reports, Hosts
  <2> QED  BY <1>0, <2>1, <2>2, <2>3
<1>7. CASE op.kind \in {"assert", "reboot", "odd", "command"}
  <2>1. out \in Same("failed") \cup Same("ok")
    BY <1>7 DEF doStep, doCommand, doAssert
  <2>2. Reports(op, "ok", osHost)
    BY <1>7 DEF Reports
  <2> QED  BY <1>0, <2>1, <2>2
<1> QED  BY <1>1, <1>2, <1>3, <1>4, <1>5, <1>6, <1>7, StepsOfThePool DEF Contents

\* One step of the executor, the guard and the secrets included.
LEMMA ExecutorRuns ==
  ASSUME ExecutorInv, RunTaskStep
  PROVE  /\ ExecutorInv'
         /\ lastStep'.step.ref /\ ~ cached => osHost' = osHost /\ lastStep'.res \in {"failed", "skipped"}
<1>1. PICK op \in StepPool : \E out \in ExecStep(op) :
             /\ osHost' = out.host
             /\ lastStep' = [step |-> op, res |-> out.res, before |-> {osHost}]
  BY DEF RunTaskStep
<1>2. PICK out \in ExecStep(op) :
             /\ osHost' = out.host
             /\ lastStep' = [step |-> op, res |-> out.res, before |-> {osHost}]
  BY <1>1
<1>3. lastStep'.step = op /\ lastStep'.res = out.res /\ lastStep'.before = {osHost} /\ cached' = cached
      /\ osHost' = out.host
  BY <1>2 DEF RunTaskStep
<1>4. Reports(op, out.res, out.host)
  <2>1. out \in Same("skipped") \cup Same("failed") \/ out \in doStep(op)
    BY DEF ExecStep
  <2>2. osHost \in Hosts
    BY DEF ExecutorInv
  <2>3. \A e \in Same("skipped") \cup Same("failed") : Reports(op, e.res, e.host)
    BY <2>2, MethodsReport
  <2> QED  BY <2>1, <2>2, <2>3, StepReports
<1>5. StepConverges'
  BY <1>3, <1>4 DEF StepConverges, Wanted, Reports, Hosts
<1>6. ChangedIsReported'
  BY <1>3, <1>4 DEF ChangedIsReported, Reports
<1>7. op.ref /\ ~ cached => out.host = osHost /\ out.res \in {"failed", "skipped"}
  BY DEF ExecStep, renderSecrets, Same
<1> QED  BY <1>3, <1>4, <1>5, <1>6, <1>7 DEF ExecutorInv, Reports

\* Over every sequence of steps on every distribution, a step that reports ok
\* or changed left the host as asked, it reports changed exactly when it changed
\* the host, and it does nothing with a secret it lacks (executor.go).
THEOREM ResultsAreTrueOfHosts == StepSpec => StepResultIsTrue
<1>1. StepInit => ExecutorInv
  <2> SUFFICES ASSUME StepInit PROVE ExecutorInv
    OBVIOUS
  <2>1. osHost \in Hosts /\ cached \in BOOLEAN
    BY DEF StepInit, Hosts, Contents
  <2>2. lastStep.res = "none" /\ lastStep.before = {}
    BY DEF StepInit, NoStep
  <2> QED  BY <2>1, <2>2 DEF ExecutorInv, StepConverges, ChangedIsReported
<1>2. ExecutorInv /\ [StepNext]_stepVars
        => ExecutorInv' /\ (lastStep' # lastStep /\ lastStep'.step.ref /\ ~ cached
                              => osHost' = osHost /\ lastStep'.res \in {"failed", "skipped"})
  <2> SUFFICES ASSUME ExecutorInv, [StepNext]_stepVars
               PROVE  ExecutorInv' /\ (lastStep' # lastStep /\ lastStep'.step.ref /\ ~ cached
                                         => osHost' = osHost /\ lastStep'.res \in {"failed", "skipped"})
    OBVIOUS
  <2>1. CASE RunTaskStep
    BY <2>1, ExecutorRuns
  <2>2. CASE SecretCached
    BY <2>2 DEF SecretCached, ExecutorInv, StepConverges, Wanted, ChangedIsReported
  <2>3. CASE UNCHANGED stepVars
    BY <2>3 DEF stepVars, ExecutorInv, StepConverges, Wanted, ChangedIsReported
  <2> QED  BY <2>1, <2>2, <2>3 DEF StepNext
<1>3. ExecutorInv => StepConverges /\ ChangedIsReported
  BY DEF ExecutorInv
<1> QED  BY <1>1, <1>2, <1>3, PTL DEF StepSpec, StepResultIsTrue, BareRefNeverRuns

-----------------------------------------------------------------------------
(* FilePaths. *)

\* A non-empty set of natural numbers has a least element.
LEMMA LeastOf ==
  ASSUME NEW T, T \subseteq Nat, T # {}
  PROVE  \E n \in T : \A m \in T : n <= m
<1>1. IsWellFoundedOn(OpToRel(<, Nat), Nat)
  BY NatLessThanWellFounded
<1>2. PICK n \in T : \A m \in T : ~(<<m, n>> \in OpToRel(<, Nat))
  BY <1>1, WFMin
<1>3. \A m \in T : ~(m < n)
  BY <1>2 DEF OpToRel
<1> QED BY <1>3

\* A cleaned path: no ".", and ".." only in front.
Parts == Names \cup {".."}
DotsInFront(q) == \A i \in 1..Len(q), j \in 1..Len(q) : j < i /\ q[i] = ".." => q[j] = ".."
CleanPath(q) == q \in Seq(Parts) /\ DotsInFront(q)

\* One component more leaves a path clean (CleanStep).
LEMMA CleanStepKeeps ==
  ASSUME NEW q, CleanPath(q), NEW e \in Names \cup {".", ".."}
  PROVE  CleanPath(CleanStep(q, e))
<1>1. CASE e = "."
  BY <1>1 DEF CleanStep
<1>2. CASE e = ".." /\ q # <<>> /\ q[Len(q)] # ".."
  <2>1. Len(q) \in Nat /\ Len(q) >= 1
    BY <1>2 DEF CleanPath
  <2> DEFINE r == SubSeq(q, 1, Len(q) - 1)
  <2>2. r \in Seq(Parts) /\ Len(r) = Len(q) - 1 /\ \A i \in 1..Len(r) : r[i] = q[i]
    <3>1. \A i \in 1..(Len(q) - 1) : q[i] \in Parts
      BY <2>1 DEF CleanPath
    <3>2. /\ r \in Seq(Parts) /\ Len(r) = (IF 1 <= Len(q) - 1 THEN Len(q) - 1 - 1 + 1 ELSE 0)
          /\ \A i \in 1..(Len(q) - 1 - 1 + 1) : r[i] = q[1 + i - 1]
      BY <2>1, <3>1, SubSeqProperties
    <3> HIDE DEF r
    <3>3. Len(r) = Len(q) - 1 /\ Len(q) - 1 - 1 + 1 = Len(q) - 1
      <4>1. PICK n \in Nat : n = Len(q)
        BY <2>1
      <4> n >= 1
        BY <2>1, <4>1
      <4>2. n - 1 - 1 + 1 = n - 1 /\ (1 <= n - 1 \/ n - 1 = 0)
        OBVIOUS
      <4> QED BY <3>2, <4>1, <4>2
    <3>4. ASSUME NEW i \in 1..Len(r)
          PROVE  r[i] = q[i]
      <4>1. 1 + i - 1 = i /\ i \in 1..(Len(q) - 1 - 1 + 1)
        BY <2>1, <3>3
      <4> QED BY <3>2, <4>1
    <3> QED BY <3>2, <3>3, <3>4
  <2>3. CleanStep(q, e) = r
    BY <1>2 DEF CleanStep
  <2> HIDE DEF r
  <2>4. DotsInFront(r)
    BY <2>1, <2>2 DEF CleanPath, DotsInFront
  <2> QED BY <2>2, <2>3, <2>4 DEF CleanPath
<1>3. CASE e # "." /\ ~(e = ".." /\ q # <<>> /\ q[Len(q)] # "..")
  <2> DEFINE r == Append(q, e)
  <2>1. Len(q) \in Nat /\ e \in Parts
    BY <1>3 DEF CleanPath, Parts
  <2>2. /\ r \in Seq(Parts) /\ Len(r) = Len(q) + 1 /\ r[Len(q) + 1] = e
        /\ \A i \in 1..Len(q) : r[i] = q[i]
    BY <2>1 DEF CleanPath
  <2>3. CleanStep(q, e) = r
    BY <1>3 DEF CleanStep
  <2>4. ASSUME e = "..", NEW j \in 1..Len(q)
        PROVE  q[j] = ".."
    <3>1. q # <<>> /\ q[Len(q)] = ".."
      BY <1>3, <2>1, <2>4 DEF CleanPath
    <3>2. j = Len(q) \/ j < Len(q)
      BY <2>1
    <3> QED BY <2>1, <3>1, <3>2 DEF CleanPath, DotsInFront
  <2> HIDE DEF r
  <2>5. ASSUME NEW i \in 1..Len(r), NEW j \in 1..Len(r), j < i, r[i] = ".."
        PROVE  r[j] = ".."
    <3>1. j \in 1..Len(q)
      BY <2>1, <2>2, <2>5
    <3>2. CASE i \in 1..Len(q)
      BY <3>1, <3>2, <2>2, <2>5 DEF CleanPath, DotsInFront
    <3>3. CASE i = Len(q) + 1
      BY <3>1, <3>3, <2>2, <2>4, <2>5
    <3> QED BY <2>1, <2>2, <3>2, <3>3
  <2> QED BY <2>2, <2>3, <2>5 DEF CleanPath, DotsInFront
<1> QED BY <1>1, <1>2, <1>3

\* cl holds what is left of the first components of p, up to n of them.
CleansUpTo(p, n, cl) ==
  cl = [i \in 0..n |-> IF i = 0 THEN <<>> ELSE CleanStep(cl[i - 1], p[i])]

\* There is such a function: the recursive definition of Cleaned has a value.
LEMMA CleanedExists ==
  ASSUME NEW p, NEW n \in Nat
  PROVE  \E cl : CleansUpTo(p, n, cl)
<1> DEFINE T == {i \in Nat : ~ \E cl : CleansUpTo(p, i, cl)}
<1>1. SUFFICES ASSUME T # {} PROVE FALSE
  OBVIOUS
<1>2. PICK k \in T : \A m \in T : k <= m
  BY <1>1, LeastOf
<1>3. k \in Nat /\ ~ \E cl : CleansUpTo(p, k, cl)
  OBVIOUS
<1>4. k # 0
  <2>1. CleansUpTo(p, 0, [i \in 0..0 |-> <<>>])
    BY DEF CleansUpTo
  <2> QED BY <2>1, <1>3
<1>5. k - 1 \in Nat /\ k - 1 \notin T
  BY <1>2, <1>3, <1>4
<1>6. PICK g : CleansUpTo(p, k - 1, g)
  BY <1>5
<1> DEFINE f == [i \in 0..k |-> IF i = k THEN CleanStep(g[k - 1], p[k]) ELSE g[i]]
<1>7. ASSUME NEW i \in 0..k
      PROVE  f[i] = IF i = 0 THEN <<>> ELSE CleanStep(f[i - 1], p[i])
  <2>1. CASE i = k
    <3>1. i - 1 \in 0..k /\ i - 1 # k /\ i # 0
      BY <2>1, <1>3, <1>4
    <3> QED BY <2>1, <3>1
  <2>2. CASE i # k
    <3>1. i \in 0..(k - 1)
      BY <2>2, <1>3
    <3>2. g[i] = IF i = 0 THEN <<>> ELSE CleanStep(g[i - 1], p[i])
      BY <1>6, <3>1 DEF CleansUpTo
    <3>3. i # 0 => i - 1 \in 0..k /\ i - 1 # k
      BY <1>3, <3>1
    <3> QED BY <2>2, <3>2, <3>3
  <2> QED BY <2>1, <2>2
<1>8. CleansUpTo(p, k, f)
  <2>1. f = [i \in 0..k |-> f[i]]
    OBVIOUS
  <2> HIDE DEF f
  <2> QED BY <1>7, <2>1 DEF CleansUpTo
<1> QED BY <1>3, <1>8

\* Whatever the request: the path walked has its ".." in front and no ".".
LEMMA CleanIsClean ==
  ASSUME NEW p \in Paths
  PROVE  CleanPath(Clean(p))
<1>1. Len(p) \in Nat /\ \A i \in 1..Len(p) : p[i] \in Names \cup {".", ".."}
  BY PathAssumption DEF Paths
<1> DEFINE n == Len(p)
           cl == Cleaned(p)
<1>2. CleansUpTo(p, n, cl)
  <2>1. \E g : CleansUpTo(p, n, g)
    BY <1>1, CleanedExists
  <2> QED BY <2>1 DEF CleansUpTo, Cleaned
<1> HIDE DEF cl
<1>3. cl[0] = <<>> /\ \A i \in 1..n : cl[i] = CleanStep(cl[i - 1], p[i])
  BY <1>1, <1>2 DEF CleansUpTo
<1> DEFINE T == {i \in 0..n : ~ CleanPath(cl[i])}
<1>4. SUFFICES ASSUME T # {} PROVE FALSE
  BY <1>1 DEF Clean, cl
<1>5. PICK k \in T : \A m \in T : k <= m
  <2>1. T \subseteq Nat
    OBVIOUS
  <2> HIDE DEF T
  <2> QED BY <1>4, <2>1, LeastOf
<1>6. k # 0
  <2>1. CleanPath(<<>>)
    BY DEF CleanPath, DotsInFront
  <2> QED BY <2>1, <1>3
<1>7. k \in 1..n /\ k - 1 \in 0..n /\ k - 1 \notin T
  BY <1>1, <1>5, <1>6
<1>8. CleanPath(cl[k]) 
  BY <1>1, <1>3, <1>7, CleanStepKeeps
<1> QED BY <1>8

\* What an operation was let through with is the cleaned request, and the walk
\* lets it through on the tree as it is now.
PathsSafe ==
  /\ request \in Paths /\ tree \in [Nodes -> Kinds]
  /\ pathState \in {"resolved", "begun", "committed"} =>
       reached = Clean(request) /\ ResolvePath(tree, reached)

\* A path the walk lets through is followed without leaving the root.
LEMMA WalkStaysInside ==
  ASSUME NEW t, NEW q, CleanPath(q), ResolvePath(t, q)
  PROVE  OpensInside(t, q)
<1>1. Len(q) \in Nat /\ (q # <<>> => Len(q) >= 1)
  BY DEF CleanPath
<1> SUFFICES ASSUME NEW i \in 1..Len(q)
             PROVE  q[i] # ".." /\ KindAt(t, SubSeq(q, 1, i)) # "link"
  BY DEF OpensInside
<1>2. q[i] # ".."
  <2>1. q # <<>> /\ q[1] # ".."
    BY <1>1 DEF ResolvePath, Escapes, CleanPath
  <2>2. i = 1 \/ 1 < i
    BY <1>1
  <2> QED BY <1>1, <2>1, <2>2 DEF CleanPath, DotsInFront
<1>3. CASE i = Len(q)
  <2>1. SubSeq(q, 1, Len(q)) = q
    BY <1>1 DEF CleanPath
  <2> QED BY <1>2, <1>3, <2>1 DEF ResolvePath
<1>4. CASE i # Len(q)
  <2>1. i \in 1..(Len(q) - 1)
    BY <1>1, <1>4
  <2> QED BY <1>2, <2>1 DEF ResolvePath
<1> QED BY <1>3, <1>4

\* A path that the walk of an upload lets through, the walk of the commit lets
\* through on the tree with the missing directories created.
LEMMA UploadWalksAgree ==
  ASSUME NEW t \in [Nodes -> Kinds], NEW q, CleanPath(q), q # <<>>, Len(q) <= 2,
         resolvePathForUpload(t, q)
  PROVE  /\ uploadTree(t, q) \in [Nodes -> Kinds]
         /\ ResolvePath(uploadTree(t, q), q)
<1> DEFINE u == uploadTree(t, q)
<1>1. Len(q) \in 1..2 /\ q \in Seq(Parts) /\ q[1] \in Parts
  <2>1. q \in Seq(Parts) /\ Len(q) \in Nat /\ Len(q) # 0
    <3>1. q \in Seq(Parts)
      BY DEF CleanPath
    <3> QED BY <3>1, EmptySeq
  <2>2. Len(q) = 1 \/ Len(q) = 2
    <3>1. PICK n \in Nat : n = Len(q)
      BY <2>1
    <3>2. n # 0 /\ n <= 2
      BY <2>1, <3>1
    <3>3. n = 1 \/ n = 2
      BY <3>2
    <3> QED BY <3>1, <3>3
  <2>3. 1 \in 1..Len(q)
    BY <2>2
  <2> QED BY <2>1, <2>2, <2>3, ElementOfSeq
<1>2. q[1] \in Names
  BY <1>1 DEF resolvePathForUpload, Escapes, Parts
<1>3. u \in [Nodes -> Kinds]
  BY DEF uploadTree, Kinds
<1>4. KindAt(u, q) = KindAt(t, q)
  BY <1>3 DEF KindAt, uploadTree
<1>5. ASSUME NEW i \in 1..(Len(q) - 1)
      PROVE  KindAt(u, SubSeq(q, 1, i)) = "dir"
  <2> DEFINE a == SubSeq(q, 1, i)
  <2>1. i = 1 /\ Len(q) = 2
    <3>1. Len(q) = 1 \/ Len(q) = 2
      BY <1>1
    <3>2. CASE Len(q) = 1
      <4>1. i \in 1..0
        BY <3>2
      <4> QED BY <4>1
    <3>3. CASE Len(q) = 2
      <4>1. i \in 1..1
        BY <3>3
      <4> QED BY <3>3, <4>1
    <3> QED BY <3>1, <3>2, <3>3
  <2>2. a = <<q[1]>>
    <3>1. \A j \in 1..1 : q[j] \in Parts
      BY <1>1
    <3>2. a \in Seq(Parts) /\ Len(a) = 1 /\ a[1] = q[1]
      BY <2>1, <3>1, SubSeqProperties
    <3> HIDE DEF a
    <3> QED BY <3>2
  <2> HIDE DEF a
  <2>3. a \in Nodes /\ Len(a) = 1 /\ a # <<>>
    <3>1. a \in [1..1 -> Names]
      BY <1>2, <2>2
    <3>2. \A k \in 1..2 : [1..k -> Names] \subseteq Nodes
      BY DEF Nodes
    <3>3. a \in Nodes
      BY <3>1, <3>2
    <3> QED BY <2>2, <3>3
  <2>4. KindAt(t, a) \in {"dir", "none"}
    BY <1>5 DEF resolvePathForUpload, a
  <2>5. t[a] \in {"dir", "none"} /\ a = SubSeq(q, 1, Len(a))
    BY <2>1, <2>3, <2>4 DEF KindAt, a
  <2>6. u[a] = "dir"
    BY <2>1, <2>3, <2>5 DEF uploadTree
  <2> QED BY <1>3, <2>3, <2>6 DEF KindAt, a
<1> QED BY <1>3, <1>4, <1>5 DEF resolvePathForUpload, ResolvePath

\* Every operation keeps it.
LEMMA PathsStep ==
  ASSUME PathsSafe, [PathsNext]_pathVars
  PROVE  PathsSafe'
<1> USE DEF PathsSafe
<1>1. CASE PrepareFileRoot
  BY <1>1 DEF PrepareFileRoot
<1>2. CASE Resolve
  BY <1>2 DEF Resolve
<1>3. CASE BeginUpload
  <2> DEFINE q == Clean(request)
  <2>1. CASE resolvePathForUpload(tree, q)
    <3>1. CleanPath(q)
      BY CleanIsClean
    <3>2. uploadTree(tree, q) \in [Nodes -> Kinds] /\ ResolvePath(uploadTree(tree, q), q)
      BY <1>3, <2>1, <3>1, UploadWalksAgree DEF BeginUpload
    <3>3. request' = request /\ reached' = q /\ tree' = uploadTree(tree, q)
      BY <1>3, <2>1 DEF BeginUpload
    <3> HIDE DEF q
    <3> QED BY <3>2, <3>3 DEF q
  <2>2. CASE ~ resolvePathForUpload(tree, q)
    BY <1>3, <2>2 DEF BeginUpload
  <2> QED BY <2>1, <2>2
<1>4. CASE CommitUpload
  BY <1>4 DEF CommitUpload
<1>5. CASE UNCHANGED pathVars
  BY <1>5 DEF pathVars
<1> QED BY <1>1, <1>2, <1>3, <1>4, <1>5 DEF PathsNext

\* Whatever the tree, the root, the request and its length: an operation that
\* is let through stays below the file root and follows no symlink, and the
\* commit of an upload lets through what its begin did.
THEOREM FileRootConfines == PathsSpec => RootConfines
<1>1. PathsInit => PathsSafe
  BY DEF PathsInit, PathsSafe, Trees
<1>2. PathsSafe /\ [PathsNext]_pathVars => PathsSafe'
  BY PathsStep
<1>3. PathsSafe => StaysInside
  BY CleanIsClean, WalkStaysInside DEF PathsSafe, StaysInside
<1> DEFINE Commits == pathState = "begun" => pathState' = "committed"
<1>4. PathsSafe /\ [PathsNext]_pathVars => [Commits]_pathVars
  BY DEF PathsSafe, PathsNext, PrepareFileRoot, Resolve, BeginUpload, CommitUpload, pathVars
<1>5. PathsSpec => []StaysInside
  BY <1>1, <1>2, <1>3, PTL DEF PathsSpec
<1>6. PathsSpec => [][Commits]_pathVars
  BY <1>1, <1>2, <1>4, PTL DEF PathsSpec
<1> QED BY <1>5, <1>6 DEF RootConfines, CommitFollowsBegin

-----------------------------------------------------------------------------
(* SelfUpdate. *)

\* The process that carries out an update has connected and can run; its marker
\* names the update's version and stays clear before WriteMarker.
Updating ==
  /\ step # "idle" => connected /\ proc # "down"
  /\ connected /\ proc # "down" => proc \notin Broken
  /\ connected /\ proc # "down" /\ step \in {"idle", "fetching", "validated"} => marker = NoMarker
  /\ step # "idle" => target \in Versions
  /\ step \in {"marked", "retained", "swapped"} => marker.target = target
  /\ marker # NoMarker => marker.target = target /\ target \in Versions

\* What Swap retains can run, and so can what is installed until the rename.
Retained ==
  /\ prev \notin Broken
  /\ step \in {"retained", "swapped"} => prev \in Versions
  /\ connected /\ proc # "down" /\ step # "swapped" => bin \notin Broken

\* Under the guard what runs is what is installed, and what Swap retains is what
\* ran when the update began; the check at start finds its own binary, and under
\* the guard its own marker.
GuardedSwap ==
  /\ guarded /\ proc # "down" /\ step # "swapped" => bin = proc
  /\ step \in {"fetching", "validated", "marked", "retained"} => target # proc /\ before = proc
  /\ guarded /\ step \in {"retained", "swapped"} => prev = before
  /\ guarded /\ marker # NoMarker /\ bin = target => prev = before
  /\ proc # "down" /\ ~connected /\ marker # NoMarker => proc = bin /\ (guarded => marker.target = bin)

SelfUpdateSafe ==
  /\ SelfUpdateTypeOK /\ target \in Versions \cup {"none"}
  /\ marker \in [target : Versions \cup {"none"}, stale : BOOLEAN]
  /\ Updating /\ Retained /\ GuardedSwap
  /\ BrokenIsSupervised /\ VerifiedCanRun

\* An agent that was just installed.
LEMMA SelfUpdateStarts == SelfUpdateInit => SelfUpdateSafe
<1> SUFFICES ASSUME SelfUpdateInit PROVE SelfUpdateSafe
  OBVIOUS
<1> USE SelfUpdateAssumption DEF SelfUpdateInit
<1>1. /\ marker \in [target : Versions \cup {"none"}, stale : BOOLEAN]
      /\ marker.target = "none" /\ marker.stale = FALSE
  BY DEF NoMarker
<1>2. SelfUpdateTypeOK
  <2>1. connected \in BOOLEAN /\ guarded \in BOOLEAN
    BY Zenon
  <2> QED BY <1>1, <2>1 DEF SelfUpdateTypeOK
<1>3. Updating
  BY DEF Updating
<1>4. Retained /\ GuardedSwap
  BY DEF Retained, GuardedSwap
<1>5. BrokenIsSupervised /\ VerifiedCanRun
  BY DEF BrokenIsSupervised, VerifiedCanRun
<1> QED BY <1>1, <1>2, <1>3, <1>4, <1>5 DEF SelfUpdateSafe

\* Every step of the update, of the guard and of the supervisor keeps it.
LEMMA SelfUpdateStep ==
  ASSUME SelfUpdateSafe, [SelfUpdateNext]_selfUpdateVars
  PROVE  SelfUpdateSafe'
<1> USE SelfUpdateAssumption
    DEF SelfUpdateSafe, SelfUpdateTypeOK, Updating, Retained, GuardedSwap, BrokenIsSupervised,
        VerifiedCanRun, NoMarker, files, aim, tally
<1>1. CASE Boot
  <2>0. connected' \in BOOLEAN /\ ~ connected'
    <3>1. connected' = FALSE
      BY <1>1 DEF Boot
    <3> QED BY <3>1, Zenon
  <2>1. CASE GuardRollsBack
    <3>1. /\ step' = "idle" /\ proc' = bin' /\ marker' = NoMarker /\ prev' = "absent"
          /\ bin' = IF prev = "absent" THEN bin ELSE prev
          /\ UNCHANGED <<target, before, verdicts, guarded, directives, agentCrashes>>
      BY <1>1, <2>1 DEF Boot, RestoreN1
    <3>2. bin' \in Versions \ Broken
      BY <3>1
    <3>3. marker'.target = "none" /\ marker'.stale = FALSE
      BY <3>1
    <3>4. SelfUpdateTypeOK' /\ marker' \in [target : Versions \cup {"none"}, stale : BOOLEAN]
      BY <2>0, <3>1, <3>2, <3>3
    <3>5. Updating' /\ Retained'
      BY <2>0, <3>1, <3>2, <3>3
    <3>6. GuardedSwap' /\ BrokenIsSupervised' /\ VerifiedCanRun'
      BY <2>0, <3>1, <3>2, <3>3
    <3> QED BY <3>1, <3>4, <3>5, <3>6
  <2>2. CASE ~ GuardRollsBack
    BY <1>1, <2>0, <2>2 DEF Boot, GuardRollsBack
  <2> QED BY <2>1, <2>2
<1>2. CASE PostBootCheck
  BY <1>2 DEF PostBootCheck, RestoreN1
<1>3. CASE CrashLoop
  BY <1>3 DEF CrashLoop
<1>4. CASE postConnectUpdateCheck
  BY <1>4 DEF postConnectUpdateCheck
<1>5. ASSUME NEW v \in Versions, Directive(v)
      PROVE  SelfUpdateSafe'
  BY <1>5 DEF Directive
<1>6. CASE Validated
  BY <1>6 DEF Validated
<1>7. CASE FailBeforeSwap
  BY <1>7 DEF FailBeforeSwap
<1>8. CASE WriteMarker
  BY <1>8 DEF WriteMarker
<1>9. CASE SwapRetain
  BY <1>9 DEF SwapRetain
<1>10. CASE SwapRename
  BY <1>10 DEF SwapRename
<1>11. CASE SwapFails
  BY <1>11 DEF SwapFails
<1>12. CASE Exit
  BY <1>12 DEF Exit
<1>13. CASE AgentCrash
  BY <1>13 DEF AgentCrash
<1>14. CASE MarkerAges
  BY <1>14 DEF MarkerAges
<1>15. CASE UNCHANGED selfUpdateVars
  BY <1>15 DEF selfUpdateVars
<1> QED BY <1>1, <1>2, <1>3, <1>4, <1>5, <1>6, <1>7, <1>8, <1>9, <1>10, <1>11, <1>12, <1>13,
           <1>14, <1>15 DEF SelfUpdateNext

\* Whatever the versions, directives and crashes: a binary that cannot run is
\* installed only under its marker and beside one that can, and no version that
\* cannot run is reported verified.
THEOREM BrokenUpdatesAreSupervised ==
  SelfUpdateSpec => [](BrokenIsSupervised /\ VerifiedCanRun)
<1>1. SelfUpdateSafe => BrokenIsSupervised /\ VerifiedCanRun
  BY DEF SelfUpdateSafe
<1>2. SelfUpdateSafe /\ [SelfUpdateNext]_selfUpdateVars => SelfUpdateSafe'
  BY SelfUpdateStep
<1> QED BY <1>1, <1>2, SelfUpdateStarts, PTL DEF SelfUpdateSpec

\* A rollback of an installed update brings back the version that ran when the
\* update began, not an older one that was retained before.
THEOREM RollbacksAreToNMinus1 == SelfUpdateSpec => RollbackIsNMinus1
<1> DEFINE ToN1 == bin' # bin /\ step' = "idle" /\ bin = target => bin' = before
<1>1. ASSUME SelfUpdateSafe, [SelfUpdateNext]_selfUpdateVars
      PROVE  [ToN1]_selfUpdateVars
  <2> SUFFICES ASSUME SelfUpdateNext, bin' # bin, step' = "idle", bin = target
               PROVE  bin' = before
    BY <1>1
  <2>1. Boot \/ PostBootCheck \/ SwapRename
    BY DEF SelfUpdateNext, CrashLoop, postConnectUpdateCheck, Directive, Validated,
           FailBeforeSwap, WriteMarker, SwapRetain, SwapFails, Exit, AgentCrash, MarkerAges, files
  <2>2. CASE Boot
    BY <1>1, <2>2 DEF Boot, GuardRollsBack, RestoreN1, files, SelfUpdateSafe, GuardedSwap
  <2>3. CASE PostBootCheck
    BY <1>1, <2>3 DEF PostBootCheck, SelfUpdateSafe, Updating, GuardedSwap
  <2>4. CASE SwapRename
    BY <2>4 DEF SwapRename
  <2> QED BY <2>1, <2>2, <2>3, <2>4
<1>2. SelfUpdateSafe /\ [SelfUpdateNext]_selfUpdateVars => SelfUpdateSafe'
  BY SelfUpdateStep
<1>3. SelfUpdateSpec => [][ToN1]_selfUpdateVars
  BY <1>1, <1>2, SelfUpdateStarts, PTL DEF SelfUpdateSpec
<1> QED BY <1>3 DEF RollbackIsNMinus1

-----------------------------------------------------------------------------
(* Credentials. *)

CredTypes ==
  /\ clock \in Nat
  /\ agentRow \in [CredHosts -> {"none", "pending", "connected", "disconnected"}]
  /\ rowLeafAt \in [CredHosts -> Nat \cup {-1}]
  /\ credProc \in [CredHosts -> {"down", "enrolling", "running", "stopped"}]
  /\ enroll \in [CredHosts -> {NoHandler} \cup ({"sent", "read", "consumed", "created"} \X CredTokens)]
  /\ session \in [CredHosts -> {"none", "checking", "up"}]
  /\ wire \in [CredHosts -> SUBSET {"renew", "cert", "revoke"}]

\* A host enrolls or has a stream, never both; only a live stream carries anything.
OneAtATime ==
  \A h \in CredHosts :
    /\ enroll[h] # NoHandler => credProc[h] = "enrolling"
    /\ session[h] # "none" => credProc[h] = "running"
    /\ wire[h] # {} => session[h] = "up"

\* Between its creation and its leaf a row is in the hands of its handler.
RowHasLeaf ==
  tlsOn => \A h \in CredHosts : agentRow[h] # "none" => rowLeafAt[h] # -1 \/ At(h, "created")

CredSafe == CredTypes /\ OneAtATime /\ RowHasLeaf

\* Every step keeps it.
LEMMA CredStep ==
  ASSUME CredSafe, [CredNext]_credVars
  PROVE  CredSafe'
<1> USE DEF CredSafe, CredTypes, OneAtATime, RowHasLeaf, NoHandler, At
<1>1. ASSUME NEW t \in CredTokens, CreateEnrollmentToken(t) \/ TokenExpires(t)
      PROVE  CredSafe'
  BY <1>1 DEF CreateEnrollmentToken, TokenExpires
<1>2. ASSUME NEW h \in CredHosts, NEW t \in CredTokens, runAgent(h, t)
      PROVE  CredSafe'
  BY <1>2 DEF runAgent
<1>3. ASSUME NEW h \in CredHosts, HandleEnroll(h)
      PROVE  CredSafe'
  <2> USE DEF Token, Moves, CredEnds, EnrollFails
  <2>1. CASE EnrollRefused(h)
    BY <2>1 DEF EnrollRefused
  <2>2. CASE ConsumeReads(h)
    BY <2>2 DEF ConsumeReads
  <2>3. CASE ConsumeEnrollmentToken(h)
    BY <2>3 DEF ConsumeEnrollmentToken
  <2>4. CASE CreateRow(h)
    BY <2>4 DEF CreateRow, UpsertAgent
  <2>5. CASE EnrollRollback(h)
    BY <2>5 DEF EnrollRollback, DeleteAgentRow
  <2>6. CASE EnrollAnswers(h)
    BY <2>6 DEF EnrollAnswers, SetAgentTLS, SignAgentCert
  <2> QED BY <1>3, <2>1, <2>2, <2>3, <2>4, <2>5, <2>6 DEF HandleEnroll
<1>4. ASSUME NEW h \in CredHosts, HandshakeReads(h)
      PROVE  CredSafe'
  BY <1>4 DEF HandshakeReads
<1>5. ASSUME NEW h \in CredHosts, HandshakeDone(h)
      PROVE  CredSafe'
  BY <1>5 DEF HandshakeDone, SetAgentState
<1>6. ASSUME NEW h \in CredHosts, StreamBreaks(h)
      PROVE  CredSafe'
  BY <1>6 DEF StreamBreaks, StreamEnds, SetAgentState
<1>7. ASSUME NEW h \in CredHosts, RotateAgentCert(h)
      PROVE  CredSafe'
  BY <1>7 DEF RotateAgentCert, SetAgentTLS, SignLeafForPublicKey
<1>8. ASSUME NEW h \in CredHosts, PushCertExpiryRotation(h) \/ RenewReceived(h) \/ handleRotate(h)
      PROVE  CredSafe'
  BY <1>7, <1>8 DEF PushCertExpiryRotation, RenewReceived, handleRotate
<1>9. ASSUME NEW h \in CredHosts, RotateLeaf(h)
      PROVE  CredSafe'
  BY <1>9 DEF RotateLeaf
<1>10. ASSUME NEW h \in CredHosts, handleDeleteHost(h)
       PROVE  CredSafe'
  BY <1>10 DEF handleDeleteHost, DeleteAgentRow
<1>11. ASSUME NEW h \in CredHosts, RevokeAgent(h)
       PROVE  CredSafe'
  BY <1>11 DEF RevokeAgent
<1>12. ASSUME NEW h \in CredHosts, AgentRevoked(h)
       PROVE  CredSafe'
  BY <1>12 DEF AgentRevoked, StreamEnds, SetAgentState
<1>13. CASE TimePasses
  BY <1>13 DEF TimePasses
<1>14. CASE UNCHANGED credVars
  BY <1>14 DEF credVars
<1> QED BY <1>1, <1>2, <1>3, <1>4, <1>5, <1>6, <1>8, <1>9, <1>10, <1>11, <1>12, <1>13, <1>14
        DEF CredNext

\* Whatever the hosts, tokens, faults and removals: on a TLS server a row whose
\* enrollment was answered has the leaf its rotation starts from.
THEOREM EnrollmentIsAllOrNothing == CredSpec => []EnrolledHasLeaf
<1>1. CredInit => CredSafe
  BY CredAssumption DEF CredInit, CredSafe, CredTypes, OneAtATime, RowHasLeaf, NoHandler
<1>2. CredSafe /\ [CredNext]_credVars => CredSafe'
  BY CredStep
<1>3. CredSafe => EnrolledHasLeaf
  BY DEF CredSafe, RowHasLeaf, EnrolledHasLeaf, At
<1> QED BY <1>1, <1>2, <1>3, PTL DEF CredSpec

-----------------------------------------------------------------------------
(* Provision. *)

ProvStates == {"none", "queued", "connecting", "key_confirm", "confirming", "preflight", "transferring",
               "installing", "enrolling", "failed", "cancelled", "connected", "handoff"}

ProvTypes ==
  /\ provState \in [ProvRuns -> ProvStates]
  /\ provPc \in [ProvRuns -> StepNames \cup {"none", "connect", "gate"}]
  /\ provCancelled \subseteq ProvRuns /\ provConfirmed \subseteq ProvRuns
  /\ vetted \subseteq ProvRuns
  /\ provCall \in {NoProvCall} \cup ({"start", "confirm", "cancel"} \X ProvRuns)
  /\ knownHost \in BOOLEAN /\ agentUp \in {"none", "old", "new"}

\* A run that does not exist yet has no goroutine and no confirmation; a call
\* that starts one has found no row, the others have found one.
RunsExist ==
  /\ \A r \in ProvRuns : provState[r] = "none" => provPc[r] = "none" /\ r \notin provConfirmed
  /\ provCall[1] = "start" => provState[provCall[2]] = "none"
  /\ provCall[1] \in {"confirm", "cancel"} => provState[provCall[2]] # "none"

\* Where a confirmation is waited for, it is one of the key the run captured.
ConfirmedIsVetted ==
  \A r \in ProvRuns : provPc[r] \in {"connect", "gate"} /\ r \in provConfirmed => r \in vetted

ProvSafe == ProvTypes /\ RunsExist /\ ConfirmedIsVetted

\* Every step keeps it.
LEMMA ProvStep ==
  ASSUME ProvSafe, [ProvNext]_provVars
  PROVE  ProvSafe'
<1> USE DEF ProvSafe, ProvTypes, RunsExist, ConfirmedIsVetted, ProvStates, StepNames, NoProvCall,
            SetProvisionRunState, setTerminal, isTerminal, Advance
<1>1. ASSUME NEW r \in ProvRuns, StartCheck(r)
      PROVE  ProvSafe'
  BY <1>1 DEF StartCheck, ProvCalled
<1>2. CASE StartRun
  <2>1. provCall \in {"start"} \X ProvRuns
    BY <1>2 DEF StartRun
  <2>2. provCall[2] \in ProvRuns
    BY <2>1
  <2> QED BY <1>2, <2>2 DEF StartRun
<1>3. ASSUME NEW r \in ProvRuns, Goroutine(r)
      PROVE  ProvSafe'
  <2>1. CASE stepConnect(r)
    BY <2>1 DEF stepConnect, HostKey, HasHost
  <2>2. CASE GateConfirmed(r)
    BY <2>2 DEF GateConfirmed
  <2>3. CASE GateCancelled(r)
    BY <2>3 DEF GateCancelled
  <2>4. CASE BeginStep(r)
    <3>1. StateOf(provPc[r]) \in ProvStates \ {"none"}
      BY DEF StateOf
    <3> QED BY <2>4, <3>1 DEF BeginStep
  <2>5. CASE failStep(r)
    BY <2>5 DEF failStep, Begun
  <2>6. CASE stepPreflight(r)
    BY <2>6 DEF stepPreflight, Begun
  <2>7. CASE stepTransfer(r)
    BY <2>7 DEF stepTransfer, Begun
  <2>8. CASE stepInstall(r)
    BY <2>8 DEF stepInstall, Begun
  <2>9. CASE stepWaitEnroll(r)
    BY <2>9 DEF stepWaitEnroll, Begun, WaitTimesOut
  <2> QED BY <1>3, <2>1, <2>2, <2>3, <2>4, <2>5, <2>6, <2>7, <2>8, <2>9 DEF Goroutine
<1>4. CASE ConfirmKey
  <2>1. provCall \in {"confirm"} \X ProvRuns
    BY <1>4 DEF ConfirmKey
  <2>2. provCall[2] \in ProvRuns
    BY <2>1
  <2> QED BY <1>4, <2>2 DEF ConfirmKey, AddKey
<1>5. CASE CancelRun
  <2>1. provCall \in {"cancel"} \X ProvRuns
    BY <1>5 DEF CancelRun
  <2>2. provCall[2] \in ProvRuns
    BY <2>1
  <2> QED BY <1>5, <2>2 DEF CancelRun
<1>6. ASSUME NEW r \in ProvRuns, ConfirmRead(r) \/ CancelRead(r)
      PROVE  ProvSafe'
  BY <1>6 DEF ConfirmRead, CancelRead, ProvCalled
<1>7. ASSUME NEW r \in ProvRuns, ConfirmLost(r)
      PROVE  ProvSafe'
  BY <1>7 DEF ConfirmLost, ProvCalled
<1>8. ASSUME NEW r \in ProvRuns, DenyKey(r)
      PROVE  ProvSafe'
  BY <1>8 DEF DenyKey, ProvCalled
<1>9. ASSUME NEW r \in ProvRuns, ReconfirmKey(r)
      PROVE  ProvSafe'
  BY <1>9 DEF ReconfirmKey, ProvCalled, RemoveHost, HostKey
<1>10. ASSUME NEW r \in ProvRuns, AgentEnrolls(r)
       PROVE  ProvSafe'
  BY <1>10 DEF AgentEnrolls
<1>11. CASE ReapStale
  BY <1>11 DEF ReapStale, ProvCalled
<1>12. CASE UNCHANGED provVars
  BY <1>12 DEF provVars
<1> QED BY <1>1, <1>2, <1>3, <1>4, <1>5, <1>6, <1>7, <1>8, <1>9, <1>10, <1>11, <1>12
        DEF ProvNext, handleCreateRun, handleRejoin, handleConfirmKey, handleReconfirmKey, handleCancelRun

\* Whatever the runs, calls and restarts of the server: a run that was stopped
\* at the fingerprint gate passes it on the key it captured and an operator
\* accepted.
THEOREM GatePassesOnTrust == ProvSpec => []ProvTypeOK /\ TrustBeforeSteps
<1>1. ProvInit => ProvSafe
  BY DEF ProvInit, ProvSafe, ProvTypes, RunsExist, ConfirmedIsVetted, ProvStates, NoProvCall
<1>2. ProvSafe /\ [ProvNext]_provVars => ProvSafe'
  BY ProvStep
<1>3. ProvSafe => ProvTypeOK
  BY DEF ProvSafe, ProvTypes, RunsExist, ProvTypeOK
<1> DEFINE Trusted == \A r \in ProvRuns : (provPc[r] = "gate" /\ provPc'[r] = "preflight") => r \in vetted
<1>4. ASSUME ProvSafe, [ProvNext]_provVars
      PROVE  [Trusted]_provVars
  <2> SUFFICES ASSUME ProvNext, NEW r \in ProvRuns, provPc[r] = "gate", provPc'[r] = "preflight"
               PROVE  r \in vetted
    BY <1>4
  <2> USE <1>4 DEF ProvSafe, ProvTypes, StepNames, Advance, Begun
  <2>1. ASSUME NEW q \in ProvRuns, Goroutine(q)
        PROVE  GateConfirmed(r)
    <3>1. CASE stepConnect(q)
      BY <3>1 DEF stepConnect
    <3>2. CASE GateCancelled(q)
      BY <3>2 DEF GateCancelled
    <3>3. CASE failStep(q) \/ stepPreflight(q) \/ stepTransfer(q) \/ stepInstall(q) \/ BeginStep(q)
      BY <3>3 DEF failStep, stepPreflight, stepTransfer, stepInstall, BeginStep
    <3>4. CASE stepWaitEnroll(q)
      BY <3>4 DEF stepWaitEnroll, WaitTimesOut
    <3>5. CASE GateConfirmed(q)
      BY <3>5 DEF GateConfirmed
    <3> QED BY <2>1, <3>1, <3>2, <3>3, <3>4, <3>5 DEF Goroutine
  <2>2. CASE StartRun
    <3>1. provCall \in {"start"} \X ProvRuns
      BY <2>2 DEF StartRun, NoProvCall
    <3>2. provCall[2] \in ProvRuns
      BY <3>1
    <3> QED BY <2>2, <3>2 DEF StartRun
  <2>3. ASSUME ~ StartRun, \A q \in ProvRuns : ~ Goroutine(q)
        PROVE  FALSE
    BY <2>3 DEF ProvNext, handleCreateRun, handleRejoin, StartCheck, ConfirmKey, CancelRun,
                handleConfirmKey, ConfirmRead, ConfirmLost, DenyKey, handleReconfirmKey, ReconfirmKey,
                handleCancelRun, CancelRead, AgentEnrolls, ReapStale
  <2>4. CASE GateConfirmed(r)
    BY <2>4 DEF GateConfirmed, ConfirmedIsVetted
  <2> QED BY <2>1, <2>2, <2>3, <2>4
<1>5. ProvSpec => []ProvTypeOK
  BY <1>1, <1>2, <1>3, PTL DEF ProvSpec
<1>6. ProvSpec => [][Trusted]_provVars
  BY <1>1, <1>2, <1>4, PTL DEF ProvSpec
<1> QED BY <1>5, <1>6 DEF TrustBeforeSteps

-----------------------------------------------------------------------------
(* Sessions. *)

DataUp == [kind : {"data"}, s : PtySessions, state : Nat]
ResultUp == [kind : {"result"}, s : PtySessions, state : {"denied", "failed", "interrupted", "succeeded"}]
DownEnvelopes == [kind : {"open", "close", "input", "resize"}, s : PtySessions]

SessionTypes ==
  /\ toServer \in Seq(DataUp \cup ResultUp) /\ toAgent \in Seq(DownEnvelopes)
  /\ chunks \in [PtySessions -> Nat] /\ recSeq \in [PtySessions -> Nat]
  /\ records \in [PtySessions -> SUBSET (Nat \X Nat)]

IsData(i, s) == toServer[i].kind = "data" /\ toServer[i].s = s

\* Chunks are on the stream in the order they were written in, none is on it
\* twice, and the recording ends in front of all of them.
OutputInOrder ==
  \A s \in PtySessions :
    /\ \A i \in 1..Len(toServer) : IsData(i, s) =>
         /\ toServer[i].state <= chunks[s]
         /\ \A j \in 1..Len(toServer) : j < i /\ IsData(j, s) => toServer[j].state < toServer[i].state
         /\ \A q \in records[s] : q[2] < toServer[i].state
    /\ \A q \in records[s] : q[1] < recSeq[s] /\ q[2] <= chunks[s]

SessionsSafe == SessionTypes /\ OutputInOrder

\* An envelope at the end of the stream that is a result, or a chunk newer than
\* all that were written, keeps the order.
LEMMA SendUpKeeps ==
  ASSUME SessionsSafe, NEW s \in PtySessions, NEW kind, NEW state,
         sendUpEnvelopeNoSpool(kind, s, state),
         \/ /\ kind = "data" /\ state = chunks[s] + 1
            /\ chunks' = [chunks EXCEPT ![s] = @ + 1]
         \/ /\ kind = "result" /\ state \in {"denied", "failed", "interrupted", "succeeded"}
            /\ chunks' = chunks
  PROVE  (UNCHANGED <<recVars, toAgent>>) => SessionsSafe'
<1> SUFFICES ASSUME UNCHANGED <<recVars, toAgent>> PROVE SessionsSafe'
  OBVIOUS
<1> USE DEF SessionsSafe
<1> DEFINE e == [kind |-> kind, s |-> s, state |-> state]
<1>1. /\ records' = records /\ recSeq' = recSeq /\ toAgent' = toAgent
      /\ chunks' \in [PtySessions -> Nat] /\ \A r \in PtySessions : chunks[r] <= chunks'[r]
  <2>1. chunks \in [PtySessions -> Nat]
    BY DEF SessionTypes
  <2>2. chunks' \in [PtySessions -> Nat] /\ \A r \in PtySessions : chunks[r] <= chunks'[r]
    <3>1. CASE chunks' = chunks
      BY <2>1, <3>1
    <3>2. CASE chunks' = [chunks EXCEPT ![s] = @ + 1]
      BY <2>1, <3>2
    <3> QED BY <3>1, <3>2
  <2> QED BY <2>2 DEF recVars
<1>2. e \in DataUp \cup ResultUp /\ e.kind = kind /\ e.s = s /\ e.state = state
  BY DEF SessionTypes, DataUp, ResultUp
<1> HIDE DEF e
<1>3. CASE toServer' = toServer
  <2>1. SessionTypes'
    BY <1>1, <1>3 DEF SessionTypes
  <2>2. ASSUME NEW r \in PtySessions
        PROVE  /\ chunks[r] \in Nat /\ chunks'[r] \in Nat /\ chunks[r] <= chunks'[r]
               /\ \A q \in records[r] : q[2] \in Nat
               /\ \A i \in 1..Len(toServer) : IsData(i, r) => toServer[i].state \in Nat
    BY <1>1 DEF SessionTypes, IsData, DataUp, ResultUp
  <2>3. OutputInOrder'
    BY <1>1, <1>3, <2>2 DEF OutputInOrder, IsData
  <2> QED BY <2>1, <2>3
<1>4. CASE toServer' = Append(toServer, e)
  <2>1. /\ toServer' \in Seq(DataUp \cup ResultUp) /\ Len(toServer) \in Nat
        /\ Len(toServer') = Len(toServer) + 1 /\ toServer'[Len(toServer) + 1] = e
        /\ \A i \in 1..Len(toServer) : toServer'[i] = toServer[i] /\ toServer[i] \in DataUp \cup ResultUp
    BY <1>2, <1>4 DEF SessionTypes
  <2>2. SessionTypes'
    BY <1>1, <2>1 DEF SessionTypes
  <2> SUFFICES ASSUME NEW r \in PtySessions
               PROVE  /\ \A i \in 1..Len(toServer') : IsData(i, r)' =>
                           /\ toServer'[i].state <= chunks'[r]
                           /\ \A j \in 1..Len(toServer') :
                                j < i /\ IsData(j, r)' => toServer'[j].state < toServer'[i].state
                           /\ \A q \in records'[r] : q[2] < toServer'[i].state
                      /\ \A q \in records'[r] : q[1] < recSeq'[r] /\ q[2] <= chunks'[r]
    BY <2>2 DEF OutputInOrder, IsData
  <2>3. chunks[r] \in Nat /\ chunks'[r] \in Nat /\ chunks[r] <= chunks'[r]
    BY <1>1 DEF SessionTypes
  <2>4. \A q \in records[r] : q[1] < recSeq[r] /\ q[2] <= chunks[r] /\ q[2] \in Nat
    BY DEF OutputInOrder, SessionTypes
  <2>5. ASSUME NEW i \in 1..Len(toServer), IsData(i, r)
        PROVE  toServer[i].state \in Nat
    BY <2>1, <2>5 DEF IsData, DataUp, ResultUp
  <2>6. ASSUME NEW i \in 1..Len(toServer'), IsData(i, r)'
        PROVE  /\ toServer'[i].state <= chunks'[r]
               /\ \A j \in 1..Len(toServer') :
                    j < i /\ IsData(j, r)' => toServer'[j].state < toServer'[i].state
               /\ \A q \in records'[r] : q[2] < toServer'[i].state
    <3>1. CASE i \in 1..Len(toServer)
      <4>1. IsData(i, r) /\ toServer'[i] = toServer[i]
        BY <2>1, <2>6, <3>1 DEF IsData
      <4>2. ASSUME NEW j \in 1..Len(toServer'), j < i, IsData(j, r)'
            PROVE  j \in 1..Len(toServer) /\ toServer'[j] = toServer[j] /\ IsData(j, r)
        BY <2>1, <3>1, <4>2 DEF IsData
      <4> QED BY <1>1, <2>3, <2>5, <3>1, <4>1, <4>2 DEF OutputInOrder
    <3>2. CASE i = Len(toServer) + 1
      <4>1. kind = "data" /\ s = r /\ state = chunks[r] + 1 /\ chunks'[r] = chunks[r] + 1 /\ toServer'[i].state = state
        BY <1>2, <2>1, <2>6, <3>2 DEF IsData, SessionTypes
      <4>2. ASSUME NEW j \in 1..Len(toServer'), j < i, IsData(j, r)'
            PROVE  j \in 1..Len(toServer) /\ toServer'[j] = toServer[j] /\ IsData(j, r)
        BY <2>1, <3>2, <4>2 DEF IsData
      <4>3. \A j \in 1..Len(toServer) : IsData(j, r) => toServer[j].state <= chunks[r]
        BY DEF OutputInOrder
      <4> QED BY <1>1, <2>3, <2>4, <2>5, <4>1, <4>2, <4>3
    <3> QED BY <2>1, <3>1, <3>2
  <2> QED BY <1>1, <2>3, <2>4, <2>6
<1> QED BY <1>3, <1>4 DEF sendUpEnvelopeNoSpool, e

\* The server takes the envelope in front: a chunk becomes the newest record.
LEMMA SessionUpKeeps ==
  ASSUME SessionsSafe, SessionUp
  PROVE  /\ SessionsSafe'
         /\ \A s \in PtySessions :
              /\ records[s] \subseteq records'[s]
              /\ \A r \in records'[s] \ records[s] : \A q \in records[s] : q[1] < r[1] /\ q[2] < r[2]
<1> USE DEF SessionsSafe
<1> DEFINE e == toServer[1]
<1>1. /\ toServer \in Seq(DataUp \cup ResultUp) /\ toServer # <<>> /\ toServer' = Tail(toServer)
      /\ Head(toServer) = e /\ UNCHANGED <<toAgent, chunks>>
  BY DEF SessionUp, SessionTypes, ptyVars
<1>2. /\ Len(toServer) \in Nat /\ Len(toServer) >= 1 /\ e \in DataUp \cup ResultUp
      /\ toServer' \in Seq(DataUp \cup ResultUp) /\ Len(toServer') = Len(toServer) - 1
      /\ \A i \in 1..(Len(toServer) - 1) : toServer'[i] = toServer[i + 1]
  BY <1>1
<1>3. \A i \in 1..Len(toServer') : i + 1 \in 1..Len(toServer) /\ 1 < i + 1 /\ toServer'[i] = toServer[i + 1]
  BY <1>2
<1> HIDE DEF e
<1>4. \A s \in PtySessions : \A i \in 1..Len(toServer') : IsData(i, s)' => IsData(i + 1, s)
  BY <1>3 DEF IsData
<1>5. CASE UNCHANGED recVars
  <2>1. SessionTypes' /\ records' = records /\ recSeq' = recSeq
    BY <1>1, <1>2, <1>5 DEF SessionTypes, recVars
  <2>2. OutputInOrder'
    <3> SUFFICES ASSUME NEW s \in PtySessions, NEW i \in 1..Len(toServer'), IsData(i, s)'
                 PROVE  /\ toServer'[i].state <= chunks'[s]
                        /\ \A j \in 1..Len(toServer') :
                             j < i /\ IsData(j, s)' => toServer'[j].state < toServer'[i].state
                        /\ \A q \in records'[s] : q[2] < toServer'[i].state
      BY <2>1, <1>1 DEF OutputInOrder, IsData
    <3>1. IsData(i + 1, s) /\ i + 1 \in 1..Len(toServer)
      BY <1>3, <1>4
    <3>2. ASSUME NEW j \in 1..Len(toServer'), j < i, IsData(j, s)'
          PROVE  toServer'[j].state < toServer'[i].state
      <4>1. j + 1 < i + 1 /\ j + 1 \in 1..Len(toServer) /\ IsData(j + 1, s)
        BY <1>2, <1>3, <1>4, <3>2
      <4>2. toServer[j + 1].state < toServer[i + 1].state
        BY <3>1, <4>1 DEF OutputInOrder
      <4> QED BY <1>3, <4>2
    <3> QED BY <1>1, <1>3, <2>1, <3>1, <3>2 DEF OutputInOrder
  <2> QED BY <2>1, <2>2
<1>6. CASE e.kind = "data" /\ onSessionData(e.s, e.state) /\ e.s \in active
  <2> DEFINE p == e.s
             d == e.state
             n == recSeq[p]
  <2>1. p \in PtySessions /\ d \in Nat /\ n \in Nat /\ IsData(1, p) /\ toServer[1].state = d
    BY <1>2, <1>6 DEF DataUp, ResultUp, IsData, SessionTypes, e
  <2>2. /\ \A q \in records[p] : q[1] < n /\ q[2] < d /\ q[1] \in Nat /\ q[2] \in Nat
        /\ d <= chunks[p]
    BY <1>2, <2>1 DEF OutputInOrder, SessionTypes
  <2>3. /\ records' = [records EXCEPT ![p] = {r \in @ : r[1] # n} \cup {<<n, d>>}]
        /\ recSeq' = [recSeq EXCEPT ![p] = @ + 1]
    BY <1>6 DEF onSessionData, AppendSessionRecord
  <2> HIDE DEF p, d, n
  <2>4. {r \in records[p] : r[1] # n} = records[p]
    BY <2>1, <2>2
  <2>5. records' = [records EXCEPT ![p] = records[p] \cup {<<n, d>>}]
    BY <2>3, <2>4
  <2>6. /\ records'[p] = records[p] \cup {<<n, d>>} /\ recSeq'[p] = n + 1
        /\ \A s \in PtySessions \ {p} : records'[s] = records[s] /\ recSeq'[s] = recSeq[s]
    BY <2>1, <2>3, <2>5 DEF SessionTypes, n
  <2>7. SessionTypes'
    BY <1>1, <1>2, <2>1, <2>3, <2>5 DEF SessionTypes
  <2>8. OutputInOrder'
    <3> SUFFICES ASSUME NEW s \in PtySessions
                 PROVE  /\ \A i \in 1..Len(toServer') : IsData(i, s)' =>
                             /\ toServer'[i].state <= chunks'[s]
                             /\ \A j \in 1..Len(toServer') :
                                  j < i /\ IsData(j, s)' => toServer'[j].state < toServer'[i].state
                             /\ \A q \in records'[s] : q[2] < toServer'[i].state
                        /\ \A q \in records'[s] : q[1] < recSeq'[s] /\ q[2] <= chunks'[s]
      BY DEF OutputInOrder, IsData
    <3>1. \A q \in records'[s] : q[1] < recSeq'[s] /\ q[2] <= chunks'[s]
      <4>1. CASE s = p
        <5>1. chunks'[s] = chunks[p] /\ chunks[p] \in Nat
          BY <1>1, <2>1, <4>1 DEF SessionTypes
        <5>2. \A q \in records[p] : q[1] < n + 1 /\ q[2] <= chunks[p]
          BY <2>1, <2>2, <5>1
        <5>3. n < n + 1 /\ d <= chunks[p]
          BY <2>1, <2>2
        <5> QED BY <2>6, <4>1, <5>1, <5>2, <5>3
      <4>2. CASE s # p
        BY <1>1, <2>6, <4>2 DEF OutputInOrder
      <4> QED BY <4>1, <4>2
    <3>2. ASSUME NEW i \in 1..Len(toServer'), IsData(i, s)'
          PROVE  /\ toServer'[i].state <= chunks'[s]
                 /\ \A j \in 1..Len(toServer') :
                      j < i /\ IsData(j, s)' => toServer'[j].state < toServer'[i].state
                 /\ \A q \in records'[s] : q[2] < toServer'[i].state
      <4>1. IsData(i + 1, s) /\ i + 1 \in 1..Len(toServer) /\ 1 < i + 1 /\ toServer'[i] = toServer[i + 1]
        BY <1>3, <1>4, <3>2
      <4>2. ASSUME NEW j \in 1..Len(toServer'), j < i, IsData(j, s)'
            PROVE  toServer'[j].state < toServer'[i].state
        <5>1. j + 1 < i + 1 /\ j + 1 \in 1..Len(toServer) /\ IsData(j + 1, s)
          BY <1>2, <1>3, <1>4, <4>2
        <5>2. toServer[j + 1].state < toServer[i + 1].state
          BY <4>1, <5>1 DEF OutputInOrder
        <5> QED BY <1>3, <5>2
      <4>3. \A q \in records[s] : q[2] < toServer[i + 1].state
        BY <4>1 DEF OutputInOrder
      <4>4. s = p => d < toServer[i + 1].state
        <5>1. 1 \in 1..Len(toServer)
          BY <1>2
        <5> QED BY <2>1, <4>1, <5>1 DEF OutputInOrder
      <4>5. \A q \in records'[s] : q[2] < toServer'[i].state
        BY <2>6, <4>1, <4>3, <4>4
      <4>6. toServer[i + 1].state <= chunks[s]
        BY <4>1 DEF OutputInOrder
      <4> QED BY <1>1, <4>1, <4>2, <4>5, <4>6
    <3> QED BY <3>1, <3>2
  <2> QED BY <2>2, <2>6, <2>7, <2>8
<1> QED BY <1>1, <1>5, <1>6 DEF SessionUp, onSessionData

\* Everything else leaves the recordings alone, or deletes one.
LEMMA SessionsStep ==
  ASSUME SessionsSafe, [SessionsNext]_sessVars
  PROVE  /\ SessionsSafe'
         /\ \A s \in PtySessions :
              \/ records'[s] = {}
              \/ /\ records[s] \subseteq records'[s]
                 /\ \A r \in records'[s] \ records[s] : \A q \in records[s] : q[1] < r[1] /\ q[2] < r[2]
<1> DEFINE Kept == UNCHANGED <<recVars, chunks>> /\ toAgent' \in Seq(DownEnvelopes)
<1> USE DEF openVars, recVars, linkVars, ptyVars
<1>1. ASSUME Kept, toServer' = toServer \/ toServer' = <<>>
      PROVE  SessionsSafe' /\ records' = records
  <2>1. CASE toServer' = toServer
    BY <1>1, <2>1 DEF SessionsSafe, SessionTypes, OutputInOrder, IsData
  <2>2. CASE toServer' = <<>>
    <3>1. Len(toServer') = 0 /\ toServer' \in Seq(DataUp \cup ResultUp)
      BY <2>2
    <3> QED BY <1>1, <3>1 DEF SessionsSafe, SessionTypes, OutputInOrder, IsData
  <2> QED BY <1>1, <2>1, <2>2
<1>2. toAgent \in Seq(DownEnvelopes)
  BY DEF SessionsSafe, SessionTypes
<1>3. ASSUME NEW s \in PtySessions, NEW kind \in {"open", "close", "input", "resize"}, sendSessionDown(kind, s)
      PROVE  toAgent' \in Seq(DownEnvelopes)
  BY <1>2, <1>3 DEF sendSessionDown, DownEnvelopes
<1>4. ASSUME NEW s \in PtySessions,
             OpenSession(s) \/ SendSessionOpen(s) \/ DispatchApprovedSession(s) \/ OpenDone(s)
               \/ sessionInput(s) \/ sessionResize(s) \/ sessionClose(s)
      PROVE  Kept /\ toServer' = toServer
  BY <1>2, <1>3, <1>4 DEF OpenSession, SendSessionOpen, DispatchApprovedSession, OpenDone, sessionInput,
                          sessionResize, sessionClose, sessionControl
<1>5. ASSUME NEW s \in PtySessions, DeleteSessionRecordsOlderThan(s)
      PROVE  /\ SessionsSafe'
             /\ \A q \in PtySessions : records'[q] = {} \/ records'[q] = records[q]
  <2>1. /\ records' = [records EXCEPT ![s] = {}]
        /\ UNCHANGED <<toServer, toAgent, chunks, recSeq>>
    BY <1>5 DEF DeleteSessionRecordsOlderThan
  <2>2. \A q \in PtySessions : records'[q] = {} \/ records'[q] = records[q]
    BY <2>1 DEF SessionsSafe, SessionTypes
  <2>3. SessionTypes'
    BY <2>1 DEF SessionsSafe, SessionTypes
  <2>4. OutputInOrder'
    BY <2>1, <2>2 DEF SessionsSafe, OutputInOrder, IsData
  <2> QED BY <2>2, <2>3, <2>4 DEF SessionsSafe
<1>6. ASSUME NEW s \in PtySessions, PtyWrites(s)
      PROVE  SessionsSafe' /\ records' = records
  BY <1>6, SendUpKeeps DEF PtyWrites
<1>7. ASSUME NEW s \in PtySessions, readLoop(s)
      PROVE  SessionsSafe' /\ records' = records
  <2>1. PICK state \in {"interrupted", "succeeded"} : sendUpEnvelopeNoSpool("result", s, state)
    BY <1>7 DEF readLoop
  <2> QED BY <1>7, <2>1, SendUpKeeps DEF readLoop
<1>8. CASE SessionUp
  BY <1>8, SessionUpKeeps
<1>9. CASE DisconnectHook \/ Reconnects
  BY <1>1, <1>2, <1>9 DEF DisconnectHook, Reconnects
<1>10. CASE SessionStreamEnds
  <2>1. toAgent' = <<>> /\ toServer' = <<>> /\ UNCHANGED <<recVars, chunks>>
    BY <1>10 DEF SessionStreamEnds
  <2>2. toAgent' \in Seq(DownEnvelopes)
    BY <2>1
  <2> QED BY <1>1, <2>1, <2>2
<1>11. CASE handleSessionEnvelope
  <2> DEFINE e == Head(toAgent)
  <2>1. e \in DownEnvelopes /\ e.s \in PtySessions /\ toAgent' \in Seq(DownEnvelopes) /\ UNCHANGED recVars
    <3>1. toAgent # <<>> /\ toAgent' = Tail(toAgent) /\ UNCHANGED recVars
      BY <1>11 DEF handleSessionEnvelope
    <3>2. e \in DownEnvelopes /\ Tail(toAgent) \in Seq(DownEnvelopes)
      BY <1>2, <3>1
    <3> QED BY <3>1, <3>2 DEF DownEnvelopes
  <2>2. ASSUME UNCHANGED chunks, toServer' = toServer
        PROVE  SessionsSafe' /\ records' = records
    BY <1>1, <2>1, <2>2
  <2>3. CASE UNCHANGED <<chunks, toServer>>
    BY <2>2, <2>3
  <2>4. ASSUME NEW state \in {"denied", "failed"}, sendUpEnvelopeNoSpool("result", e.s, state), UNCHANGED chunks
        PROVE  SessionsSafe' /\ records' = records
    <3>1. CASE toServer' = toServer
      BY <2>2, <2>4, <3>1
    <3>2. CASE toServer' # toServer
      <4> DEFINE env == [kind |-> "result", s |-> e.s, state |-> state]
      <4>1. toServer' = Append(toServer, env) /\ env \in ResultUp
        BY <2>1, <2>4, <3>2 DEF sendUpEnvelopeNoSpool, ResultUp
      <4>2. SessionTypes'
        BY <2>1, <2>4, <4>1 DEF SessionsSafe, SessionTypes
      <4>3. /\ Len(toServer) \in Nat /\ Len(toServer') = Len(toServer) + 1
            /\ toServer'[Len(toServer) + 1].kind = "result"
            /\ \A i \in 1..Len(toServer) : toServer'[i] = toServer[i]
        BY <4>1 DEF SessionsSafe, SessionTypes
      <4>4. \A s \in PtySessions : \A i \in 1..Len(toServer') : IsData(i, s)' =>
              i \in 1..Len(toServer) /\ IsData(i, s) /\ toServer'[i] = toServer[i]
        BY <4>3 DEF IsData
      <4>5. OutputInOrder'
        BY <2>1, <2>4, <4>4 DEF SessionsSafe, OutputInOrder
      <4> QED BY <2>1, <4>2, <4>5 DEF SessionsSafe
    <3> QED BY <3>1, <3>2
  <2> QED BY <1>11, <2>3, <2>4 DEF handleSessionEnvelope, AgentOpens, AgentCloses
<1>12. CASE UNCHANGED sessVars
  BY <1>1, <1>2, <1>12 DEF sessVars
<1> QED BY <1>1, <1>4, <1>5, <1>6, <1>7, <1>8, <1>9, <1>10, <1>11, <1>12 DEF SessionsNext

\* Whatever the sessions, the chunks and the streams that end: a recording is
\* the output in its order, no record replaces another, and it only grows until
\* it is deleted.
THEOREM RecordingsAreTheOutput == SessionsSpec => RecordsGrow
<1>1. SessionsInit => SessionsSafe
  <2> SUFFICES ASSUME SessionsInit PROVE SessionsSafe
    OBVIOUS
  <2>1. Len(toServer) = 0 /\ toServer \in Seq(DataUp \cup ResultUp) /\ toAgent \in Seq(DownEnvelopes)
    BY DEF SessionsInit
  <2> QED BY <2>1 DEF SessionsInit, SessionsSafe, SessionTypes, OutputInOrder
<1> DEFINE Grows ==
      \A s \in PtySessions :
        \/ records'[s] = {}
        \/ /\ records[s] \subseteq records'[s]
           /\ \A r \in records'[s] \ records[s] : \A q \in records[s] : q[1] < r[1] /\ q[2] < r[2]
<1>2. SessionsSafe /\ [SessionsNext]_sessVars => SessionsSafe' /\ [Grows]_sessVars
  BY SessionsStep
<1>3. SessionsSpec => [][Grows]_sessVars
  BY <1>1, <1>2, PTL DEF SessionsSpec
<1> QED BY <1>3 DEF RecordsGrow
=============================================================================
