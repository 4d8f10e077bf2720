---------------------------- MODULE JobScheduler ----------------------------
(***************************************************************************)
(* The agent's job scheduler (internal/agent/jobs) for one job: its        *)
(* assignment, the runState its fires share, and the fires, each a         *)
(* goroutine of the cron library or of a retry.  The scheduler's mutex is  *)
(* held in Apply, Remove, the first part of fire and its deferred part,    *)
(* one step each; the steps of the task run outside it.                    *)
(***************************************************************************)
EXTENDS Naturals, FiniteSets

CONSTANTS MaxFires,        \* bound on the goroutines of fire
          Assignments,     \* what the server may assign: overlap and failure policy
          MaxApplies,      \* bound on the assignments received
          MaxAgentStarts   \* bound on restarts of the agent

OverlapPolicies == {"allow", "skip", "replace"}

ASSUME JobAssumption ==
  /\ MaxFires \in Nat
  /\ Assignments \subseteq [overlap : OverlapPolicies, failure : {"no_retry", "retry"}]
  /\ MaxApplies \in Nat /\ MaxAgentStarts \in Nat

Fires == 1..MaxFires

VARIABLES
  assign,     \* assigns[job], with its cron entry: a set of at most one assignment
  jobsFile,   \* jobs.json: what Load would restore
  current,    \* runStates[job]: a set of at most one runState
  runStates,  \* the runState objects, each named by the fire that created it
  fires,      \* per fire: pc, its assignment, its runState, its context, retry
  overlaps,   \* history: the overlap policies the job has had
  applies,
  agentStarts

jobVars == <<assign, jobsFile, current, runStates, fires, overlaps, applies, agentStarts>>

Unborn == [pc |-> "unborn", a |-> {}, rs |-> {}, cancelled |-> FALSE, retry |-> 0]
Over   == [Unborn EXCEPT !.pc = "over"]
Idle   == [running |-> FALSE, cancel |-> {}]
Retries == 3

JobInit ==
  /\ assign = {} /\ jobsFile = {}
  /\ current = {}
  /\ runStates = [f \in Fires |-> Idle]
  /\ fires = [f \in Fires |-> Unborn]
  /\ overlaps = {} /\ applies = 0 /\ agentStarts = 0

-----------------------------------------------------------------------------
\* The contexts of the fires in C are cancelled.
Cancel(C) == [f \in Fires |-> IF f \in C THEN [fires[f] EXCEPT !.cancelled = TRUE] ELSE fires[f]]

CancelOf(R) == UNION {runStates[r].cancel : r \in R}

\* JOB_ASSIGN: the cron entry is replaced, a run in flight goes on.
ApplyJob ==
  /\ applies < MaxApplies
  /\ \E a \in Assignments :
       /\ assign' = {a}
       /\ overlaps' = overlaps \cup {a.overlap}
  /\ jobsFile' = assign'
  /\ applies' = applies + 1
  /\ UNCHANGED <<current, runStates, fires, agentStarts>>

\* JOB_ASSIGN with a cron expression that does not parse: the former entry and
\* assignment are gone, jobs.json is not written.
RejectJob ==
  /\ applies < MaxApplies
  /\ assign' = {}
  /\ applies' = applies + 1
  /\ UNCHANGED <<jobsFile, current, runStates, fires, overlaps, agentStarts>>

\* Bug: the run in flight is left alone.
RemoveJob_NoCancel ==
  /\ assign' = {} /\ jobsFile' = {}
  /\ current' = {}
  /\ UNCHANGED <<fires, runStates, overlaps, applies, agentStarts>>

\* JOB_UNASSIGN: the run in flight is cancelled and its runState forgotten.
RemoveJob ==
  /\ assign' = {} /\ jobsFile' = {}
  /\ fires' = Cancel(CancelOf(current))
  /\ current' = {}
  /\ UNCHANGED <<runStates, overlaps, applies, agentStarts>>

\* Goroutines are interchangeable: a new one is the first of those left.
Fresh(f) == fires[f].pc = "unborn" /\ \A g \in 1..(f - 1) : fires[g].pc # "unborn"

\* The cron entry fires: the closure holds the assignment it was added with.
CronFire(f) ==
  /\ Fresh(f)
  /\ \E a \in assign : fires' = [fires EXCEPT ![f] = [Unborn EXCEPT !.pc = "called", !.a = {a}]]
  /\ UNCHANGED <<assign, jobsFile, current, runStates, overlaps, applies, agentStarts>>

\* The runState fire works on: the job's, or a new one.
StateOf(f) == IF current = {} THEN {f} ELSE current
Running(R) == \E r \in R : runStates[r].running

\* The locked part of fire that goes on: replace cancels the run in flight,
\* allow does not care, and the runState is the new fire's.
EnterFire(f) ==
  /\ fires[f].pc = "called"
  /\ \E a \in fires[f].a :
       /\ ~(a.overlap = "skip" /\ Running(StateOf(f)))
       /\ LET C == IF a.overlap = "replace" /\ Running(StateOf(f))
                   THEN CancelOf(StateOf(f)) ELSE {}
          IN  fires' = [Cancel(C) EXCEPT ![f].pc = "checking", ![f].rs = StateOf(f)]
  /\ current' = StateOf(f)
  /\ runStates' = [r \in Fires |-> IF r \in StateOf(f)
                     THEN [running |-> TRUE, cancel |-> {f}] ELSE runStates[r]]
  /\ UNCHANGED <<assign, jobsFile, overlaps, applies, agentStarts>>

\* Overlap policy skip: reported as skipped.
SkipFire(f) ==
  /\ fires[f].pc = "called"
  /\ \E a \in fires[f].a : a.overlap = "skip"
  /\ Running(StateOf(f))
  /\ fires' = [fires EXCEPT ![f] = Over]
  /\ UNCHANGED <<assign, jobsFile, current, runStates, overlaps, applies, agentStarts>>

\* The guardrail admits the assignment's decision, or the fire is denied.
CheckFire(f) ==
  /\ fires[f].pc = "checking"
  /\ \E to \in {"running", "closing"} : fires' = [fires EXCEPT ![f].pc = to]
  /\ UNCHANGED <<assign, jobsFile, current, runStates, overlaps, applies, agentStarts>>

\* A failed run is retried up to three times, under the same assignment.
RetryDue(f) == fires[f].retry < Retries /\ \E a \in fires[f].a : a.failure = "retry"

\* The run ends, reports, and when it failed leaves a retry goroutine asleep;
\* a cancelled one fails unless its last step was through.
EndFire(f) ==
  /\ fires[f].pc = "running"
  /\ \/ fires' = [fires EXCEPT ![f].pc = "closing"]
     \/ /\ RetryDue(f)
        /\ \E g \in Fires :
             /\ Fresh(g)
             /\ fires' = [fires EXCEPT ![f].pc = "closing",
                            ![g] = [Unborn EXCEPT !.pc = "called", !.a = fires[f].a,
                                                  !.retry = fires[f].retry + 1]]
  /\ UNCHANGED <<assign, jobsFile, current, runStates, overlaps, applies, agentStarts>>

\* The deferred part of fire resets its runState, whoever runs under it now.
CloseFire(f) ==
  /\ fires[f].pc = "closing"
  /\ fires' = [fires EXCEPT ![f] = Over]
  /\ runStates' = [r \in Fires |-> IF r \in fires[f].rs THEN Idle ELSE runStates[r]]
  /\ UNCHANGED <<assign, jobsFile, current, overlaps, applies, agentStarts>>

\* The agent restarts: goroutines are gone, Load restores jobs.json.
RestartScheduler ==
  /\ agentStarts < MaxAgentStarts
  /\ agentStarts' = agentStarts + 1
  /\ assign' = jobsFile
  /\ current' = {}
  /\ runStates' = [f \in Fires |-> Idle]
  /\ fires' = [f \in Fires |-> IF fires[f].pc = "unborn" THEN Unborn ELSE Over]
  /\ UNCHANGED <<jobsFile, overlaps, applies>>

JobNext ==
  \/ ApplyJob \/ RejectJob \/ RemoveJob \/ RestartScheduler
  \/ \E f \in Fires : CronFire(f) \/ EnterFire(f) \/ SkipFire(f) \/ CheckFire(f)
                      \/ EndFire(f) \/ CloseFire(f)

JobSpec == JobInit /\ [][JobNext]_jobVars

-----------------------------------------------------------------------------
JobTypeOK ==
  /\ assign \subseteq Assignments /\ Cardinality(assign) <= 1
  /\ jobsFile \subseteq Assignments
  /\ current \subseteq Fires /\ Cardinality(current) <= 1
  /\ runStates \in [Fires -> [running : BOOLEAN, cancel : SUBSET Fires]]
  /\ \A f \in Fires :
       /\ fires[f].pc \in {"unborn", "called", "checking", "running", "closing", "over"}
       /\ fires[f].a \subseteq Assignments /\ fires[f].rs \subseteq Fires
       /\ fires[f].cancelled \in BOOLEAN
       /\ fires[f].retry \in 0..Retries
  /\ overlaps \subseteq OverlapPolicies
  /\ applies \in 0..MaxApplies /\ agentStarts \in 0..MaxAgentStarts

Executing == {f \in Fires : fires[f].pc \in {"checking", "running"}}
\* The fires that execute, or may, and were not told to stop.
Live == {f \in Executing : ~fires[f].cancelled}

\* A job that has always said skip never executes twice at once: retries, and a
\* removal and re-assignment while a run winds down, included.
SkipRunsOne ==
  overlaps = {"skip"} => Cardinality(Live) <= 1

\* Removing a job that has always said skip leaves no run that was not told to
\* stop, also one of an earlier assignment.
RemoveStopsTheRun ==
  [][jobsFile # {} /\ jobsFile' = {} /\ overlaps = {"skip"}
       => \A f \in Executing : fires'[f].cancelled]_jobVars

\* A runState that says running belongs to a fire that has yet to close it: no
\* early return blocks a skip job for ever.
RunningHasARun ==
  \A r \in Fires : runStates[r].running =>
    \E f \in Fires : r \in fires[f].rs /\ fires[f].pc \in {"checking", "running", "closing"}

\* The overlap policy of a job is honored, over retries, removals and restarts
\* of the agent (fire, Remove, Apply): the parts above.
OverlapIsHonored == [](JobTypeOK /\ SkipRunsOne /\ RunningHasARun) /\ RemoveStopsTheRun
=============================================================================
