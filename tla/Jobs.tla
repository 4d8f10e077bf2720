-------------------------------- MODULE Jobs --------------------------------
(***************************************************************************)
(* A scheduled job on the server: its row, the assignment row of each host *)
(* and the assignment each agent holds.  The controller stores a row first *)
(* and pushes afterwards, ignoring a push that fails, so the rows and the  *)
(* agents drift apart while a host is offline.  A selector is one label,   *)
(* the policy's answer for a host one effect.                              *)
(***************************************************************************)
EXTENDS Integers, FiniteSets

CONSTANTS JobHosts,        \* the hosts of the fleet
          Labels,          \* what a selector can ask for
          MaxJobWrites,    \* bound on the writes of the operators
          MaxFleetChanges  \* bound on label, policy and connection changes

ASSUME JobsAssumption ==
  /\ MaxJobWrites \in Nat /\ MaxFleetChanges \in Nat
  /\ "none" \notin Labels  \* stands for no job

VARIABLES job,       \* the jobs row, or NoJob
          jobLabel,  \* the label of each host
          jobEffect, \* the policy's answer to task.run on each host
          jobOnline, \* hosts with a stream
          jobRows,   \* hosts with a job_assignments row
          jobHeld,   \* hosts whose agent holds the assignment
          missed,    \* hosts whose last push failed: they were offline
          jobWrites, fleetChanges

jobsVars == <<job, jobLabel, jobEffect, jobOnline, jobRows, jobHeld, missed,
              jobWrites, fleetChanges>>

NoJob == [sel |-> "none", enabled |-> FALSE]

JobsInit ==
  /\ job = NoJob
  /\ jobLabel \in [JobHosts -> Labels] /\ jobEffect = [h \in JobHosts |-> "allow"]
  /\ jobOnline = JobHosts
  /\ jobRows = {} /\ jobHeld = {} /\ missed = {}
  /\ jobWrites = 0 /\ fleetChanges = 0

-----------------------------------------------------------------------------
(* The rows of the store. *)

JobRow(sel, enabled) == [sel |-> sel, enabled |-> enabled]

AssignJob(rows, H) == rows \cup H

UnassignJob(rows, H) == rows \ H

JobAssignmentsForJob == jobRows

ResolveSelector(sel) == { h \in JobHosts : jobLabel[h] = sel }

(* A push reaches the agents with a session and nobody else: the others    *)
(* keep what they hold, and the error is only logged.                      *)
Push(assigned, unassigned) ==
  /\ jobHeld' = (jobHeld \cup (assigned \cap jobOnline)) \ (unassigned \cap jobOnline)
  /\ missed' = (missed \cup (assigned \cup unassigned)) \ ((assigned \cup unassigned) \cap jobOnline)

-----------------------------------------------------------------------------
(* The gate: a standing decision is signed for a host the rules allow; one *)
(* that would ask for approval counts as denied.                           *)

signTaskRunDecision(h) == jobEffect[h] = "allow"

hostTaskRunDecision(h) == signTaskRunDecision(h)

gatePolicy(sel) == \A h \in ResolveSelector(sel) : signTaskRunDecision(h)

Create(sel, enabled) ==
  /\ job = NoJob /\ jobWrites < MaxJobWrites
  /\ gatePolicy(sel) /\ ResolveSelector(sel) # {}
  /\ job' = JobRow(sel, enabled)
  /\ jobRows' = AssignJob(jobRows, ResolveSelector(sel))
  /\ Push(ResolveSelector(sel), {})
  /\ jobWrites' = jobWrites + 1
  /\ UNCHANGED <<jobLabel, jobEffect, jobOnline, fleetChanges>>

\* The hosts an edited selector, or a pass of the reconciler, drops.
reconcileAssignments(rows, matching) == rows \ matching

(* An edit pushes to every host that matches, whether the job is enabled   *)
(* or not, and takes the assignment from the others.                       *)
Update(sel, enabled) ==
  /\ job # NoJob /\ jobWrites < MaxJobWrites
  /\ gatePolicy(sel)
  /\ job' = JobRow(sel, enabled)
  /\ LET now == ResolveSelector(sel)
         gone == reconcileAssignments(AssignJob(jobRows, now), now) IN
       /\ jobRows' = UnassignJob(AssignJob(jobRows, now), gone)
       /\ Push(now, gone)
  /\ jobWrites' = jobWrites + 1
  /\ UNCHANGED <<jobLabel, jobEffect, jobOnline, fleetChanges>>

Delete ==
  /\ job # NoJob /\ jobWrites < MaxJobWrites
  /\ job' = NoJob
  /\ jobRows' = UnassignJob(jobRows, JobAssignmentsForJob)
  /\ Push({}, JobAssignmentsForJob)
  /\ jobWrites' = jobWrites + 1
  /\ UNCHANGED <<jobLabel, jobEffect, jobOnline, fleetChanges>>

jobCreate == \E sel \in Labels, e \in BOOLEAN : Create(sel, e)
jobUpdate == \E sel \in Labels, e \in BOOLEAN : Update(sel, e)
jobDelete == Delete

-----------------------------------------------------------------------------
(* An agent reported a new version: its decision is signed again, or taken *)
(* away when the rules deny it by now.                                     *)
ReissueForHost(h) ==
  /\ job.enabled /\ h \in ResolveSelector(job.sel)
  /\ IF hostTaskRunDecision(h)
     THEN jobRows' = AssignJob(jobRows, {h}) /\ Push({h}, {})
     ELSE jobRows' = UnassignJob(jobRows, {h}) /\ Push({}, {h})
  /\ UNCHANGED <<job, jobLabel, jobEffect, jobOnline, jobWrites, fleetChanges>>

\* Bug: a pass only drops.
pushAssignmentNone(matching) == {}

\* The new matches of a pass: no row yet, and allowed.
pushAssignment(matching) ==
  { h \in matching \ JobAssignmentsForJob : hostTaskRunDecision(h) }

(* One pass.  A selector that matches nothing any more is an error of the  *)
(* resolver, and the pass leaves the job as it is.                         *)
reconcileOnce ==
  LET matching == ResolveSelector(job.sel)
      new == pushAssignment(matching)
      gone == reconcileAssignments(jobRows, matching) IN
  /\ job.enabled /\ matching # {}
  /\ jobRows' = UnassignJob(AssignJob(jobRows, new), gone)
  /\ Push(new, gone)
  /\ UNCHANGED <<job, jobLabel, jobEffect, jobOnline, jobWrites, fleetChanges>>

-----------------------------------------------------------------------------
(* The fleet: labels and rules are edited, streams end and come back.  A   *)
(* stream that comes back brings no assignment with it.                    *)

FleetChange ==
  /\ fleetChanges < MaxFleetChanges /\ fleetChanges' = fleetChanges + 1
  /\ \E h \in JobHosts :
       \/ /\ \E l \in Labels : jobLabel' = [jobLabel EXCEPT ![h] = l]
          /\ UNCHANGED <<jobEffect, jobOnline>>
       \/ /\ \E e \in {"allow", "deny", "require_approval"} :
               jobEffect' = [jobEffect EXCEPT ![h] = e]
          /\ UNCHANGED <<jobLabel, jobOnline>>
       \/ /\ jobOnline' = IF h \in jobOnline THEN jobOnline \ {h} ELSE jobOnline \cup {h}
          /\ UNCHANGED <<jobLabel, jobEffect>>
  /\ UNCHANGED <<job, jobRows, jobHeld, missed, jobWrites>>

JobsNext ==
  \/ jobCreate
  \/ jobUpdate
  \/ jobDelete
  \/ reconcileOnce
  \/ FleetChange
  \/ \E h \in JobHosts : ReissueForHost(h)

(* The reconciler is a ticker that lives as long as the server.            *)
JobsFairness == WF_jobsVars(reconcileOnce)

JobsSpec == JobsInit /\ [][JobsNext]_jobsVars /\ JobsFairness

-----------------------------------------------------------------------------
(* The types, and no assignment row outlives the job: JobAssignmentsForJob *)
(* lists every row Delete has to remove.                                   *)
JobsTypeOK ==
  /\ jobRows \subseteq JobHosts /\ jobHeld \subseteq JobHosts
  /\ missed \subseteq JobHosts /\ jobOnline \subseteq JobHosts
  /\ job = NoJob => jobRows = {}

(* A host whose last push arrived holds the assignment exactly when the    *)
(* store has its row: create, edit, delete, reissue and reconcile all keep *)
(* the two in step, only a push to an offline host lets them drift.        *)
RowsMirrorAgents ==
  \A h \in JobHosts \ missed : h \in jobRows <=> h \in jobHeld

(* No host is given an assignment, by whatever path, while the rules deny  *)
(* task.run on it or ask for approval: a standing decision is only signed  *)
(* for a host that is allowed.                                             *)
AssignsAllowedHosts ==
  [][\A h \in (jobRows' \ jobRows) \cup (jobHeld' \ jobHeld) :
       jobEffect[h] = "allow"]_jobsVars

(* An enabled job reaches every online host it goes on matching: a host    *)
(* that joins or is labelled later is picked up by the reconciler, unless  *)
(* it was offline when it was first picked up.                             *)
MatchGetsJob ==
  \A h \in JobHosts :
    <>[](job.enabled /\ jobLabel[h] = job.sel /\ jobEffect[h] = "allow" /\ h \notin missed)
      => <>[](h \in jobHeld)

(* A job is on the hosts that match it and may run it: never on one that   *)
(* may not, and in the end on every one that may (reconcileOnce,           *)
(* pushAssignment).                                                        *)
JobsReachHosts == [](JobsTypeOK /\ RowsMirrorAgents) /\ AssignsAllowedHosts /\ MatchGetsJob

(* The claim of the server's wiring without the exception: "enabled jobs   *)
(* reach agents that joined (or became selector-matching) after the job    *)
(* was created".                                                           *)
EnabledJobReaches ==
  \A h \in JobHosts :
    <>[](job.enabled /\ jobLabel[h] = job.sel /\ jobEffect[h] = "allow" /\ h \in jobOnline)
      => <>[](h \in jobHeld)
=============================================================================
