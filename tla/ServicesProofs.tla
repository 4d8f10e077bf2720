--------------------------- MODULE ServicesProofs ---------------------------
(***************************************************************************)
(* Proofs about services of the agent and of the server: the overlap       *)
(* policy of a job (JobScheduler), the master key, the versions, the       *)
(* delivery and the cache of a secret (Secrets), and what an alert rule    *)
(* may fire and resolve on (Alerts).                                       *)
(***************************************************************************)
EXTENDS JobScheduler, Secrets, Alerts, Jobs, FiniteSetTheorems,
        SequenceTheorems, TLAPS

-----------------------------------------------------------------------------
(* JobScheduler. *)

FirePCs == {"unborn", "called", "checking", "running", "closing", "over"}

FireStates == [pc : FirePCs, a : SUBSET Assignments, rs : SUBSET Fires,
               cancelled : BOOLEAN, retry : 0..Retries]

Lone(S, T) == S = {} \/ \E x \in T : S = {x}

JobTypes ==
  /\ Lone(assign, Assignments) /\ Lone(jobsFile, Assignments) /\ Lone(current, Fires)
  /\ runStates \in [Fires -> [running : BOOLEAN, cancel : SUBSET Fires]]
  /\ fires \in [Fires -> FireStates]
  /\ overlaps \subseteq OverlapPolicies
  /\ applies \in 0..MaxApplies /\ agentStarts \in 0..MaxAgentStarts

\* From the end of the locked part of fire to its deferred part.
Active(f) == fires[f].pc \in {"checking", "running", "closing"}

\* Every assignment a part of the scheduler still holds was counted.
OverlapsKnown ==
  /\ \A a \in assign \cup jobsFile : a.overlap \in overlaps
  /\ \A f \in Fires : \A a \in fires[f].a : a.overlap \in overlaps

\* A fire works on one runState from its locked part to its deferred part, and
\* the fire that a runState is named for has entered.
StatesEntered ==
  /\ \A f \in Fires : IF Active(f) THEN \E r \in Fires : fires[f].rs = {r} ELSE fires[f].rs = {}
  /\ \A f \in Fires : \A r \in fires[f].rs \cup current : fires[r].pc \notin {"unborn", "called"}

AlwaysSkip == overlaps \subseteq {"skip"}

\* A runState belongs to one fire at a time, whose context is the one it holds.
StatesExclusive ==
  /\ \A f, g \in Fires : Active(f) /\ Active(g) /\ fires[f].rs = fires[g].rs => f = g
  /\ \A f \in Fires : Active(f) =>
       \A r \in fires[f].rs : runStates[r].running /\ runStates[r].cancel = {f}

\* Whoever executes uncancelled does so under the runState Remove would find.
LiveIsCurrent == \A f \in Live : current = fires[f].rs

SchedulerInv ==
  /\ JobTypes /\ OverlapsKnown /\ StatesEntered /\ RunningHasARun
  /\ AlwaysSkip => StatesExclusive /\ LiveIsCurrent

\* The fires after the contexts of C are cancelled: nothing else changes.
LEMMA CancelTells ==
  ASSUME fires \in [Fires -> FireStates], NEW C
  PROVE  /\ Cancel(C) \in [Fires -> FireStates]
         /\ \A f \in Fires :
              /\ Cancel(C)[f].pc = fires[f].pc /\ Cancel(C)[f].a = fires[f].a
              /\ Cancel(C)[f].rs = fires[f].rs
              /\ Cancel(C)[f].cancelled = (f \in C \/ fires[f].cancelled)
<1>1. ASSUME NEW f \in Fires
      PROVE  /\ Cancel(C)[f] \in FireStates
             /\ Cancel(C)[f].pc = fires[f].pc /\ Cancel(C)[f].a = fires[f].a
             /\ Cancel(C)[f].rs = fires[f].rs
             /\ Cancel(C)[f].cancelled = (f \in C \/ fires[f].cancelled)
  <2>1. fires[f] \in FireStates
    OBVIOUS
  <2>2. Cancel(C)[f] = IF f \in C THEN [fires[f] EXCEPT !.cancelled = TRUE] ELSE fires[f]
    BY DEF Cancel
  <2>3. CASE f \in C
    BY <2>1, <2>2, <2>3 DEF FireStates
  <2>4. CASE f \notin C
    <3>1. Cancel(C)[f] = fires[f]
      BY <2>2, <2>4
    <3> QED  BY <2>1, <3>1, <2>4 DEF FireStates
  <2> QED  BY <2>3, <2>4
<1>2. Cancel(C) = [f \in Fires |-> Cancel(C)[f]]
  BY DEF Cancel
<1>3. Cancel(C) \in [Fires -> FireStates]
  BY <1>1, <1>2
<1> QED  BY <1>1, <1>3

\* The new fires are fires of their type.
LEMMA FreshStates ==
  /\ Unborn \in FireStates /\ Over \in FireStates
  /\ Unborn.pc = "unborn" /\ Unborn.a = {} /\ Unborn.rs = {}
  /\ Over.pc = "over" /\ Over.a = {} /\ Over.rs = {}
  /\ \A a \in Assignments : [Unborn EXCEPT !.pc = "called", !.a = {a}] \in FireStates
<1>1. Unborn \in FireStates /\ Unborn.pc = "unborn" /\ Unborn.a = {} /\ Unborn.rs = {}
  BY DEF Unborn, FireStates, FirePCs, Retries
<1>2. Over \in FireStates
  BY <1>1 DEF Over, FireStates, FirePCs
<1>3. Over.pc = "over" /\ Over.a = {} /\ Over.rs = {}
  BY DEF Unborn, Over
<1>4. ASSUME NEW a \in Assignments
      PROVE  [Unborn EXCEPT !.pc = "called", !.a = {a}] \in FireStates
  BY <1>1 DEF FireStates, FirePCs
<1> QED  BY <1>1, <1>2, <1>3, <1>4

\* The runState a fire enters with is one, the job's or its own.
LEMMA StateIsOne ==
  ASSUME Lone(current, Fires), NEW f \in Fires
  PROVE  \E r \in Fires : StateOf(f) = {r} /\ (current = {} => r = f) /\ (current # {} => current = {r})
BY DEF Lone, StateOf

\* What EnterFire does to the fires, read off one by one.
LEMMA EnterTells ==
  ASSUME JobTypes, NEW f \in Fires, EnterFire(f)
  PROVE  /\ fires[f].pc = "called"
         /\ fires' \in [Fires -> FireStates]
         /\ fires'[f].pc = "checking" /\ fires'[f].rs = StateOf(f) /\ fires'[f].a = fires[f].a
         /\ \A g \in Fires \ {f} :
              /\ fires'[g].pc = fires[g].pc /\ fires'[g].a = fires[g].a
              /\ fires'[g].rs = fires[g].rs
              /\ fires[g].cancelled => fires'[g].cancelled
         /\ \E a \in fires[f].a : ~(a.overlap = "skip" /\ Running(StateOf(f)))
<1>1. PICK a \in fires[f].a :
        /\ ~(a.overlap = "skip" /\ Running(StateOf(f)))
        /\ LET C == IF a.overlap = "replace" /\ Running(StateOf(f))
                    THEN CancelOf(StateOf(f)) ELSE {}
           IN  fires' = [Cancel(C) EXCEPT ![f].pc = "checking", ![f].rs = StateOf(f)]
  BY DEF EnterFire
<1> DEFINE C == IF a.overlap = "replace" /\ Running(StateOf(f))
                THEN CancelOf(StateOf(f)) ELSE {}
<1>2. fires' = [Cancel(C) EXCEPT ![f].pc = "checking", ![f].rs = StateOf(f)]
  BY <1>1
<1>3. fires \in [Fires -> FireStates]
  BY DEF JobTypes
<1> HIDE DEF C
<1>4. /\ Cancel(C) \in [Fires -> FireStates]
      /\ \A g \in Fires :
           /\ Cancel(C)[g].pc = fires[g].pc /\ Cancel(C)[g].a = fires[g].a
           /\ Cancel(C)[g].rs = fires[g].rs
           /\ Cancel(C)[g].cancelled = (g \in C \/ fires[g].cancelled)
  BY <1>3, CancelTells
<1>5. StateOf(f) \subseteq Fires
  BY StateIsOne DEF JobTypes
<1>6. fires' = [Cancel(C) EXCEPT ![f] = [Cancel(C)[f] EXCEPT !.pc = "checking", !.rs = StateOf(f)]]
  BY <1>2, <1>4 DEF FireStates
<1>7. [Cancel(C)[f] EXCEPT !.pc = "checking", !.rs = StateOf(f)] \in FireStates
  <2>1. Cancel(C)[f] \in FireStates
    BY <1>4
  <2> QED  BY <1>5, <2>1 DEF FireStates, FirePCs
<1>8. fires' \in [Fires -> FireStates]
  BY <1>4, <1>6, <1>7
<1>9. fires'[f].pc = "checking" /\ fires'[f].rs = StateOf(f) /\ fires'[f].a = fires[f].a
  <2>1. fires'[f] = [Cancel(C)[f] EXCEPT !.pc = "checking", !.rs = StateOf(f)]
    BY <1>4, <1>6
  <2>2. Cancel(C)[f] \in FireStates
    BY <1>4
  <2> QED  BY <1>4, <2>1, <2>2 DEF FireStates
<1>10. \A g \in Fires \ {f} : fires'[g] = Cancel(C)[g]
  BY <1>4, <1>6
<1>11. \A g \in Fires \ {f} :
         /\ fires'[g].pc = fires[g].pc /\ fires'[g].a = fires[g].a
         /\ fires'[g].rs = fires[g].rs
         /\ fires[g].cancelled => fires'[g].cancelled
  BY <1>4, <1>10
<1>12. fires[f].pc = "called"
  BY DEF EnterFire
<1>13. \E b \in fires[f].a : ~(b.overlap = "skip" /\ Running(StateOf(f)))
  BY <1>1
<1> QED  BY <1>8, <1>9, <1>11, <1>12, <1>13

\* What EndFire does to the fires: f closes, and a goroutine that was not born
\* may hold its assignment for a retry.
LEMMA EndTells ==
  ASSUME JobTypes, NEW f \in Fires, EndFire(f)
  PROVE  /\ fires[f].pc = "running"
         /\ fires' \in [Fires -> FireStates]
         /\ fires'[f].pc = "closing" /\ fires'[f].rs = fires[f].rs /\ fires'[f].a = fires[f].a
         /\ \A g \in Fires \ {f} :
              \/ fires'[g] = fires[g]
              \/ /\ fires[g].pc = "unborn" /\ fires'[g].pc = "called"
                 /\ fires'[g].a = fires[f].a /\ fires'[g].rs = {}
<1>1. fires \in [Fires -> FireStates] /\ fires[f] \in FireStates
  BY DEF JobTypes
<1>2. [fires[f] EXCEPT !.pc = "closing"] \in FireStates
  BY <1>1 DEF FireStates, FirePCs
<1>3. fires[f].pc = "running"
  BY DEF EndFire
<1>4. CASE fires' = [fires EXCEPT ![f].pc = "closing"]
  <2>1. fires' = [fires EXCEPT ![f] = [fires[f] EXCEPT !.pc = "closing"]]
    BY <1>1, <1>4
  <2>2. fires' \in [Fires -> FireStates]
    BY <1>1, <1>2, <2>1
  <2> QED  BY <1>1, <1>3, <2>1, <2>2 DEF FireStates
<1>5. ASSUME RetryDue(f), NEW g \in Fires, Fresh(g),
             fires' = [fires EXCEPT ![f].pc = "closing",
                         ![g] = [Unborn EXCEPT !.pc = "called", !.a = fires[f].a,
                                               !.retry = fires[f].retry + 1]]
      PROVE  /\ fires' \in [Fires -> FireStates]
             /\ fires'[f].pc = "closing" /\ fires'[f].rs = fires[f].rs /\ fires'[f].a = fires[f].a
             /\ \A h \in Fires \ {f} :
                  \/ fires'[h] = fires[h]
                  \/ /\ fires[h].pc = "unborn" /\ fires'[h].pc = "called"
                     /\ fires'[h].a = fires[f].a /\ fires'[h].rs = {}
  <2>1. g # f /\ fires[g].pc = "unborn"
    BY <1>3, <1>5 DEF Fresh
  <2> DEFINE retry == [Unborn EXCEPT !.pc = "called", !.a = fires[f].a, !.retry = fires[f].retry + 1]
  <2>2. fires[f].retry + 1 \in 0..Retries
    BY <1>1, <1>5 DEF RetryDue, Retries, FireStates
  <2>3. /\ retry \in FireStates
        /\ retry.pc = "called" /\ retry.a = fires[f].a /\ retry.rs = {}
    BY <1>1, <2>2 DEF Unborn, FireStates, FirePCs
  <2>4. fires' = [fires EXCEPT ![f] = [fires[f] EXCEPT !.pc = "closing"], ![g] = retry]
    BY <1>1, <1>5, <2>1
  <2> HIDE DEF retry
  <2>5. fires' \in [Fires -> FireStates]
    BY <1>1, <1>2, <2>3, <2>4
  <2>6. fires'[f] = [fires[f] EXCEPT !.pc = "closing"] /\ fires'[g] = retry
    BY <1>1, <2>1, <2>4
  <2>7. fires'[f].pc = "closing" /\ fires'[f].rs = fires[f].rs /\ fires'[f].a = fires[f].a
    BY <1>1, <2>6 DEF FireStates
  <2>8. \A h \in Fires \ {f} : h # g => fires'[h] = fires[h]
    BY <1>1, <2>4
  <2> QED  BY <2>1, <2>3, <2>5, <2>6, <2>7, <2>8
<1> QED  BY <1>3, <1>4, <1>5 DEF EndFire

\* The types of the scheduler's state.
LEMMA TypesHold == JobTypes /\ [JobNext]_jobVars => JobTypes'
<1> SUFFICES ASSUME JobTypes, [JobNext]_jobVars PROVE JobTypes'
  OBVIOUS
<1>0. fires \in [Fires -> FireStates] /\ runStates \in [Fires -> [running : BOOLEAN, cancel : SUBSET Fires]]
  BY DEF JobTypes
<1>1. CASE ApplyJob
  <2>1. PICK a \in Assignments : assign' = {a} /\ overlaps' = overlaps \cup {a.overlap}
    BY <1>1 DEF ApplyJob
  <2>2. overlaps' \subseteq OverlapPolicies
    BY <2>1, JobAssumption DEF JobTypes
  <2>3. Lone(assign', Assignments) /\ Lone(jobsFile', Assignments)
    BY <1>1, <2>1 DEF ApplyJob, Lone
  <2>4. applies' \in 0..MaxApplies
    BY <1>1, JobAssumption DEF ApplyJob, JobTypes
  <2> QED  BY <1>1, <2>2, <2>3, <2>4 DEF ApplyJob, JobTypes
<1>2. CASE RejectJob
  <2>1. applies' \in 0..MaxApplies
    BY <1>2, JobAssumption DEF RejectJob, JobTypes
  <2> QED  BY <1>2, <2>1 DEF RejectJob, JobTypes, Lone
<1>3. CASE RemoveJob
  <2>1. fires' \in [Fires -> FireStates]
    BY <1>0, <1>3, CancelTells DEF RemoveJob
  <2> QED  BY <1>3, <2>1 DEF RemoveJob, JobTypes, Lone
<1>4. CASE RestartScheduler
  <2>1. agentStarts' \in 0..MaxAgentStarts
    BY <1>4, JobAssumption DEF RestartScheduler, JobTypes
  <2>2. fires' \in [Fires -> FireStates]
    BY <1>4, FreshStates DEF RestartScheduler
  <2>3. runStates' \in [Fires -> [running : BOOLEAN, cancel : SUBSET Fires]]
    BY <1>4 DEF RestartScheduler, Idle
  <2> QED  BY <1>4, <2>1, <2>2, <2>3 DEF RestartScheduler, JobTypes, Lone
<1>5. ASSUME NEW f \in Fires, CronFire(f) PROVE JobTypes'
  <2>1. PICK a \in assign : fires' = [fires EXCEPT ![f] = [Unborn EXCEPT !.pc = "called", !.a = {a}]]
    BY <1>5 DEF CronFire
  <2>2. a \in Assignments
    BY <2>1 DEF JobTypes, Lone
  <2>3. fires' \in [Fires -> FireStates]
    BY <1>0, <2>1, <2>2, FreshStates
  <2> QED  BY <1>5, <2>3 DEF CronFire, JobTypes
<1>6. ASSUME NEW f \in Fires, EnterFire(f) PROVE JobTypes'
  <2>1. fires' \in [Fires -> FireStates]
    BY <1>6, EnterTells
  <2>2. Lone(current', Fires)
    BY <1>6, StateIsOne DEF EnterFire, JobTypes, Lone
  <2>3. runStates' \in [Fires -> [running : BOOLEAN, cancel : SUBSET Fires]]
    BY <1>0, <1>6 DEF EnterFire
  <2> QED  BY <1>6, <2>1, <2>2, <2>3 DEF EnterFire, JobTypes
<1>7. ASSUME NEW f \in Fires, SkipFire(f) PROVE JobTypes'
  <2>1. fires' \in [Fires -> FireStates]
    BY <1>0, <1>7, FreshStates DEF SkipFire
  <2> QED  BY <1>7, <2>1 DEF SkipFire, JobTypes
<1>8. ASSUME NEW f \in Fires, CheckFire(f) PROVE JobTypes'
  <2>1. PICK to \in {"running", "closing"} : fires' = [fires EXCEPT ![f] = [fires[f] EXCEPT !.pc = to]]
    BY <1>0, <1>8 DEF CheckFire
  <2>2. [fires[f] EXCEPT !.pc = to] \in FireStates
    <3>1. fires[f] \in FireStates
      BY <1>0
    <3> QED  BY <3>1 DEF FireStates, FirePCs
  <2>3. fires' \in [Fires -> FireStates]
    BY <1>0, <2>1, <2>2
  <2> QED  BY <1>8, <2>3 DEF CheckFire, JobTypes
<1>9. ASSUME NEW f \in Fires, EndFire(f) PROVE JobTypes'
  <2>1. fires' \in [Fires -> FireStates]
    BY <1>9, EndTells
  <2> QED  BY <1>9, <2>1 DEF EndFire, JobTypes
<1>10. ASSUME NEW f \in Fires, CloseFire(f) PROVE JobTypes'
  <2>1. fires' \in [Fires -> FireStates]
    BY <1>0, <1>10, FreshStates DEF CloseFire
  <2>2. runStates' \in [Fires -> [running : BOOLEAN, cancel : SUBSET Fires]]
    BY <1>0, <1>10 DEF CloseFire, Idle
  <2> QED  BY <1>10, <2>1, <2>2 DEF CloseFire, JobTypes
<1>11. CASE UNCHANGED jobVars
  BY <1>11 DEF jobVars, JobTypes
<1> QED
  BY <1>1, <1>2, <1>3, <1>4, <1>5, <1>6, <1>7, <1>8, <1>9, <1>10, <1>11 DEF JobNext

\* The history of overlap policies covers whatever may still fire.
LEMMA KnownHold == JobTypes /\ OverlapsKnown /\ [JobNext]_jobVars => OverlapsKnown'
<1> SUFFICES ASSUME JobTypes, OverlapsKnown, [JobNext]_jobVars PROVE OverlapsKnown'
  OBVIOUS
<1>0. fires \in [Fires -> FireStates]
  BY DEF JobTypes
<1>1. CASE ApplyJob
  BY <1>1 DEF ApplyJob, OverlapsKnown
<1>2. CASE RejectJob
  BY <1>2 DEF RejectJob, OverlapsKnown
<1>3. CASE RemoveJob
  <2>1. \A f \in Fires : fires'[f].a = fires[f].a
    BY <1>0, <1>3, CancelTells DEF RemoveJob
  <2> QED  BY <1>3, <2>1 DEF RemoveJob, OverlapsKnown
<1>4. CASE RestartScheduler
  <2>1. \A f \in Fires : fires'[f].a = {}
    BY <1>4, FreshStates DEF RestartScheduler
  <2> QED  BY <1>4, <2>1 DEF RestartScheduler, OverlapsKnown
<1>5. ASSUME NEW f \in Fires, CronFire(f) PROVE OverlapsKnown'
  <2>1. PICK a \in assign : fires' = [fires EXCEPT ![f] = [Unborn EXCEPT !.pc = "called", !.a = {a}]]
    BY <1>5 DEF CronFire
  <2>2. fires'[f].a = {a} /\ \A g \in Fires \ {f} : fires'[g] = fires[g]
    BY <1>0, <2>1 DEF Unborn
  <2> QED  BY <1>5, <2>2 DEF CronFire, OverlapsKnown
<1>6. ASSUME NEW f \in Fires, EnterFire(f) PROVE OverlapsKnown'
  <2>1. \A g \in Fires : fires'[g].a = fires[g].a
    BY <1>6, EnterTells
  <2> QED  BY <1>6, <2>1 DEF EnterFire, OverlapsKnown
<1>7. ASSUME NEW f \in Fires, SkipFire(f) \/ CloseFire(f) PROVE OverlapsKnown'
  <2>1. fires'[f].a = {} /\ \A g \in Fires \ {f} : fires'[g] = fires[g]
    BY <1>0, <1>7, FreshStates DEF SkipFire, CloseFire
  <2> QED  BY <1>7, <2>1 DEF SkipFire, CloseFire, OverlapsKnown
<1>8. ASSUME NEW f \in Fires, CheckFire(f) PROVE OverlapsKnown'
  <2>1. \A g \in Fires : fires'[g].a = fires[g].a
    BY <1>0, <1>8 DEF CheckFire, FireStates
  <2> QED  BY <1>8, <2>1 DEF CheckFire, OverlapsKnown
<1>9. ASSUME NEW f \in Fires, EndFire(f) PROVE OverlapsKnown'
  <2>1. \A g \in Fires : fires'[g].a = fires[g].a \/ fires'[g].a = fires[f].a
    BY <1>9, EndTells
  <2> QED  BY <1>9, <2>1 DEF EndFire, OverlapsKnown
<1>10. CASE UNCHANGED jobVars
  BY <1>10 DEF jobVars, OverlapsKnown
<1> QED
  BY <1>1, <1>2, <1>3, <1>4, <1>5, <1>6, <1>7, <1>8, <1>9, <1>10 DEF JobNext

\* What a step of a single fire does to the fires: CheckFire, SkipFire and
\* CloseFire touch their own only.
LEMMA OwnFireTells ==
  ASSUME JobTypes, NEW f \in Fires
  PROVE  /\ CheckFire(f) => /\ fires[f].pc = "checking" /\ fires'[f].pc \in {"running", "closing"}
                            /\ fires'[f].rs = fires[f].rs /\ fires'[f].cancelled = fires[f].cancelled
                            /\ \A g \in Fires \ {f} : fires'[g] = fires[g]
         /\ SkipFire(f) \/ CloseFire(f) =>
              /\ fires[f].pc \in {"called", "closing"} /\ fires'[f].pc = "over" /\ fires'[f].rs = {}
              /\ \A g \in Fires \ {f} : fires'[g] = fires[g]
         /\ CronFire(f) =>
              /\ fires[f].pc = "unborn" /\ fires'[f].pc = "called" /\ fires'[f].rs = {}
              /\ \A g \in Fires \ {f} : fires'[g] = fires[g]
<1>0. fires \in [Fires -> FireStates] /\ fires[f] \in FireStates
  BY DEF JobTypes
<1>1. ASSUME CheckFire(f)
      PROVE  /\ fires[f].pc = "checking" /\ fires'[f].pc \in {"running", "closing"}
             /\ fires'[f].rs = fires[f].rs /\ fires'[f].cancelled = fires[f].cancelled
             /\ \A g \in Fires \ {f} : fires'[g] = fires[g]
  <2>1. PICK to \in {"running", "closing"} : fires' = [fires EXCEPT ![f] = [fires[f] EXCEPT !.pc = to]]
    BY <1>0, <1>1 DEF CheckFire
  <2> QED  BY <1>0, <1>1, <2>1 DEF CheckFire, FireStates
<1>2. ASSUME SkipFire(f) \/ CloseFire(f)
      PROVE  /\ fires[f].pc \in {"called", "closing"} /\ fires'[f].pc = "over" /\ fires'[f].rs = {}
             /\ \A g \in Fires \ {f} : fires'[g] = fires[g]
  BY <1>0, <1>2, FreshStates DEF SkipFire, CloseFire
<1>3. ASSUME CronFire(f)
      PROVE  /\ fires[f].pc = "unborn" /\ fires'[f].pc = "called" /\ fires'[f].rs = {}
             /\ \A g \in Fires \ {f} : fires'[g] = fires[g]
  <2>1. PICK a \in assign : fires' = [fires EXCEPT ![f] = [Unborn EXCEPT !.pc = "called", !.a = {a}]]
    BY <1>3 DEF CronFire
  <2> QED  BY <1>0, <1>3, <2>1 DEF CronFire, Fresh, Unborn
<1> QED  BY <1>1, <1>2, <1>3

\* After a restart no goroutine is left.
LEMMA RestartTells ==
  ASSUME RestartScheduler, NEW f \in Fires
  PROVE  fires'[f].pc \in {"unborn", "over"} /\ fires'[f].rs = {}
BY FreshStates DEF RestartScheduler

\* No step lets a fire keep a runState beyond its deferred part, or take one
\* named for a fire that has yet to enter.
LEMMA EnteredHold == JobTypes /\ StatesEntered /\ [JobNext]_jobVars => StatesEntered'
<1> SUFFICES ASSUME JobTypes, StatesEntered, [JobNext]_jobVars PROVE StatesEntered'
  OBVIOUS
<1> DEFINE One(f) == IF Active(f) THEN \E r \in Fires : fires[f].rs = {r} ELSE fires[f].rs = {}
           Known(f) == \A r \in fires[f].rs \cup current : fires[r].pc \notin {"unborn", "called"}
<1>0. fires \in [Fires -> FireStates] /\ current \subseteq Fires
      /\ \A f \in Fires : fires[f].rs \subseteq Fires
  BY DEF JobTypes, FireStates, Lone
<1>1. CASE ApplyJob \/ RejectJob \/ UNCHANGED jobVars
  BY <1>1 DEF ApplyJob, RejectJob, jobVars, StatesEntered, Active
<1>2. CASE RemoveJob
  <2>1. \A f \in Fires : fires'[f].pc = fires[f].pc /\ fires'[f].rs = fires[f].rs
    BY <1>0, <1>2, CancelTells DEF RemoveJob
  <2>2. current' = {}
    BY <1>2 DEF RemoveJob
  <2> QED  BY <1>0, <2>1, <2>2 DEF StatesEntered, Active
<1>3. CASE RestartScheduler
  <2>1. current' = {}
    BY <1>3 DEF RestartScheduler
  <2> QED  BY <1>3, <2>1, RestartTells DEF StatesEntered, Active
<1>4. ASSUME NEW f \in Fires, CronFire(f) PROVE StatesEntered'
  <2>1. /\ fires[f].pc = "unborn" /\ fires'[f].pc = "called" /\ fires'[f].rs = {}
        /\ \A g \in Fires \ {f} : fires'[g] = fires[g]
    BY <1>4, OwnFireTells
  <2>2. current' = current
    BY <1>4 DEF CronFire
  <2> QED  BY <1>0, <2>1, <2>2 DEF StatesEntered, Active
<1>5. ASSUME NEW f \in Fires, EnterFire(f) PROVE StatesEntered'
  <2>1. /\ fires[f].pc = "called"
        /\ fires'[f].pc = "checking" /\ fires'[f].rs = StateOf(f)
        /\ \A g \in Fires \ {f} : fires'[g].pc = fires[g].pc /\ fires'[g].rs = fires[g].rs
    BY <1>5, EnterTells
  <2>2. PICK r \in Fires : StateOf(f) = {r} /\ (current = {} => r = f) /\ (current # {} => current = {r})
    BY StateIsOne DEF JobTypes
  <2>3. current' = {r}
    BY <1>5, <2>2 DEF EnterFire
  <2>4. \A g \in Fires : (One(g))'
    BY <2>1, <2>2 DEF StatesEntered, Active
  <2>5. fires'[r].pc \notin {"unborn", "called"}
    BY <2>1, <2>2 DEF StatesEntered
  <2>6. \A g \in Fires : (Known(g))'
    BY <1>0, <2>1, <2>2, <2>3, <2>5 DEF StatesEntered
  <2> QED  BY <2>4, <2>6 DEF StatesEntered
<1>6. ASSUME NEW f \in Fires, SkipFire(f) \/ CloseFire(f) PROVE StatesEntered'
  <2>1. /\ fires'[f].pc = "over" /\ fires'[f].rs = {}
        /\ \A g \in Fires \ {f} : fires'[g] = fires[g]
    BY <1>6, OwnFireTells
  <2>2. current' = current
    BY <1>6 DEF SkipFire, CloseFire
  <2> QED  BY <1>0, <2>1, <2>2 DEF StatesEntered, Active
<1>7. ASSUME NEW f \in Fires, CheckFire(f) PROVE StatesEntered'
  <2>1. /\ fires[f].pc = "checking" /\ fires'[f].pc \in {"running", "closing"}
        /\ fires'[f].rs = fires[f].rs
        /\ \A g \in Fires \ {f} : fires'[g] = fires[g]
    BY <1>7, OwnFireTells
  <2>2. current' = current
    BY <1>7 DEF CheckFire
  <2> QED  BY <1>0, <2>1, <2>2 DEF StatesEntered, Active
<1>8. ASSUME NEW f \in Fires, EndFire(f) PROVE StatesEntered'
  <2>1. /\ fires[f].pc = "running"
        /\ fires'[f].pc = "closing" /\ fires'[f].rs = fires[f].rs
        /\ \A g \in Fires \ {f} :
             \/ fires'[g] = fires[g]
             \/ fires[g].pc = "unborn" /\ fires'[g].pc = "called" /\ fires'[g].rs = {}
    BY <1>8, EndTells
  <2>2. current' = current
    BY <1>8 DEF EndFire
  <2>3. \A g \in Fires : (One(g))'
    BY <2>1 DEF StatesEntered, Active
  <2>4. \A g \in Fires : (Known(g))'
    BY <1>0, <2>1, <2>2 DEF StatesEntered
  <2> QED  BY <2>3, <2>4 DEF StatesEntered
<1> QED
  BY <1>1, <1>2, <1>3, <1>4, <1>5, <1>6, <1>7, <1>8 DEF JobNext

\* A runState that says running keeps its fire.
LEMMA RunningHold ==
  JobTypes /\ StatesEntered /\ RunningHasARun /\ [JobNext]_jobVars => RunningHasARun'
<1> SUFFICES ASSUME JobTypes, StatesEntered, RunningHasARun, [JobNext]_jobVars,
                    NEW r \in Fires, runStates'[r].running
             PROVE  \E g \in Fires : r \in fires'[g].rs /\ fires'[g].pc \in {"checking", "running", "closing"}
  BY DEF RunningHasARun
<1>0. fires \in [Fires -> FireStates]
      /\ runStates \in [Fires -> [running : BOOLEAN, cancel : SUBSET Fires]]
  BY DEF JobTypes
<1>1. CASE ApplyJob \/ RejectJob \/ UNCHANGED jobVars
  BY <1>1 DEF ApplyJob, RejectJob, jobVars, RunningHasARun
<1>2. CASE RemoveJob
  <2>1. \A f \in Fires : fires'[f].pc = fires[f].pc /\ fires'[f].rs = fires[f].rs
    BY <1>0, <1>2, CancelTells DEF RemoveJob
  <2> QED  BY <1>2, <2>1 DEF RunningHasARun, RemoveJob
<1>3. CASE RestartScheduler
  BY <1>3 DEF RestartScheduler, Idle
<1>4. ASSUME NEW f \in Fires, CronFire(f) \/ SkipFire(f)
      PROVE  \E g \in Fires : r \in fires'[g].rs /\ fires'[g].pc \in {"checking", "running", "closing"}
  <2>1. fires[f].pc \in {"unborn", "called"} /\ \A g \in Fires \ {f} : fires'[g] = fires[g]
    BY <1>4, OwnFireTells DEF SkipFire
  <2>2. runStates' = runStates
    BY <1>4 DEF CronFire, SkipFire
  <2> QED  BY <2>1, <2>2 DEF RunningHasARun
<1>5. ASSUME NEW f \in Fires, EnterFire(f)
      PROVE  \E g \in Fires : r \in fires'[g].rs /\ fires'[g].pc \in {"checking", "running", "closing"}
  <2>1. /\ fires[f].pc = "called"
        /\ fires'[f].pc = "checking" /\ fires'[f].rs = StateOf(f)
        /\ \A g \in Fires \ {f} : fires'[g].pc = fires[g].pc /\ fires'[g].rs = fires[g].rs
    BY <1>5, EnterTells
  <2>2. CASE r \in StateOf(f)
    BY <2>1, <2>2
  <2>3. CASE r \notin StateOf(f)
    <3>1. runStates[r].running
      BY <1>5, <2>3 DEF EnterFire
    <3> QED  BY <2>1, <3>1 DEF RunningHasARun
  <2> QED  BY <2>2, <2>3
<1>6. ASSUME NEW f \in Fires, CheckFire(f)
      PROVE  \E g \in Fires : r \in fires'[g].rs /\ fires'[g].pc \in {"checking", "running", "closing"}
  <2>1. /\ fires'[f].pc \in {"running", "closing"} /\ fires'[f].rs = fires[f].rs
        /\ \A g \in Fires \ {f} : fires'[g] = fires[g]
    BY <1>6, OwnFireTells
  <2> QED  BY <1>6, <2>1 DEF RunningHasARun, CheckFire
<1>7. ASSUME NEW f \in Fires, EndFire(f)
      PROVE  \E g \in Fires : r \in fires'[g].rs /\ fires'[g].pc \in {"checking", "running", "closing"}
  <2>1. /\ fires'[f].pc = "closing" /\ fires'[f].rs = fires[f].rs
        /\ \A g \in Fires \ {f} : fires'[g] = fires[g] \/ fires[g].pc = "unborn"
    BY <1>7, EndTells
  <2> QED  BY <1>7, <2>1 DEF RunningHasARun, EndFire
<1>8. ASSUME NEW f \in Fires, CloseFire(f)
      PROVE  \E g \in Fires : r \in fires'[g].rs /\ fires'[g].pc \in {"checking", "running", "closing"}
  <2>1. \A g \in Fires \ {f} : fires'[g] = fires[g]
    BY <1>8, OwnFireTells
  <2>2. r \notin fires[f].rs /\ runStates[r].running
    BY <1>8 DEF CloseFire, Idle
  <2> QED  BY <2>1, <2>2 DEF RunningHasARun
<1> QED
  BY <1>1, <1>2, <1>3, <1>4, <1>5, <1>6, <1>7, <1>8 DEF JobNext

\* While every policy has been skip, the runStates stay exclusive and a run
\* that was not told to stop is the one Remove finds: a fire enters only when
\* the runState it takes is nobody's.
LEMMA SkipHold ==
  ASSUME JobTypes, OverlapsKnown, StatesEntered, AlwaysSkip, StatesExclusive, LiveIsCurrent,
         [JobNext]_jobVars
  PROVE  StatesExclusive' /\ LiveIsCurrent'
<1>0. fires \in [Fires -> FireStates]
      /\ runStates \in [Fires -> [running : BOOLEAN, cancel : SUBSET Fires]]
      /\ Lone(current, Fires)
  BY DEF JobTypes
<1>1. CASE ApplyJob \/ RejectJob \/ UNCHANGED jobVars
  BY <1>1 DEF ApplyJob, RejectJob, jobVars, StatesExclusive, LiveIsCurrent, Live, Executing, Active
<1>2. CASE RemoveJob
  <2>1. \A f \in Fires : /\ fires'[f].pc = fires[f].pc /\ fires'[f].rs = fires[f].rs
                         /\ fires'[f].cancelled = (f \in CancelOf(current) \/ fires[f].cancelled)
    BY <1>0, <1>2, CancelTells DEF RemoveJob
  <2>2. runStates' = runStates
    BY <1>2 DEF RemoveJob
  <2>3. StatesExclusive'
    BY <2>1, <2>2 DEF StatesExclusive, Active
  <2>4. ASSUME NEW f \in Live' PROVE FALSE
    <3>1. f \in Live /\ f \notin CancelOf(current) /\ f \in Fires /\ Active(f)
      BY <2>1, <2>4 DEF Live, Executing, Active
    <3>2. PICK r \in Fires : fires[f].rs = {r}
      BY <3>1 DEF StatesEntered
    <3>3. r \in current /\ f \in runStates[r].cancel
      BY <3>1, <3>2 DEF LiveIsCurrent, StatesExclusive
    <3> QED  BY <3>1, <3>3 DEF CancelOf
  <2> QED  BY <2>3, <2>4 DEF LiveIsCurrent
<1>3. CASE RestartScheduler
  BY <1>3, RestartTells DEF StatesExclusive, LiveIsCurrent, Live, Executing, Active
<1>4. ASSUME NEW f \in Fires, CronFire(f) \/ SkipFire(f) PROVE StatesExclusive' /\ LiveIsCurrent'
  <2>1. /\ fires'[f].pc \in {"called", "over"}
        /\ \A g \in Fires \ {f} : fires'[g] = fires[g]
    BY <1>4, OwnFireTells
  <2>2. runStates' = runStates /\ current' = current
    BY <1>4 DEF CronFire, SkipFire
  <2> QED  BY <2>1, <2>2 DEF StatesExclusive, LiveIsCurrent, Live, Executing, Active
<1>5. ASSUME NEW f \in Fires, EnterFire(f) PROVE StatesExclusive' /\ LiveIsCurrent'
  <2>1. /\ fires[f].pc = "called"
        /\ fires'[f].pc = "checking" /\ fires'[f].rs = StateOf(f)
        /\ \A g \in Fires \ {f} :
             /\ fires'[g].pc = fires[g].pc /\ fires'[g].rs = fires[g].rs
             /\ fires[g].cancelled => fires'[g].cancelled
        /\ \E a \in fires[f].a : ~(a.overlap = "skip" /\ Running(StateOf(f)))
    BY <1>5, EnterTells
  <2>2. PICK r \in Fires : StateOf(f) = {r} /\ (current = {} => r = f) /\ (current # {} => current = {r})
    BY <1>0, StateIsOne
  <2>3. ~ runStates[r].running \/ current = {}
    BY <2>1, <2>2 DEF OverlapsKnown, AlwaysSkip, Running
  <2>4. \A g \in Fires : Active(g) => r \notin fires[g].rs
    BY <2>1, <2>2, <2>3 DEF StatesExclusive, StatesEntered
  <2>5. \A g \in Fires \ {f} : Active(g)' = Active(g)
    BY <2>1 DEF Active
  <2>6. /\ runStates'[r].running /\ runStates'[r].cancel = {f}
        /\ \A s \in Fires \ {r} : runStates'[s] = runStates[s]
    BY <1>5, <2>2 DEF EnterFire
  <2>7. \A g \in Fires : fires[g].rs \subseteq Fires
    BY <1>0 DEF FireStates
  <2>8. StatesExclusive'
    <3>1. \A g, h \in Fires : (Active(g) /\ Active(h) /\ fires[g].rs = fires[h].rs)' => g = h
      BY <2>1, <2>2, <2>4, <2>5 DEF StatesExclusive
    <3>2. \A g \in Fires : Active(g)' =>
            \A s \in fires'[g].rs : runStates'[s].running /\ runStates'[s].cancel = {g}
      BY <2>1, <2>2, <2>4, <2>5, <2>6, <2>7 DEF StatesExclusive
    <3> QED  BY <3>1, <3>2 DEF StatesExclusive
  <2>9. ASSUME NEW g \in Live', g # f PROVE FALSE
    <3>1. g \in Live /\ g \in Fires /\ Active(g)
      BY <2>1, <2>9, <1>0 DEF Live, Executing, Active
    <3>2. PICK s \in Fires : fires[g].rs = {s} /\ current = {s}
      BY <3>1 DEF StatesEntered, LiveIsCurrent
    <3> QED  BY <2>2, <2>4, <3>1, <3>2
  <2>10. current' = StateOf(f)
    BY <1>5 DEF EnterFire
  <2> QED  BY <2>1, <2>8, <2>9, <2>10 DEF LiveIsCurrent
<1>6. ASSUME NEW f \in Fires, CheckFire(f) PROVE StatesExclusive' /\ LiveIsCurrent'
  <2>1. /\ fires[f].pc = "checking" /\ fires'[f].pc \in {"running", "closing"}
        /\ fires'[f].rs = fires[f].rs /\ fires'[f].cancelled = fires[f].cancelled
        /\ \A g \in Fires \ {f} : fires'[g] = fires[g]
    BY <1>6, OwnFireTells
  <2>2. runStates' = runStates /\ current' = current
    BY <1>6 DEF CheckFire
  <2>3. StatesExclusive'
    BY <2>1, <2>2 DEF StatesExclusive, Active
  <2>4. LiveIsCurrent'
    BY <2>1, <2>2 DEF LiveIsCurrent, Live, Executing
  <2> QED  BY <2>3, <2>4
<1>7. ASSUME NEW f \in Fires, EndFire(f) PROVE StatesExclusive' /\ LiveIsCurrent'
  <2>1. /\ fires[f].pc = "running"
        /\ fires'[f].pc = "closing" /\ fires'[f].rs = fires[f].rs
        /\ \A g \in Fires \ {f} :
             \/ fires'[g] = fires[g]
             \/ fires'[g].pc = "called"
    BY <1>7, EndTells
  <2>2. runStates' = runStates /\ current' = current
    BY <1>7 DEF EndFire
  <2>3. StatesExclusive'
    BY <2>1, <2>2 DEF StatesExclusive, Active
  <2>4. LiveIsCurrent'
    BY <2>1, <2>2 DEF LiveIsCurrent, Live, Executing
  <2> QED  BY <2>3, <2>4
<1>8. ASSUME NEW f \in Fires, CloseFire(f) PROVE StatesExclusive' /\ LiveIsCurrent'
  <2>1. /\ fires[f].pc = "closing" /\ fires'[f].pc = "over"
        /\ \A g \in Fires \ {f} : fires'[g] = fires[g]
    BY <1>8, OwnFireTells DEF CloseFire
  <2>2. /\ current' = current
        /\ \A s \in Fires \ fires[f].rs : runStates'[s] = runStates[s]
    BY <1>8 DEF CloseFire
  <2>3. \A g \in Fires \ {f} : Active(g) => fires[g].rs \subseteq Fires \ fires[f].rs
    BY <2>1 DEF StatesExclusive, StatesEntered, Active
  <2>4. StatesExclusive'
    <3>1. ~ Active(f)' /\ \A g \in Fires \ {f} : Active(g)' = Active(g)
      BY <2>1 DEF Active
    <3>2. \A g, h \in Fires : (Active(g) /\ Active(h) /\ fires[g].rs = fires[h].rs)' => g = h
      BY <2>1, <3>1 DEF StatesExclusive
    <3>3. \A g \in Fires : Active(g)' =>
            \A s \in fires'[g].rs : runStates'[s].running /\ runStates'[s].cancel = {g}
      BY <2>1, <2>2, <2>3, <3>1 DEF StatesExclusive
    <3> QED  BY <3>2, <3>3 DEF StatesExclusive
  <2>5. LiveIsCurrent'
    BY <2>1, <2>2 DEF LiveIsCurrent, Live, Executing
  <2> QED  BY <2>4, <2>5
<1> QED
  BY <1>1, <1>2, <1>3, <1>4, <1>5, <1>6, <1>7, <1>8 DEF JobNext

\* The invariant of the scheduler is inductive.
LEMMA SchedulerStep == SchedulerInv /\ [JobNext]_jobVars => SchedulerInv'
<1> SUFFICES ASSUME SchedulerInv, [JobNext]_jobVars PROVE SchedulerInv'
  OBVIOUS
<1>1. JobTypes' /\ OverlapsKnown' /\ StatesEntered' /\ RunningHasARun'
  BY TypesHold, KnownHold, EnteredHold, RunningHold DEF SchedulerInv
<1>2. overlaps \subseteq overlaps'
  BY DEF JobNext, ApplyJob, RejectJob, RemoveJob, RestartScheduler, CronFire, EnterFire, SkipFire,
         CheckFire, EndFire, CloseFire, jobVars
<1>3. AlwaysSkip' => StatesExclusive' /\ LiveIsCurrent'
  BY <1>2, SkipHold DEF SchedulerInv, AlwaysSkip
<1> QED  BY <1>1, <1>3 DEF SchedulerInv

\* It holds at the start.
LEMMA SchedulerStart == JobInit => SchedulerInv
<1> SUFFICES ASSUME JobInit PROVE SchedulerInv
  OBVIOUS
<1>1. \A f \in Fires : fires[f] = Unborn /\ ~ Active(f) /\ fires[f].rs = {} /\ fires[f].a = {}
  BY FreshStates DEF JobInit, Active
<1>2. JobTypes
  <2>1. fires \in [Fires -> FireStates]
    BY FreshStates DEF JobInit
  <2>2. runStates \in [Fires -> [running : BOOLEAN, cancel : SUBSET Fires]]
    BY DEF JobInit, Idle
  <2>3. applies \in 0..MaxApplies /\ agentStarts \in 0..MaxAgentStarts
    BY JobAssumption DEF JobInit
  <2> QED  BY <2>1, <2>2, <2>3 DEF JobInit, JobTypes, Lone
<1>3. OverlapsKnown /\ StatesEntered /\ RunningHasARun
  BY <1>1 DEF JobInit, OverlapsKnown, StatesEntered, RunningHasARun, Idle
<1>4. StatesExclusive /\ LiveIsCurrent
  BY <1>1 DEF StatesExclusive, LiveIsCurrent, Live, Executing, Active
<1> QED  BY <1>2, <1>3, <1>4 DEF SchedulerInv

\* A set of at most one element has at most one.
LEMMA LoneCardinality == ASSUME NEW T, NEW S, Lone(S, T) PROVE Cardinality(S) <= 1
<1>1. CASE S = {}
  BY <1>1, FS_EmptySet
<1>2. ASSUME NEW x \in T, S = {x} PROVE Cardinality(S) <= 1
  BY <1>2, FS_Singleton
<1> QED  BY <1>1, <1>2 DEF Lone

\* What the invariant says of the state.
LEMMA SchedulerMeans == SchedulerInv => JobTypeOK /\ SkipRunsOne /\ RunningHasARun
<1> SUFFICES ASSUME SchedulerInv PROVE JobTypeOK /\ SkipRunsOne
  BY DEF SchedulerInv
<1> USE DEF SchedulerInv
<1>1. JobTypeOK
  <2>1. Cardinality(assign) <= 1 /\ Cardinality(current) <= 1
    BY LoneCardinality DEF JobTypes
  <2>2. assign \subseteq Assignments /\ jobsFile \subseteq Assignments /\ current \subseteq Fires
    BY DEF JobTypes, Lone
  <2>3. ASSUME NEW f \in Fires
        PROVE  /\ fires[f].pc \in {"unborn", "called", "checking", "running", "closing", "over"}
               /\ fires[f].a \subseteq Assignments /\ fires[f].rs \subseteq Fires
               /\ fires[f].cancelled \in BOOLEAN
               /\ fires[f].retry \in 0..Retries
    <3>1. fires[f] \in FireStates
      BY DEF JobTypes
    <3> QED  BY <3>1 DEF FireStates, FirePCs
  <2> QED  BY <2>1, <2>2, <2>3 DEF JobTypeOK, JobTypes
<1>2. ASSUME overlaps = {"skip"} PROVE Cardinality(Live) <= 1
  <2>1. StatesExclusive /\ LiveIsCurrent
    BY <1>2 DEF AlwaysSkip
  <2>2. \A f, g \in Live : f = g
    BY <2>1 DEF StatesExclusive, LiveIsCurrent, Live, Executing, Active
  <2>3. Lone(Live, Fires)
    BY <2>2 DEF Lone, Live, Executing
  <2> QED  BY <2>3, LoneCardinality
<1> QED  BY <1>1, <1>2 DEF SkipRunsOne

\* A removal tells every run that still executes to stop.
LEMMA RemovalTells ==
  SchedulerInv /\ [JobNext]_jobVars =>
    (jobsFile # {} /\ jobsFile' = {} /\ overlaps = {"skip"} => \A f \in Executing : fires'[f].cancelled)
<1> SUFFICES ASSUME SchedulerInv, [JobNext]_jobVars, jobsFile # {}, jobsFile' = {}, overlaps = {"skip"},
                    NEW f \in Executing
             PROVE  fires'[f].cancelled
  OBVIOUS
<1>1. RemoveJob
  BY DEF JobNext, ApplyJob, RejectJob, RemoveJob, RestartScheduler, CronFire, EnterFire, SkipFire,
         CheckFire, EndFire, CloseFire, jobVars
<1>2. f \in Fires /\ Active(f) /\ StatesExclusive /\ LiveIsCurrent
  BY DEF SchedulerInv, AlwaysSkip, Executing, Active
<1>3. fires'[f].cancelled = (f \in CancelOf(current) \/ fires[f].cancelled)
  BY <1>1, <1>2, CancelTells DEF RemoveJob, SchedulerInv, JobTypes
<1>4. CASE f \in Live
  <2>1. PICK r \in Fires : fires[f].rs = {r}
    BY <1>2 DEF SchedulerInv, StatesEntered
  <2>2. r \in current /\ f \in runStates[r].cancel
    BY <1>2, <1>4, <2>1 DEF LiveIsCurrent, StatesExclusive
  <2>3. f \in CancelOf(current)
    BY <2>2 DEF CancelOf
  <2> QED  BY <1>3, <2>3
<1>5. CASE f \notin Live
  BY <1>3, <1>5 DEF Live
<1> QED  BY <1>4, <1>5

(* The overlap policy of a job is honored for any number of fires, of      *)
(* assignments and of restarts: under skip the job never runs twice at     *)
(* once, a removal leaves no run that was not told to stop, and no early   *)
(* return of fire leaves a runState that blocks the job (fire, Remove,     *)
(* Apply).                                                                 *)
THEOREM OverlapPolicyKept == JobSpec => OverlapIsHonored
<1>1. SchedulerInv /\ [JobNext]_jobVars
        => [jobsFile # {} /\ jobsFile' = {} /\ overlaps = {"skip"}
              => \A f \in Executing : fires'[f].cancelled]_jobVars
  BY RemovalTells
<1>2. JobSpec => []SchedulerInv
  BY SchedulerStart, SchedulerStep, PTL DEF JobSpec
<1>3. JobSpec => [](JobTypeOK /\ SkipRunsOne /\ RunningHasARun)
  BY <1>2, SchedulerMeans, PTL
<1>4. JobSpec => RemoveStopsTheRun
  BY <1>1, <1>2, PTL DEF JobSpec, RemoveStopsTheRun
<1> QED  BY <1>3, <1>4 DEF OverlapIsHonored

-----------------------------------------------------------------------------
(* Secrets. *)

RunProgress == {"new", "read", "warm", "sent", "running", "done", "failed"}

Values == 0..MaxSecretWrites

SecretVersions == [value : Values, key : Bootstraps, revoked : BOOLEAN]
RunStates == [state : RunProgress, value : Values \cup {-1}, ttl : Nat, on : Nat]
SecretEnvelopes == [run : SecretRuns, value : Values \cup {-1}, ttl : Nat]
CacheEntries == [value : Values \cup {-1}, expires : Nat]

KeyTypes ==
  /\ keyFile \in {-1, 0} \cup Bootstraps /\ apiKey \in {0} \cup Bootstraps
  /\ boots \in [Bootstraps -> {"idle", "begun", "made", "created"}]

VaultTypes ==
  /\ secretRow \in [id : Nat, bound : BOOLEAN, ttl : Nat]
  /\ versions \in Seq(SecretVersions)
  /\ revoking \in [id : Nat, version : Nat]
  /\ secretWrites \in Values

LinkTypes ==
  /\ secretRuns \in [SecretRuns -> RunStates]
  /\ secretLink \in [on : BOOLEAN, n : Nat]
  /\ secretWire \in Seq(SecretEnvelopes)

CacheTypes ==
  /\ mem \in CacheEntries /\ sealed \in CacheEntries
  /\ windows \in [Values -> Nat]
  /\ secretTime \in Nat

\* One bootstrap at a time creates the file, while nothing is sealed yet; a
\* manager that is installed has the key of the file, and so has what it sealed.
OneKey ==
  /\ apiKey # 0 => apiKey = keyFile
  /\ \A b \in Bootstraps : boots[b] = "created" => keyFile = 0
  /\ \A b, c \in Bootstraps : boots[b] = "created" /\ boots[c] = "created" => b = c
  /\ SecretsStayReadable

\* A version is the newest or it is revoked.
OldAreRevoked == \A i \in DOMAIN versions : i < Len(versions) => versions[i].revoked

\* An entry of the cache ends with the window of its value, when that has one.
EntryInWindow(e) ==
  /\ e.value = -1 => e = NoEntry
  /\ e.value # -1 /\ windows[e.value] # 0 => e.expires = windows[e.value]

Windows == EntryInWindow(mem) /\ EntryInWindow(sealed)

Cached == mem # NoEntry

\* A run that was sent down the stream of now finds the value in memory, or in
\* front of it on the wire.
RunIsWarm(r) ==
  /\ secretRuns[r].on <= secretLink.n
  /\ secretRuns[r].state = "read" => secretRuns[r].value # -1
  /\ secretRuns[r].state = "running" /\ secretRuns[r].on = secretLink.n => Cached
  /\ secretRuns[r].state = "warm" /\ secretRuns[r].on = secretLink.n /\ secretLink.on
       => Cached \/ \E j \in DOMAIN secretWire : secretWire[j].value # -1

SentIsWarm(i) ==
  secretWire[i].value = -1 =>
    /\ secretRuns[secretWire[i].run].state \notin {"new", "read", "warm"}
    /\ secretRuns[secretWire[i].run].on = secretLink.n =>
         Cached \/ \E j \in 1..(i - 1) : secretWire[j].value # -1

WarmFirst ==
  /\ \A r \in SecretRuns : RunIsWarm(r)
  /\ \A i \in DOMAIN secretWire : SentIsWarm(i)

SecretsInv ==
  /\ KeyTypes /\ VaultTypes /\ LinkTypes /\ CacheTypes
  /\ OneKey /\ OldAreRevoked /\ Windows /\ WarmFirst

\* A step of the store leaves versions sealed with the key of the API or with
\* a key that was there, and none that is neither the newest nor revoked.
LEMMA VersionsTell ==
  ASSUME KeyTypes, VaultTypes, OldAreRevoked, VaultStep
  PROVE  /\ versions' \in Seq(SecretVersions)
         /\ OldAreRevoked'
         /\ \A i \in DOMAIN versions' :
              \/ apiKey # 0 /\ versions'[i].key = apiKey
              \/ \E j \in DOMAIN versions : versions'[i].key = versions[j].key
<1>0. versions \in Seq(SecretVersions) /\ \A i \in DOMAIN versions : versions[i] \in SecretVersions
  BY DEF VaultTypes
<1>1. ASSUME NEW value \in {0, secretWrites + 1}, secretWrites < MaxSecretWrites, apiKey # 0
      PROVE  Version(value) \in SecretVersions /\ Version(value).key = apiKey
  <2>1. value \in Values
    BY <1>1, SecretsAssumption DEF VaultTypes, Values
  <2> QED  BY <1>1, <2>1 DEF Version, SecretVersions, KeyTypes
<1>2. ASSUME NEW value \in {0, secretWrites + 1}, NEW ttl \in {0, OfflineTTL}, secretCreate(value, ttl)
      PROVE  /\ versions' \in Seq(SecretVersions)
             /\ OldAreRevoked'
             /\ \A i \in DOMAIN versions' :
                  \/ apiKey # 0 /\ versions'[i].key = apiKey
                  \/ \E j \in DOMAIN versions : versions'[i].key = versions[j].key
  <2>1. versions' = <<Version(value)>> /\ secretWrites < MaxSecretWrites /\ apiKey # 0
    BY <1>2 DEF secretCreate, SecretWrite, CreateSecret, NewValue, StoreCreateSecret
  <2>2. Version(value) \in SecretVersions /\ Version(value).key = apiKey
    BY <1>1, <2>1
  <2> HIDE DEF Version
  <2> QED  BY <2>1, <2>2 DEF OldAreRevoked
<1>3. ASSUME NEW value \in {0, secretWrites + 1}, secretRotate(value)
      PROVE  /\ versions' \in Seq(SecretVersions)
             /\ OldAreRevoked'
             /\ \A i \in DOMAIN versions' :
                  \/ apiKey # 0 /\ versions'[i].key = apiKey
                  \/ \E j \in DOMAIN versions : versions'[i].key = versions[j].key
  <2> DEFINE old == [i \in DOMAIN versions |-> [versions[i] EXCEPT !.revoked = TRUE]]
  <2>1. versions' = Append(old, Version(value)) /\ secretWrites < MaxSecretWrites /\ apiKey # 0
    BY <1>3 DEF secretRotate, SecretWrite, RotateSecret, NewValue, StoreRotateSecret
  <2>2. Version(value) \in SecretVersions /\ Version(value).key = apiKey
    BY <1>1, <2>1
  <2>3. \A i \in DOMAIN versions : old[i] \in SecretVersions /\ old[i].revoked /\ old[i].key = versions[i].key
    BY <1>0 DEF SecretVersions
  <2>4. old \in Seq(SecretVersions) /\ Len(old) = Len(versions)
    BY <1>0, <2>3
  <2>5. DOMAIN old = DOMAIN versions
    OBVIOUS
  <2> HIDE DEF old, Version
  <2>6. /\ versions' \in Seq(SecretVersions) /\ Len(versions') = Len(old) + 1
        /\ \A i \in DOMAIN versions' :
             IF i = Len(old) + 1 THEN versions'[i] = Version(value)
             ELSE i \in DOMAIN old /\ versions'[i] = old[i]
    BY <2>1, <2>2, <2>4
  <2>7. OldAreRevoked'
    BY <2>3, <2>5, <2>6 DEF OldAreRevoked
  <2>8. ASSUME NEW i \in DOMAIN versions'
        PROVE  \/ apiKey # 0 /\ versions'[i].key = apiKey
               \/ \E j \in DOMAIN versions : versions'[i].key = versions[j].key
    BY <2>1, <2>2, <2>3, <2>5, <2>6
  <2> QED  BY <2>6, <2>7, <2>8
<1>4. CASE secretDelete
  <2>1. versions' = <<>>
    BY <1>4 DEF secretDelete, DeleteSecret, StoreDeleteSecret
  <2> QED  BY <2>1 DEF OldAreRevoked
<1>5. CASE secretRevoke
  <2>1. versions' = versions
    BY <1>5 DEF secretRevoke, RevokeSecret
  <2> QED  BY <1>0, <2>1 DEF OldAreRevoked
<1>6. CASE RevokeSecretVersion
  <2>1. CASE versions' = versions
    BY <1>0, <2>1 DEF OldAreRevoked
  <2>2. CASE /\ revoking.version \in DOMAIN versions
             /\ versions' = [versions EXCEPT ![revoking.version].revoked = TRUE]
    <3> DEFINE v == revoking.version
               hit == [versions[v] EXCEPT !.revoked = TRUE]
    <3>1. hit \in SecretVersions /\ hit.revoked /\ hit.key = versions[v].key
      BY <1>0, <2>2 DEF SecretVersions
    <3>2. versions' = [versions EXCEPT ![v] = hit]
      BY <2>2
    <3> HIDE DEF hit
    <3>3. versions' \in Seq(SecretVersions) /\ Len(versions') = Len(versions)
      BY <1>0, <2>2, <3>1, <3>2, ExceptSeq
    <3>4. \A i \in DOMAIN versions' :
            i \in DOMAIN versions /\ (versions'[i] = IF i = v THEN hit ELSE versions[i])
      BY <1>0, <3>2
    <3>5. OldAreRevoked'
      BY <3>1, <3>3, <3>4 DEF OldAreRevoked
    <3>6. \A i \in DOMAIN versions' : versions'[i].key = versions[i].key
      BY <3>1, <3>4
    <3> QED  BY <3>3, <3>4, <3>5, <3>6
  <2> QED  BY <1>6, <2>1, <2>2 DEF RevokeSecretVersion, RevokesStored
<1> QED  BY <1>2, <1>3, <1>4, <1>5, <1>6 DEF VaultStep

\* The steps that touch neither the key nor the store.
LEMMA OtherSteps ==
  ASSUME [SecretsNext]_secretsVars
  PROVE  \/ KeyStep \/ SecretServerRestart \/ VaultStep
         \/ UNCHANGED <<keyFile, apiKey, boots, versions>>
BY DEF SecretsNext, secretsVars, keyVars, vaultVars, DispatchStep, AgentTakesSecret, FireGets, StepGets,
       AgentRestarts, SecretStreamEnds, SecretStreamReturns, BindingChanges, SecretTick

\* A key step makes, writes or adopts the key of the file: whoever finds it
\* created or written makes no other.
LEMMA KeysHold ==
  KeyTypes /\ VaultTypes /\ OldAreRevoked /\ OneKey /\ [SecretsNext]_secretsVars => KeyTypes' /\ OneKey'
<1> SUFFICES ASSUME KeyTypes, VaultTypes, OldAreRevoked, OneKey, [SecretsNext]_secretsVars
             PROVE  KeyTypes' /\ OneKey'
  OBVIOUS
<1>0. \A i \in DOMAIN versions : versions[i].key = keyFile /\ keyFile \in Bootstraps
  <2>1. \A i \in DOMAIN versions : versions[i] \in SecretVersions
    BY DEF VaultTypes
  <2> QED  BY <2>1 DEF SecretVersions, OneKey, SecretsStayReadable
<1>1. Bootstraps \subseteq Nat \ {0} /\ -1 \notin Bootstraps /\ 0 \notin Bootstraps
  BY SecretsAssumption
<1>2. CASE KeyStep
  <2>0. versions' = versions
    BY <1>2 DEF KeyStep, vaultVars
  <2>1. PICK b \in Bootstraps : secretBootstrap(b) \/ BootstrapKey(b) \/ CreateKeyFile(b) \/ WriteKeyFile(b)
    BY <1>2 DEF KeyStep
  <2>2. CASE /\ \/ boots' = [boots EXCEPT ![b] = "idle"]
                \/ boots' = [boots EXCEPT ![b] = "begun"]
                \/ boots' = [boots EXCEPT ![b] = "made"]
             /\ keyFile' = keyFile
             /\ apiKey' = apiKey \/ (keyFile > 0 /\ apiKey' = keyFile)
    <3>1. KeyTypes'
      BY <1>1, <2>2 DEF KeyTypes
    <3>2. \A c \in Bootstraps : boots'[c] = "created" => boots[c] = "created"
      BY <2>2 DEF KeyTypes
    <3> QED  BY <2>0, <2>2, <3>1, <3>2 DEF OneKey, SecretsStayReadable
  <2>3. CASE keyFile = -1 /\ keyFile' = 0 /\ boots' = [boots EXCEPT ![b] = "created"] /\ apiKey' = apiKey
    <3>1. KeyTypes'
      BY <2>3 DEF KeyTypes
    <3>2. versions = <<>> \/ DOMAIN versions = {}
      BY <1>0, <1>1, <2>3
    <3>3. apiKey = 0
      BY <1>1, <2>3 DEF OneKey, KeyTypes
    <3>4. \A c \in Bootstraps : boots[c] # "created"
      BY <2>3 DEF OneKey
    <3>5. \A c \in Bootstraps : boots'[c] = "created" => c = b
      BY <2>3, <3>4 DEF KeyTypes
    <3> QED  BY <1>0, <1>1, <2>0, <2>3, <3>1, <3>3, <3>5 DEF OneKey, SecretsStayReadable
  <2>4. CASE boots[b] = "created" /\ keyFile' = b /\ apiKey' = b /\ boots' = [boots EXCEPT ![b] = "idle"]
    <3>1. KeyTypes'
      BY <2>4 DEF KeyTypes
    <3>2. keyFile = 0
      BY <2>4 DEF OneKey
    <3>3. \A c \in Bootstraps : boots'[c] # "created"
      BY <2>4 DEF OneKey, KeyTypes
    <3> QED  BY <1>0, <1>1, <2>0, <2>4, <3>1, <3>2, <3>3 DEF OneKey, SecretsStayReadable
  <2>5. CASE secretBootstrap(b)
    BY <2>2, <2>5 DEF secretBootstrap
  <2>6. CASE BootstrapKey(b)
    <3>1. keyFile' = keyFile
      BY <2>6 DEF BootstrapKey, Install
    <3>2. boots' = [boots EXCEPT ![b] = "idle"] \/ boots' = [boots EXCEPT ![b] = "made"]
      BY <2>6 DEF BootstrapKey, Install
    <3>3. apiKey' = apiKey \/ (keyFile > 0 /\ apiKey' = keyFile)
      BY <2>6 DEF BootstrapKey, Install, loadKeyFile
    <3> QED  BY <2>2, <3>1, <3>2, <3>3
  <2>7. CASE CreateKeyFile(b)
    <3>1. CASE keyFile = -1
      BY <2>3, <2>7, <3>1 DEF CreateKeyFile
    <3>2. CASE keyFile # -1
      <4>1. keyFile' = keyFile /\ boots' = [boots EXCEPT ![b] = "idle"]
        BY <2>7, <3>2 DEF CreateKeyFile, Install
      <4>2. apiKey' = apiKey \/ (keyFile > 0 /\ apiKey' = keyFile)
        BY <2>7, <3>2 DEF CreateKeyFile, Install, loadKeyFile
      <4> QED  BY <2>2, <4>1, <4>2
    <3> QED  BY <3>1, <3>2
  <2>8. CASE WriteKeyFile(b)
    BY <2>4, <2>8 DEF WriteKeyFile
  <2> QED
    BY <2>1, <2>5, <2>6, <2>7, <2>8
<1>3. CASE SecretServerRestart
  <2>1. /\ keyFile' = keyFile /\ versions' = versions
        /\ apiKey' = (IF keyFile > 0 THEN keyFile ELSE 0) /\ boots' = [b \in Bootstraps |-> "idle"]
    BY <1>3 DEF SecretServerRestart, LoadMasterKeyWithDefault, loadKeyFile
  <2>2. KeyTypes'
    BY <1>1, <2>1 DEF KeyTypes
  <2>3. \A b \in Bootstraps : boots'[b] # "created"
    BY <2>1
  <2> QED  BY <2>1, <2>2, <2>3 DEF OneKey, SecretsStayReadable
<1>4. CASE VaultStep
  <2>1. UNCHANGED <<keyFile, apiKey, boots>>
    BY <1>4 DEF VaultStep, secretCreate, secretRotate, secretDelete, secretRevoke, SecretWrite,
                RevokeSecretVersion, keyVars
  <2>2. KeyTypes'
    BY <2>1 DEF KeyTypes
  <2>3. SecretsStayReadable'
    BY <1>0, <1>4, <2>1, VersionsTell DEF OneKey, SecretsStayReadable
  <2> QED  BY <2>1, <2>2, <2>3 DEF OneKey
<1>5. CASE UNCHANGED <<keyFile, apiKey, boots, versions>>
  BY <1>5 DEF KeyTypes, OneKey, SecretsStayReadable
<1> QED  BY <1>2, <1>3, <1>4, <1>5, OtherSteps

\* The current version is the last one, unless that is revoked.
LEMMA LatestIsLast ==
  ASSUME VaultTypes, OldAreRevoked
  PROVE  GetLatestSecretVersion = 0 \/ (GetLatestSecretVersion \in DOMAIN versions
                                        /\ GetLatestSecretVersion = Len(versions))
<1> DEFINE active == {i \in DOMAIN versions : ~ versions[i].revoked}
<1>1. \A i \in active : i = Len(versions)
  BY DEF VaultTypes, OldAreRevoked
<1>2. CASE active = {}
  BY <1>2 DEF GetLatestSecretVersion
<1>3. CASE active # {}
  <2>1. Len(versions) \in active /\ \A j \in active : j <= Len(versions)
    BY <1>1, <1>3 DEF VaultTypes
  <2>2. GetLatestSecretVersion = CHOOSE i \in active : \A j \in active : j <= i
    BY <1>3 DEF GetLatestSecretVersion
  <2>3. GetLatestSecretVersion \in active
    BY <2>1, <2>2
  <2> QED  BY <1>1, <2>3
<1> QED  BY <1>2, <1>3

\* The types of the store.
LEMMA VaultTypesHold ==
  KeyTypes /\ VaultTypes /\ OldAreRevoked /\ [SecretsNext]_secretsVars => VaultTypes' /\ OldAreRevoked'
<1> SUFFICES ASSUME KeyTypes, VaultTypes, OldAreRevoked, [SecretsNext]_secretsVars
             PROVE  VaultTypes' /\ OldAreRevoked'
  OBVIOUS
<1>1. CASE VaultStep
  <2>1. versions' \in Seq(SecretVersions) /\ OldAreRevoked'
    BY <1>1, VersionsTell
  <2>2. secretRow' \in [id : Nat, bound : BOOLEAN, ttl : Nat]
    <3>1. OfflineTTL \in Nat /\ secretWrites + 1 \in Nat
      BY SecretsAssumption DEF VaultTypes, Values
    <3>2. NoSecret \in [id : Nat, bound : BOOLEAN, ttl : Nat]
      BY DEF NoSecret
    <3>3. \/ secretRow' = secretRow \/ secretRow' = NoSecret
          \/ \E ttl \in {0, OfflineTTL} : secretRow' = [id |-> secretWrites + 1, bound |-> TRUE, ttl |-> ttl]
      BY <1>1 DEF VaultStep, secretCreate, CreateSecret, StoreCreateSecret, secretRotate, RotateSecret,
                  secretDelete, DeleteSecret, StoreDeleteSecret, secretRevoke, RevokeSecret, RevokeSecretVersion
    <3>4. ASSUME NEW ttl \in {0, OfflineTTL}
          PROVE  [id |-> secretWrites + 1, bound |-> TRUE, ttl |-> ttl] \in [id : Nat, bound : BOOLEAN, ttl : Nat]
      BY <3>1
    <3> QED  BY <3>2, <3>3, <3>4 DEF VaultTypes
  <2>3. revoking' \in [id : Nat, version : Nat]
    <3>1. \/ revoking' = revoking \/ revoking' = NoRevoke
          \/ revoking' = [id |-> secretRow.id, version |-> GetLatestSecretVersion]
      BY <1>1 DEF VaultStep, secretCreate, CreateSecret, secretRotate, RotateSecret,
                  secretDelete, DeleteSecret, secretRevoke, RevokeSecret, RevokeSecretVersion
    <3>2. GetLatestSecretVersion \in Nat
      BY LatestIsLast DEF VaultTypes
    <3> QED  BY <3>1, <3>2 DEF VaultTypes, NoRevoke
  <2>4. secretWrites' \in Values
    <3>1. secretWrites' = secretWrites \/ (secretWrites < MaxSecretWrites /\ secretWrites' = secretWrites + 1)
      BY <1>1 DEF VaultStep, secretCreate, CreateSecret, secretRotate, RotateSecret, NewValue,
                  secretDelete, DeleteSecret, secretRevoke, RevokeSecret, RevokeSecretVersion
    <3> QED  BY <3>1, SecretsAssumption DEF VaultTypes, Values
  <2> QED  BY <2>1, <2>2, <2>3, <2>4 DEF VaultTypes
<1>2. CASE BindingChanges
  <2>1. secretRow' \in [id : Nat, bound : BOOLEAN, ttl : Nat]
    BY <1>2 DEF BindingChanges, VaultTypes
  <2>2. UNCHANGED <<versions, revoking, secretWrites>>
    BY <1>2 DEF BindingChanges
  <2> QED  BY <2>1, <2>2 DEF VaultTypes, OldAreRevoked
<1>3. CASE SecretServerRestart
  BY <1>3 DEF SecretServerRestart, VaultTypes, OldAreRevoked, NoRevoke
<1>4. CASE UNCHANGED <<secretRow, versions, revoking, secretWrites>>
  BY <1>4 DEF VaultTypes, OldAreRevoked
<1> QED
  BY <1>1, <1>2, <1>3, <1>4
  DEF SecretsNext, secretsVars, vaultVars, KeyStep, DispatchStep, AgentTakesSecret, FireGets, StepGets,
      AgentRestarts, SecretStreamEnds, SecretStreamReturns, SecretTick

\* What an agent's lookup does to the cache, and what it returns.
LEMMA GetTells ==
  ASSUME CacheTypes, Windows, NEW r, Get(r)
  PROVE  /\ mem' = mem \/ mem' = sealed
         /\ sealed' = sealed \/ sealed' = NoEntry
         /\ mem # NoEntry => mem' # NoEntry
         /\ mem # NoEntry /\ ~ Expired(mem) => lastGet'[2] # -1
         /\ lastGet'[2] # -1 => \E e \in {mem, sealed} : e # NoEntry /\ ~ Expired(e) /\ lastGet'[2] = e.value
<1>1. NoEntry.value = -1
  BY DEF NoEntry
<1>2. \A e \in {mem, sealed} : e # NoEntry => e.value # -1
  BY DEF Windows, EntryInWindow
<1>3. CASE mem # NoEntry
  <2>1. mem' = mem /\ sealed' = sealed /\ lastGet'[2] = IF Expired(mem) THEN -1 ELSE mem.value
    BY <1>3 DEF Get, Got
  <2> QED  BY <1>2, <1>3, <2>1
<1>4. CASE mem = NoEntry /\ (sealed = NoEntry \/ Expired(sealed))
  <2>1. lastGet'[2] = -1 /\ mem' = mem /\ (sealed' = sealed \/ sealed' = NoEntry)
    BY <1>4 DEF Get, Got
  <2> QED  BY <1>4, <2>1
<1>5. CASE mem = NoEntry /\ sealed # NoEntry /\ ~ Expired(sealed)
  <2>1. lastGet'[2] = sealed.value /\ mem' = sealed /\ sealed' = sealed
    BY <1>5 DEF Get, Got, Promote
  <2> QED  BY <1>2, <1>5, <2>1
<1> QED  BY <1>3, <1>4, <1>5

\* An entry of the cache is one that was there, nothing, or the delivery that
\* starts the window of its value again.
LEMMA CacheHolds ==
  CacheTypes /\ Windows /\ LinkTypes /\ [SecretsNext]_secretsVars => CacheTypes' /\ Windows'
<1> SUFFICES ASSUME CacheTypes, Windows, LinkTypes, [SecretsNext]_secretsVars
             PROVE  CacheTypes' /\ Windows'
  OBVIOUS
<1>1. NoEntry \in CacheEntries /\ EntryInWindow(NoEntry)
  BY DEF NoEntry, CacheEntries, EntryInWindow
<1>2. CASE AgentTakesSecret /\ Head(secretWire).value # -1
  <2> DEFINE m == Head(secretWire)
             e == [value |-> m.value, expires |-> IF m.ttl = 0 THEN 0 ELSE secretTime + m.ttl]
  <2>1. m \in SecretEnvelopes
    BY <1>2 DEF AgentTakesSecret, LinkTypes
  <2>2. /\ mem' = e /\ sealed' = (IF m.ttl = 0 THEN sealed ELSE e)
        /\ windows' = [windows EXCEPT ![m.value] = e.expires]
        /\ secretTime' = secretTime
    BY <1>2 DEF AgentTakesSecret, Handle
  <2>3. m.value \in Values /\ m.value # -1 /\ m.ttl \in Nat
    BY <1>2, <2>1 DEF SecretEnvelopes
  <2>4. e \in CacheEntries /\ e.value = m.value /\ e.expires \in Nat /\ (m.ttl = 0 => e.expires = 0)
    BY <2>3 DEF CacheEntries, CacheTypes
  <2> HIDE DEF m, e
  <2>5. windows' \in [Values -> Nat] /\ windows'[m.value] = e.expires
        /\ \A v \in Values \ {m.value} : windows'[v] = windows[v]
    BY <2>2, <2>3, <2>4 DEF CacheTypes
  <2>6. CacheTypes'
    BY <2>2, <2>4, <2>5 DEF CacheTypes
  <2>7. e.value # -1 /\ windows'[e.value] = e.expires
    BY <2>3, <2>4, <2>5
  <2>8. m.ttl = 0 => EntryInWindow(sealed)'
    <3> SUFFICES ASSUME m.ttl = 0 PROVE EntryInWindow(sealed)'
      OBVIOUS
    <3>1. sealed' = sealed /\ sealed.value \in Values \cup {-1}
      BY <2>2 DEF CacheTypes, CacheEntries
    <3> QED  BY <2>4, <2>5, <3>1 DEF EntryInWindow, Windows
  <2>9. mem' = e
    BY <2>2
  <2>10. EntryInWindow(mem)'
    BY <2>7, <2>9 DEF EntryInWindow
  <2>11. EntryInWindow(sealed)'
    BY <2>2, <2>7, <2>8 DEF EntryInWindow
  <2> QED  BY <2>6, <2>10, <2>11 DEF Windows
<1>3. CASE /\ UNCHANGED windows
           /\ mem' \in {mem, sealed, NoEntry} /\ sealed' \in {sealed, NoEntry}
           /\ secretTime' \in Nat
  <2>1. CacheTypes'
    BY <1>1, <1>3 DEF CacheTypes
  <2>2. Windows'
    BY <1>1, <1>3 DEF Windows, EntryInWindow
  <2> QED  BY <2>1, <2>2
<1>4. secretTime \in Nat
  BY DEF CacheTypes
<1>5. CASE AgentTakesSecret /\ Head(secretWire).value = -1
  BY <1>3, <1>4, <1>5 DEF AgentTakesSecret, cacheVars
<1>6. CASE FireGets
  <2>1. mem' \in {mem, sealed} /\ sealed' \in {sealed, NoEntry}
    BY <1>6, GetTells DEF FireGets
  <2> QED  BY <1>3, <1>4, <1>6, <2>1 DEF FireGets
<1>7. ASSUME NEW r \in SecretRuns, StepGets(r) PROVE CacheTypes' /\ Windows'
  <2>1. mem' \in {mem, sealed} /\ sealed' \in {sealed, NoEntry}
    BY <1>7, GetTells DEF StepGets
  <2> QED  BY <1>3, <1>4, <1>7, <2>1 DEF StepGets
<1>8. CASE AgentRestarts
  BY <1>3, <1>4, <1>8 DEF AgentRestarts, load
<1>9. CASE SecretTick
  <2>1. secretTime' \in Nat /\ UNCHANGED cacheVars
    BY <1>4, <1>9 DEF SecretTick
  <2> QED  BY <1>3, <2>1 DEF cacheVars
<1>10. CASE UNCHANGED <<mem, sealed, windows, secretTime>>
  BY <1>3, <1>4, <1>10
<1>11. CASE KeyStep \/ SecretServerRestart \/ VaultStep \/ DispatchStep \/ SecretStreamEnds
            \/ SecretStreamReturns \/ BindingChanges \/ UNCHANGED secretsVars
  <2>1. UNCHANGED <<mem, sealed, windows, secretTime>>
    BY <1>11 DEF KeyStep, SecretServerRestart, VaultStep, secretCreate, secretRotate, secretDelete,
                 secretRevoke, SecretWrite, RevokeSecretVersion, DispatchStep, SecretStreamEnds,
                 SecretStreamReturns, BindingChanges, secretsVars, cacheVars
  <2> QED  BY <1>10, <2>1
<1> QED
  BY <1>2, <1>5, <1>6, <1>7, <1>8, <1>9, <1>11 DEF SecretsNext

\* What the dispatcher of a run does: it reads a value, sends it, sends the
\* run, or gives up.
LEMMA DispatchTells ==
  ASSUME VaultTypes, OldAreRevoked, LinkTypes, NEW r \in SecretRuns,
         MaterializeForRun(r) \/ SendSecretMaterialize(r) \/ SendRun(r)
  PROVE  \/ /\ secretRuns[r].state = "new" /\ secretWire' = secretWire
            /\ \E value \in Values, ttl \in Nat :
                 secretRuns' = [secretRuns EXCEPT ![r] = [state |-> "read", value |-> value, ttl |-> ttl, on |-> 0]]
         \/ /\ secretRuns[r].state = "read" /\ secretLink.on
            /\ secretWire' = Append(secretWire, [run |-> r, value |-> secretRuns[r].value, ttl |-> secretRuns[r].ttl])
            /\ secretRuns' = [secretRuns EXCEPT ![r] = [secretRuns[r] EXCEPT !.state = "warm", !.on = secretLink.n]]
         \/ /\ secretRuns[r].state = "warm" /\ secretLink.on
            /\ secretWire' = Append(secretWire, [run |-> r, value |-> -1, ttl |-> 0])
            /\ secretRuns' = [secretRuns EXCEPT ![r] = [secretRuns[r] EXCEPT !.state = "sent"]]
         \/ /\ secretRuns[r].state \in {"new", "read", "warm"} /\ secretWire' = secretWire
            /\ \/ secretRuns' = [secretRuns EXCEPT ![r] = [secretRuns[r] EXCEPT !.state = "failed"]]
               \/ secretRuns' = [secretRuns EXCEPT ![r] = [NewSecretRun EXCEPT !.state = "failed"]]
<1> DEFINE v == GetLatestSecretVersion
<1>1. CASE MaterializeForRun(r)
  <2>1. CASE secretRuns' = [secretRuns EXCEPT ![r] = [NewSecretRun EXCEPT !.state = "failed"]]
    BY <1>1, <2>1 DEF MaterializeForRun
  <2>2. CASE /\ v # 0
             /\ secretRuns' = [secretRuns EXCEPT ![r] =
                  [state |-> "read", value |-> versions[v].value, ttl |-> secretRow.ttl, on |-> 0]]
    <3>1. v \in DOMAIN versions
      BY <2>2, LatestIsLast
    <3>2. versions[v] \in SecretVersions
      BY <3>1 DEF VaultTypes
    <3>3. versions[v].value \in Values /\ secretRow.ttl \in Nat
      BY <3>2 DEF VaultTypes, SecretVersions
    <3> HIDE DEF v
    <3> QED  BY <1>1, <2>2, <3>3 DEF MaterializeForRun
  <2> QED  BY <1>1, <2>1, <2>2 DEF MaterializeForRun, Materialize, Progress
<1>2. CASE SendSecretMaterialize(r)
  BY <1>2 DEF SendSecretMaterialize, Progress
<1>3. CASE SendRun(r)
  BY <1>3 DEF SendRun, Progress
<1> QED  BY <1>1, <1>2, <1>3

\* The steps that touch neither the runs nor the link nor the memory.
LEMMA QuietSteps ==
  ASSUME [SecretsNext]_secretsVars
  PROVE  \/ SecretServerRestart
         \/ \E r \in SecretRuns : /\ MaterializeForRun(r) \/ SendSecretMaterialize(r) \/ SendRun(r)
                                  /\ UNCHANGED <<mem, secretLink>>
         \/ AgentTakesSecret \/ FireGets \/ (\E r \in SecretRuns : StepGets(r))
         \/ AgentRestarts \/ SecretStreamEnds \/ SecretStreamReturns
         \/ UNCHANGED <<secretRuns, secretLink, secretWire, mem>>
BY DEF SecretsNext, secretsVars, keyVars, vaultVars, cacheVars, linkVars, KeyStep, VaultStep, secretCreate,
       secretRotate, secretDelete, secretRevoke, SecretWrite, RevokeSecretVersion, DispatchStep,
       BindingChanges, SecretTick

\* The types of the runs and of the stream.
LEMMA LinkTypesHold ==
  VaultTypes /\ OldAreRevoked /\ LinkTypes /\ [SecretsNext]_secretsVars => LinkTypes'
<1> SUFFICES ASSUME VaultTypes, OldAreRevoked, LinkTypes, [SecretsNext]_secretsVars
             PROVE  LinkTypes'
  OBVIOUS
<1>0. /\ secretRuns \in [SecretRuns -> RunStates]
      /\ \A r \in SecretRuns : secretRuns[r] \in RunStates
      /\ secretWire \in Seq(SecretEnvelopes)
  BY DEF LinkTypes
<1>1. \A run \in RunStates, state \in RunProgress : [run EXCEPT !.state = state] \in RunStates
  BY DEF RunStates
<1>2. CASE SecretServerRestart
  <2>1. secretRuns' \in [SecretRuns -> RunStates]
    <3>1. \A r \in SecretRuns : [secretRuns[r] EXCEPT !.state = "failed"] \in RunStates
      BY <1>0, <1>1 DEF RunProgress
    <3> QED  BY <1>0, <1>2, <3>1 DEF SecretServerRestart
  <2>2. secretLink' \in [on : BOOLEAN, n : Nat] /\ secretWire' = <<>>
    BY <1>2 DEF SecretServerRestart, LinkTypes
  <2> QED  BY <2>1, <2>2 DEF LinkTypes
<1>3. ASSUME NEW r \in SecretRuns, MaterializeForRun(r) \/ SendSecretMaterialize(r) \/ SendRun(r),
             UNCHANGED <<mem, secretLink>>
      PROVE  LinkTypes'
  <2>1. \E run \in RunStates : secretRuns' = [secretRuns EXCEPT ![r] = run]
    <3>1. \A value \in Values, ttl \in Nat :
            [state |-> "read", value |-> value, ttl |-> ttl, on |-> 0] \in RunStates
      BY DEF RunStates, RunProgress
    <3>2. [secretRuns[r] EXCEPT !.state = "warm", !.on = secretLink.n] \in RunStates
      BY <1>0 DEF RunStates, RunProgress, LinkTypes
    <3>3. /\ [secretRuns[r] EXCEPT !.state = "sent"] \in RunStates
          /\ [secretRuns[r] EXCEPT !.state = "failed"] \in RunStates
      BY <1>0, <1>1 DEF RunProgress
    <3>4. [NewSecretRun EXCEPT !.state = "failed"] \in RunStates
      BY DEF NewSecretRun, RunStates, RunProgress
    <3> QED  BY <1>3, <3>1, <3>2, <3>3, <3>4, DispatchTells
  <2>2. \/ secretWire' = secretWire
        \/ \E m \in SecretEnvelopes : secretWire' = Append(secretWire, m)
    <3>1. [run |-> r, value |-> secretRuns[r].value, ttl |-> secretRuns[r].ttl] \in SecretEnvelopes
      BY <1>0 DEF RunStates, SecretEnvelopes
    <3>2. [run |-> r, value |-> -1, ttl |-> 0] \in SecretEnvelopes
      BY DEF SecretEnvelopes
    <3> QED  BY <1>3, <3>1, <3>2, DispatchTells
  <2>3. secretRuns' \in [SecretRuns -> RunStates]
    BY <1>0, <2>1
  <2>4. secretWire' \in Seq(SecretEnvelopes)
    BY <1>0, <2>2
  <2> QED  BY <1>3, <2>3, <2>4 DEF LinkTypes
<1>4. CASE AgentTakesSecret
  <2>1. Head(secretWire) \in SecretEnvelopes /\ secretWire' \in Seq(SecretEnvelopes)
    BY <1>0, <1>4 DEF AgentTakesSecret
  <2>2. Head(secretWire).run \in SecretRuns
    BY <2>1 DEF SecretEnvelopes
  <2> DEFINE r == Head(secretWire).run
  <2>3. secretRuns' = secretRuns
        \/ secretRuns' = [secretRuns EXCEPT ![r] = [secretRuns[r] EXCEPT !.state = "running"]]
    BY <1>4 DEF AgentTakesSecret, Handle, Progress
  <2>4. [secretRuns[r] EXCEPT !.state = "running"] \in RunStates
    BY <1>0, <1>1, <2>2 DEF RunProgress
  <2> HIDE DEF r
  <2>5. secretRuns' \in [SecretRuns -> RunStates]
    BY <1>0, <2>3, <2>4
  <2> QED  BY <1>4, <2>1, <2>5 DEF AgentTakesSecret, LinkTypes
<1>5. CASE FireGets
  BY <1>5 DEF FireGets, LinkTypes, linkVars
<1>6. ASSUME NEW r \in SecretRuns, StepGets(r) PROVE LinkTypes'
  <2>1. [secretRuns[r] EXCEPT !.state = "done"] \in RunStates
    BY <1>0, <1>1 DEF RunProgress
  <2>2. secretRuns' = [secretRuns EXCEPT ![r] = [secretRuns[r] EXCEPT !.state = "done"]]
    BY <1>6 DEF StepGets, Progress
  <2>3. secretRuns' \in [SecretRuns -> RunStates]
    BY <1>0, <2>1, <2>2
  <2> QED  BY <1>6, <2>3 DEF StepGets, LinkTypes, linkVars
<1>7. CASE AgentRestarts
  <2>1. secretRuns' \in [SecretRuns -> RunStates]
    <3>1. \A r \in SecretRuns : [secretRuns[r] EXCEPT !.state = "failed"] \in RunStates
      BY <1>0, <1>1 DEF RunProgress
    <3> QED  BY <1>0, <1>7, <3>1 DEF AgentRestarts, AgentLosesRuns
  <2>2. secretLink' \in [on : BOOLEAN, n : Nat] /\ secretWire' = <<>>
    BY <1>7 DEF AgentRestarts, LinkTypes
  <2> QED  BY <2>1, <2>2 DEF LinkTypes
<1>8. CASE SecretStreamEnds
  <2>1. secretLink' \in [on : BOOLEAN, n : Nat] /\ secretWire' = <<>> /\ secretRuns' = secretRuns
    BY <1>8 DEF SecretStreamEnds, LinkTypes
  <2> QED  BY <2>1 DEF LinkTypes
<1>9. CASE SecretStreamReturns
  <2>1. secretLink' \in [on : BOOLEAN, n : Nat]
    <3>1. secretLink.n + 1 \in Nat
      BY DEF LinkTypes
    <3> QED  BY <1>9, <3>1 DEF SecretStreamReturns
  <2>2. secretWire' = secretWire /\ secretRuns' = secretRuns
    BY <1>9 DEF SecretStreamReturns
  <2> QED  BY <2>1, <2>2 DEF LinkTypes
<1>10. CASE UNCHANGED <<secretRuns, secretLink, secretWire, mem>>
  BY <1>10 DEF LinkTypes
<1> QED  BY <1>2, <1>3, <1>4, <1>5, <1>6, <1>7, <1>8, <1>9, <1>10, QuietSteps

\* The value goes first: no step of a dispatcher, of the agent or of the stream
\* lets a run overtake the secret it was sent with.
LEMMA WarmHolds ==
  VaultTypes /\ OldAreRevoked /\ LinkTypes /\ CacheTypes /\ Windows /\ WarmFirst
    /\ [SecretsNext]_secretsVars => WarmFirst'
<1> SUFFICES ASSUME VaultTypes, OldAreRevoked, LinkTypes, CacheTypes, Windows, WarmFirst,
                    [SecretsNext]_secretsVars
             PROVE  WarmFirst'
  OBVIOUS
<1>0. /\ secretRuns \in [SecretRuns -> RunStates]
      /\ \A r \in SecretRuns : secretRuns[r].on \in Nat
      /\ secretWire \in Seq(SecretEnvelopes)
      /\ \A i \in DOMAIN secretWire : secretWire[i].run \in SecretRuns
      /\ secretLink \in [on : BOOLEAN, n : Nat]
      /\ secretLink.n \in Nat
  <2>1. /\ secretRuns \in [SecretRuns -> RunStates] /\ secretWire \in Seq(SecretEnvelopes)
        /\ secretLink \in [on : BOOLEAN, n : Nat]
    BY DEF LinkTypes
  <2>2. \A r \in SecretRuns : secretRuns[r] \in RunStates
    BY <2>1
  <2>3. \A i \in DOMAIN secretWire : secretWire[i] \in SecretEnvelopes
    BY <2>1
  <2>4. \A r \in SecretRuns : secretRuns[r].on \in Nat
    BY <2>2 DEF RunStates
  <2>5. \A i \in DOMAIN secretWire : secretWire[i].run \in SecretRuns
    BY <2>3 DEF SecretEnvelopes
  <2> QED  BY <2>1, <2>4, <2>5
<1>1. ASSUME secretWire' = <<>>, secretLink' = [secretLink EXCEPT !.on = FALSE],
             \A r \in SecretRuns :
               /\ secretRuns'[r].on = secretRuns[r].on /\ secretRuns'[r].value = secretRuns[r].value
               /\ \/ secretRuns'[r].state = "failed"
                  \/ secretRuns'[r].state = secretRuns[r].state /\ (secretRuns[r].state = "running" => mem' = mem)
      PROVE  WarmFirst'
  <2>1. secretLink'.n = secretLink.n /\ secretLink'.on = FALSE
    BY <1>0, <1>1
  <2>2. ASSUME NEW r \in SecretRuns PROVE RunIsWarm(r)'
    BY <1>1, <2>1 DEF WarmFirst, RunIsWarm, Cached
  <2>3. DOMAIN secretWire' = {}
    BY <1>1
  <2> QED  BY <2>2, <2>3 DEF WarmFirst
<1>2. CASE SecretServerRestart
  <2>1. ASSUME NEW r \in SecretRuns
        PROVE  /\ secretRuns'[r].on = secretRuns[r].on /\ secretRuns'[r].value = secretRuns[r].value
               /\ secretRuns'[r].state = "failed" \/ secretRuns'[r].state = secretRuns[r].state
    <3>1. secretRuns'[r] = secretRuns[r] \/ secretRuns'[r] = [secretRuns[r] EXCEPT !.state = "failed"]
      BY <1>2 DEF SecretServerRestart
    <3>2. secretRuns[r] \in RunStates
      BY <1>0
    <3> QED  BY <3>1, <3>2 DEF RunStates
  <2>2. secretWire' = <<>> /\ secretLink' = [secretLink EXCEPT !.on = FALSE] /\ mem' = mem
    BY <1>2 DEF SecretServerRestart, cacheVars
  <2> QED  BY <1>1, <2>1, <2>2
<1>3. CASE AgentRestarts
  <2>1. ASSUME NEW r \in SecretRuns
        PROVE  /\ secretRuns'[r].on = secretRuns[r].on /\ secretRuns'[r].value = secretRuns[r].value
               /\ \/ secretRuns'[r].state = "failed"
                  \/ secretRuns'[r].state = secretRuns[r].state /\ secretRuns[r].state # "running"
    <3>1. IF secretRuns[r].state = "running"
          THEN secretRuns'[r] = [secretRuns[r] EXCEPT !.state = "failed"]
          ELSE secretRuns'[r] = secretRuns[r]
      BY <1>3 DEF AgentRestarts, AgentLosesRuns
    <3>2. secretRuns[r] \in RunStates
      BY <1>0
    <3> QED  BY <3>1, <3>2 DEF RunStates
  <2>2. secretWire' = <<>> /\ secretLink' = [secretLink EXCEPT !.on = FALSE]
    BY <1>3 DEF AgentRestarts
  <2> QED  BY <1>1, <2>1, <2>2
<1>4. CASE SecretStreamEnds
  <2>1. /\ secretWire' = <<>> /\ secretLink' = [secretLink EXCEPT !.on = FALSE] /\ mem' = mem
        /\ secretRuns' = secretRuns
    BY <1>4 DEF SecretStreamEnds, cacheVars
  <2> QED  BY <1>1, <2>1
<1>5. CASE SecretStreamReturns
  <2>1. /\ secretLink' = [on |-> TRUE, n |-> secretLink.n + 1] /\ secretWire' = secretWire
        /\ secretRuns' = secretRuns
    BY <1>5 DEF SecretStreamReturns
  <2>2. secretLink'.n = secretLink.n + 1
    BY <2>1
  <2>3. \A r \in SecretRuns : secretRuns[r].on <= secretLink.n
    BY DEF WarmFirst, RunIsWarm
  <2>4. \A r \in SecretRuns : secretRuns'[r].on # secretLink'.n /\ secretRuns'[r].on <= secretLink'.n
    BY <1>0, <2>1, <2>2, <2>3
  <2> QED  BY <1>0, <2>1, <2>4 DEF WarmFirst, RunIsWarm, SentIsWarm
<1>6. CASE FireGets \/ UNCHANGED <<secretRuns, secretLink, secretWire, mem>>
  <2>1. UNCHANGED <<secretRuns, secretLink, secretWire>> /\ (Cached => Cached')
    BY <1>6, GetTells DEF FireGets, linkVars, Cached
  <2> QED  BY <2>1 DEF WarmFirst, RunIsWarm, SentIsWarm
<1>7. ASSUME NEW r \in SecretRuns, StepGets(r) PROVE WarmFirst'
  <2>1. /\ UNCHANGED <<secretLink, secretWire>> /\ (Cached => Cached')
        /\ secretRuns' = [secretRuns EXCEPT ![r] = [secretRuns[r] EXCEPT !.state = "done"]]
    BY <1>7, GetTells DEF StepGets, linkVars, Cached, Progress
  <2>2. /\ secretRuns'[r].state = "done" /\ secretRuns'[r].on = secretRuns[r].on
        /\ \A q \in SecretRuns \ {r} : secretRuns'[q] = secretRuns[q]
    <3>1. secretRuns[r] \in RunStates
      BY <1>0
    <3> QED  BY <1>0, <2>1, <3>1 DEF RunStates
  <2>3. ASSUME NEW q \in SecretRuns PROVE RunIsWarm(q)'
    BY <2>1, <2>2 DEF WarmFirst, RunIsWarm
  <2>4. ASSUME NEW i \in DOMAIN secretWire PROVE SentIsWarm(i)'
    BY <1>0, <2>1, <2>2 DEF WarmFirst, SentIsWarm
  <2> QED  BY <2>1, <2>3, <2>4 DEF WarmFirst
<1>8. ASSUME NEW r \in SecretRuns, MaterializeForRun(r) \/ SendSecretMaterialize(r) \/ SendRun(r),
             UNCHANGED <<mem, secretLink>>
      PROVE  WarmFirst'
  <2> DEFINE n == secretLink.n
  <2>0. /\ secretRuns[r] \in RunStates
        /\ secretLink' = secretLink /\ Cached' = Cached
        /\ Len(secretWire) \in Nat
    BY <1>0, <1>8 DEF Cached
  \* The envelopes of runs that are on their way are not of this run, whose
  \* dispatcher is still at work.
  <2>1. ASSUME secretRuns[r].state \in {"new", "read", "warm"}, NEW run,
               secretRuns' = [secretRuns EXCEPT ![r] = run],
               NEW i \in DOMAIN secretWire,
               \A j \in 1..i : secretWire'[j] = secretWire[j]
        PROVE  SentIsWarm(i)'
    <3>1. secretWire[i].value = -1 => secretWire[i].run # r
      BY <2>1 DEF WarmFirst, SentIsWarm
    <3>2. secretWire'[i] = secretWire[i] /\ i \in Nat
      BY <1>0, <2>1
    <3>3. \A j \in 1..(i - 1) : secretWire'[j] = secretWire[j]
      BY <2>1, <3>2
    <3> QED  BY <1>0, <2>0, <2>1, <3>1, <3>2, <3>3 DEF WarmFirst, SentIsWarm
  <2>2. ASSUME NEW run, secretRuns' = [secretRuns EXCEPT ![r] = run], NEW q \in SecretRuns, q # r,
               \A j \in DOMAIN secretWire : j \in DOMAIN secretWire' /\ secretWire'[j] = secretWire[j]
        PROVE  RunIsWarm(q)'
    <3>1. secretRuns'[q] = secretRuns[q]
      BY <1>0, <2>2
    <3> QED  BY <2>0, <2>2, <3>1 DEF WarmFirst, RunIsWarm
  <2>3. ASSUME secretRuns[r].state = "new", secretWire' = secretWire,
               NEW value \in Values, NEW ttl \in Nat,
               secretRuns' = [secretRuns EXCEPT ![r] = [state |-> "read", value |-> value, ttl |-> ttl, on |-> 0]]
        PROVE  WarmFirst'
    <3>1. secretRuns'[r] = [state |-> "read", value |-> value, ttl |-> ttl, on |-> 0]
      BY <1>0, <2>3
    <3>2. value # -1
      BY <2>3, SecretsAssumption DEF Values
    <3>3. RunIsWarm(r)'
      BY <1>0, <2>0, <3>1, <3>2 DEF RunIsWarm
    <3> QED  BY <2>1, <2>2, <2>3, <3>3 DEF WarmFirst
  <2>4. ASSUME secretRuns[r].state = "read",
               secretWire' = Append(secretWire, [run |-> r, value |-> secretRuns[r].value, ttl |-> secretRuns[r].ttl]),
               secretRuns' = [secretRuns EXCEPT ![r] = [secretRuns[r] EXCEPT !.state = "warm", !.on = secretLink.n]]
        PROVE  WarmFirst'
    <3> DEFINE env == [run |-> r, value |-> secretRuns[r].value, ttl |-> secretRuns[r].ttl]
               k == Len(secretWire) + 1
    <3>1. /\ DOMAIN secretWire' = 1..k /\ secretWire'[k] = env
          /\ \A j \in DOMAIN secretWire : j \in DOMAIN secretWire' /\ secretWire'[j] = secretWire[j]
      BY <1>0, <2>4
    <3>2. env.value = secretRuns[r].value /\ secretRuns[r].value # -1
      BY <2>4 DEF WarmFirst, RunIsWarm
    <3>3. secretRuns'[r].state = "warm" /\ secretRuns'[r].on = n
      BY <1>0, <2>0, <2>4 DEF RunStates
    <3> HIDE DEF env
    <3>4. k \in DOMAIN secretWire' /\ secretWire'[k].value # -1
      BY <2>0, <3>1, <3>2
    <3>5. RunIsWarm(r)'
      BY <1>0, <2>0, <3>3, <3>4 DEF RunIsWarm
    <3>6. ASSUME NEW i \in DOMAIN secretWire' PROVE SentIsWarm(i)'
      <4>1. CASE i = k
        BY <3>4, <4>1 DEF SentIsWarm
      <4>2. CASE i # k
        <5>1. i \in DOMAIN secretWire /\ \A j \in 1..i : secretWire'[j] = secretWire[j]
          BY <1>0, <2>0, <3>1, <4>2
        <5> QED  BY <2>1, <2>4, <5>1
      <4> QED  BY <4>1, <4>2
    <3> QED  BY <2>2, <2>4, <3>1, <3>5, <3>6 DEF WarmFirst
  <2>5. ASSUME secretRuns[r].state = "warm", secretLink.on,
               secretWire' = Append(secretWire, [run |-> r, value |-> -1, ttl |-> 0]),
               secretRuns' = [secretRuns EXCEPT ![r] = [secretRuns[r] EXCEPT !.state = "sent"]]
        PROVE  WarmFirst'
    <3> DEFINE k == Len(secretWire) + 1
    <3>1. /\ DOMAIN secretWire' = 1..k /\ secretWire'[k] = [run |-> r, value |-> -1, ttl |-> 0]
          /\ \A j \in DOMAIN secretWire : j \in DOMAIN secretWire' /\ secretWire'[j] = secretWire[j]
          /\ DOMAIN secretWire = 1..(k - 1)
      BY <1>0, <2>5
    <3>2. secretRuns'[r].state = "sent" /\ secretRuns'[r].on = secretRuns[r].on
      BY <1>0, <2>0, <2>5 DEF RunStates
    <3>3. secretRuns[r].on = n => Cached \/ \E j \in DOMAIN secretWire : secretWire[j].value # -1
      BY <2>5 DEF WarmFirst, RunIsWarm
    <3>4. RunIsWarm(r)'
      BY <2>0, <3>2 DEF WarmFirst, RunIsWarm
    <3>5. ASSUME NEW i \in DOMAIN secretWire' PROVE SentIsWarm(i)'
      <4>1. CASE i = k
        <5>1. secretRuns'[r].on = n => Cached' \/ \E j \in 1..(k - 1) : secretWire'[j].value # -1
          BY <2>0, <3>1, <3>2, <3>3
        <5>2. secretWire'[i].run = r
          BY <3>1, <4>1
        <5> QED  BY <2>0, <3>2, <4>1, <5>1, <5>2 DEF SentIsWarm
      <4>2. CASE i # k
        <5>1. i \in DOMAIN secretWire /\ \A j \in 1..i : secretWire'[j] = secretWire[j]
          BY <1>0, <2>0, <3>1, <4>2
        <5> QED  BY <2>1, <2>5, <5>1
      <4> QED  BY <4>1, <4>2
    <3> QED  BY <2>2, <2>5, <3>1, <3>4, <3>5 DEF WarmFirst
  <2>6. ASSUME secretRuns[r].state \in {"new", "read", "warm"}, secretWire' = secretWire,
               NEW run, secretRuns' = [secretRuns EXCEPT ![r] = run],
               run.state = "failed", run.on = 0 \/ run.on = secretRuns[r].on
        PROVE  WarmFirst'
    <3>1. RunIsWarm(r)'
      <4>1. secretRuns'[r] = run
        BY <1>0, <2>6
      <4> QED  BY <1>0, <2>0, <2>6, <4>1 DEF WarmFirst, RunIsWarm
    <3> QED  BY <2>1, <2>2, <2>6, <3>1 DEF WarmFirst
  <2>7. /\ [secretRuns[r] EXCEPT !.state = "failed"].state = "failed"
        /\ [secretRuns[r] EXCEPT !.state = "failed"].on = secretRuns[r].on
        /\ [NewSecretRun EXCEPT !.state = "failed"].state = "failed"
        /\ [NewSecretRun EXCEPT !.state = "failed"].on = 0
    BY <2>0 DEF RunStates, NewSecretRun
  <2>8. CASE /\ secretRuns[r].state \in {"new", "read", "warm"} /\ secretWire' = secretWire
             /\ \/ secretRuns' = [secretRuns EXCEPT ![r] = [secretRuns[r] EXCEPT !.state = "failed"]]
                \/ secretRuns' = [secretRuns EXCEPT ![r] = [NewSecretRun EXCEPT !.state = "failed"]]
    <3>1. PICK run \in {[secretRuns[r] EXCEPT !.state = "failed"], [NewSecretRun EXCEPT !.state = "failed"]} :
            secretRuns' = [secretRuns EXCEPT ![r] = run]
      BY <2>8
    <3>2. run.state = "failed" /\ (run.on = 0 \/ run.on = secretRuns[r].on)
      BY <2>7, <3>1
    <3> QED  BY <2>6, <2>8, <3>1, <3>2
  <2>9. CASE /\ secretRuns[r].state = "new" /\ secretWire' = secretWire
             /\ \E value \in Values, ttl \in Nat :
                  secretRuns' = [secretRuns EXCEPT ![r] = [state |-> "read", value |-> value, ttl |-> ttl, on |-> 0]]
    BY <2>3, <2>9
  <2> QED  BY <1>8, <2>4, <2>5, <2>8, <2>9, DispatchTells
<1>9. CASE AgentTakesSecret
  <2> DEFINE m == Head(secretWire)
  <2>1. /\ secretWire # <<>> /\ secretWire' = Tail(secretWire) /\ secretLink' = secretLink
        /\ m = secretWire[1] /\ 1 \in DOMAIN secretWire /\ m.run \in SecretRuns
    BY <1>0, <1>9 DEF AgentTakesSecret
  <2>2. \A i \in DOMAIN secretWire' :
          i \in Nat /\ i + 1 \in DOMAIN secretWire /\ secretWire'[i] = secretWire[i + 1]
    BY <1>0, <2>1
  <2>3. \A i \in DOMAIN secretWire : i # 1 => i - 1 \in DOMAIN secretWire' /\ secretWire'[i - 1] = secretWire[i]
    BY <1>0, <2>1
  <2>4. CASE m.value # -1
    <3>1. secretRuns' = secretRuns /\ mem'.value = m.value
      BY <1>9, <2>4 DEF AgentTakesSecret, Handle
    <3>2. Cached'
      BY <2>4, <3>1 DEF Cached, NoEntry
    <3>3. ASSUME NEW r \in SecretRuns PROVE RunIsWarm(r)'
      BY <2>1, <3>1, <3>2 DEF WarmFirst, RunIsWarm
    <3>4. ASSUME NEW i \in DOMAIN secretWire' PROVE SentIsWarm(i)'
      BY <2>2, <3>1, <3>2 DEF WarmFirst, SentIsWarm
    <3> QED  BY <3>3, <3>4 DEF WarmFirst
  <2>5. CASE m.value = -1
    <3> DEFINE r == m.run
    <3>1. /\ Cached' = Cached
          /\ secretRuns' = [secretRuns EXCEPT ![r] = [secretRuns[r] EXCEPT !.state = "running"]]
      BY <1>9, <2>5 DEF AgentTakesSecret, cacheVars, Progress, Cached
    <3>2. secretRuns[r].on = secretLink.n => Cached
      BY <2>1, <2>5 DEF WarmFirst, SentIsWarm
    <3>3. /\ secretRuns'[r].state = "running" /\ secretRuns'[r].on = secretRuns[r].on
          /\ \A q \in SecretRuns \ {r} : secretRuns'[q] = secretRuns[q]
      <4>1. secretRuns[r] \in RunStates
        BY <1>0, <2>1
      <4> QED  BY <1>0, <2>1, <3>1, <4>1 DEF RunStates
    <3>4. ASSUME NEW j \in DOMAIN secretWire, secretWire[j].value # -1
          PROVE  j - 1 \in DOMAIN secretWire' /\ secretWire'[j - 1].value # -1
      BY <2>1, <2>3, <2>5, <3>4
    <3>5. ASSUME NEW q \in SecretRuns PROVE RunIsWarm(q)'
      <4>1. CASE q = r
        BY <2>1, <3>1, <3>2, <3>3, <4>1 DEF WarmFirst, RunIsWarm
      <4>2. CASE q # r
        BY <2>1, <3>1, <3>3, <3>4, <4>2 DEF WarmFirst, RunIsWarm
      <4> QED  BY <4>1, <4>2
    <3>6. ASSUME NEW i \in DOMAIN secretWire' PROVE SentIsWarm(i)'
      <4> SUFFICES ASSUME secretWire'[i].value = -1 PROVE SentIsWarm(i)'
        BY DEF SentIsWarm
      <4> DEFINE q == secretWire'[i].run
      <4>1. /\ secretWire[i + 1].value = -1 /\ q = secretWire[i + 1].run
            /\ i \in Nat /\ i + 1 \in DOMAIN secretWire /\ q \in SecretRuns
        BY <1>0, <2>2
      <4>2. /\ secretRuns[q].state \notin {"new", "read", "warm"}
            /\ secretRuns[q].on = secretLink.n =>
                 Cached \/ \E j \in 1..i : secretWire[j].value # -1
        <5>1. SentIsWarm(i + 1) /\ (i + 1) - 1 = i
          BY <4>1 DEF WarmFirst
        <5> QED  BY <4>1, <5>1 DEF SentIsWarm
      <4>3. secretRuns'[q].state \notin {"new", "read", "warm"} /\ secretRuns'[q].on = secretRuns[q].on
        BY <3>3, <4>1, <4>2
      <4>4. ASSUME NEW j \in 1..i, secretWire[j].value # -1
            PROVE  \E l \in 1..(i - 1) : secretWire'[l].value # -1
        <5>1. j \in DOMAIN secretWire /\ j # 1 /\ j \in Nat
          BY <1>0, <2>1, <2>5, <4>1, <4>4
        <5>2. j - 1 \in 1..(i - 1)
          BY <4>1, <4>4, <5>1
        <5> QED  BY <3>4, <4>4, <5>1, <5>2
      <4> QED  BY <2>1, <3>1, <4>2, <4>3, <4>4 DEF SentIsWarm
    <3> QED  BY <3>5, <3>6 DEF WarmFirst
  <2> QED  BY <2>4, <2>5
<1> QED  BY <1>2, <1>3, <1>4, <1>5, <1>6, <1>7, <1>8, <1>9, QuietSteps

\* The invariant of the secrets is inductive.
LEMMA SecretsStep == SecretsInv /\ [SecretsNext]_secretsVars => SecretsInv'
BY KeysHold, VaultTypesHold, LinkTypesHold, CacheHolds, WarmHolds DEF SecretsInv

\* It holds at the start.
LEMMA SecretsStart == SecretsInit => SecretsInv
<1> SUFFICES ASSUME SecretsInit PROVE SecretsInv
  OBVIOUS
<1> USE DEF SecretsInit
<1>1. KeyTypes
  BY DEF KeyTypes
<1>2. VaultTypes
  BY SecretsAssumption DEF VaultTypes, NoSecret, NoRevoke, Values
<1>3. LinkTypes
  <2>1. NewSecretRun \in RunStates
    BY DEF NewSecretRun, RunStates, RunProgress
  <2> QED  BY <2>1 DEF LinkTypes
<1>4. NoEntry \in CacheEntries /\ EntryInWindow(NoEntry)
  BY DEF NoEntry, CacheEntries, EntryInWindow
<1>5. CacheTypes /\ Windows
  BY <1>4 DEF CacheTypes, Windows, Values
<1>6. OneKey /\ OldAreRevoked
  BY DEF OneKey, OldAreRevoked, SecretsStayReadable
<1>7. WarmFirst
  <2>1. \A r \in SecretRuns : secretRuns[r].state = "new" /\ secretRuns[r].on = 0
    BY DEF NewSecretRun
  <2>2. secretLink.n = 1
    OBVIOUS
  <2> QED  BY <2>1, <2>2 DEF WarmFirst, RunIsWarm
<1> QED  BY <1>1, <1>2, <1>3, <1>5, <1>6, <1>7 DEF SecretsInv

\* A lookup of a run finds its secret, and no lookup serves a value late.
LEMMA GetsServe ==
  ASSUME SecretsInv, [SecretsNext]_secretsVars
  PROVE  /\ \A r \in SecretRuns :
              StepGets(r) /\ secretRuns[r].on = secretLink.n /\ ~ Expired(mem) => lastGet'[2] # -1
         /\ lastGet' # lastGet /\ lastGet'[2] # -1 => ~ WindowOver(lastGet'[2])
<1> USE DEF SecretsInv
<1>1. ASSUME NEW r \in SecretRuns, StepGets(r), secretRuns[r].on = secretLink.n, ~ Expired(mem)
      PROVE  lastGet'[2] # -1
  <2>1. mem # NoEntry
    BY <1>1 DEF StepGets, WarmFirst, RunIsWarm, Cached
  <2> QED  BY <1>1, <2>1, GetTells DEF StepGets
<1>2. ASSUME lastGet' # lastGet, lastGet'[2] # -1 PROVE ~ WindowOver(lastGet'[2])
  <2>1. \E r : Get(r)
    <3>1. FireGets \/ \E r \in SecretRuns : StepGets(r)
      BY <1>2 DEF SecretsNext, secretsVars, cacheVars, KeyStep, SecretServerRestart, VaultStep, secretCreate,
                  secretRotate, secretDelete, secretRevoke, SecretWrite, RevokeSecretVersion, DispatchStep,
                  AgentTakesSecret, Handle, AgentRestarts, SecretStreamEnds, SecretStreamReturns,
                  BindingChanges, SecretTick
    <3> QED  BY <3>1 DEF FireGets, StepGets
  <2>2. PICK e \in {mem, sealed} : e # NoEntry /\ ~ Expired(e) /\ lastGet'[2] = e.value
    BY <1>2, <2>1, GetTells
  <2>3. e \in CacheEntries /\ EntryInWindow(e)
    BY <2>2 DEF CacheTypes, Windows
  <2>4. e.value \in Values /\ e.expires \in Nat /\ secretTime \in Nat
    BY <1>2, <2>2, <2>3 DEF CacheEntries, CacheTypes
  <2>5. windows[e.value] # 0 => e.expires = windows[e.value]
    BY <1>2, <2>2, <2>3 DEF EntryInWindow
  <2> QED  BY <2>2, <2>4, <2>5 DEF WindowOver, Expired
<1> QED  BY <1>1, <1>2

\* A revoke changes the version it has read, which is still the newest one.
LEMMA RevokeHits ==
  ASSUME SecretsInv, NEW i \in DOMAIN versions, RevokeSecretVersion, versions'[i] # versions[i]
  PROVE  secretRow.id = revoking.id /\ i = revoking.version /\ i = Len(versions)
<1>1. /\ RevokesStored /\ ~ versions[revoking.version].revoked
      /\ versions' = [versions EXCEPT ![revoking.version].revoked = TRUE]
  BY DEF RevokeSecretVersion
<1>2. i = revoking.version
  BY <1>1 DEF SecretsInv, VaultTypes
<1>3. i \in 1..Len(versions) /\ Len(versions) \in Nat
  BY DEF SecretsInv, VaultTypes
<1>4. ~ (i < Len(versions))
  BY <1>1, <1>2 DEF SecretsInv, OldAreRevoked
<1> QED  BY <1>1, <1>2, <1>3, <1>4 DEF RevokesStored

(* For any number of racing bootstraps, of restarts and of writes, every   *)
(* version that is stored was sealed with the key the file holds, so a     *)
(* restart can open it (BootstrapKey, secretBootstrap).                    *)
THEOREM StoredStaysReadable == SecretsSpec => []SecretsStayReadable
<1>1. SecretsInv => SecretsStayReadable
  BY DEF SecretsInv, OneKey
<1> QED  BY <1>1, SecretsStart, SecretsStep, PTL DEF SecretsSpec

(* For any number of runs, of lost streams and of restarts, a step finds   *)
(* the secret its run was sent with, a value is served inside its window   *)
(* only, and a revoke takes the version it names (MaterializeForRun,       *)
(* Handle, Get, RevokeSecret).                                             *)
THEOREM SecretsAreServed == SecretsSpec => SecretsServed
<1>1. SecretsSpec => []SecretsInv
  BY SecretsStart, SecretsStep, PTL DEF SecretsSpec
<1>2. SecretsInv /\ [SecretsNext]_secretsVars
        => [\A r \in SecretRuns : StepGets(r) /\ secretRuns[r].on = secretLink.n /\ ~ Expired(mem)
              => lastGet'[2] # -1]_secretsVars
  BY GetsServe
<1>3. SecretsInv /\ [SecretsNext]_secretsVars
        => [lastGet' # lastGet /\ lastGet'[2] # -1 => ~ WindowOver(lastGet'[2])]_secretsVars
  BY GetsServe
<1>4. SecretsInv /\ [SecretsNext]_secretsVars
        => [\A i \in DOMAIN versions : RevokeSecretVersion /\ versions' # versions /\ versions'[i] # versions[i]
              => secretRow.id = revoking.id /\ i = revoking.version /\ i = Len(versions)]_secretsVars
  BY RevokeHits
<1>5. SecretsSpec => RunFindsSecret
  BY <1>1, <1>2, PTL DEF SecretsSpec, RunFindsSecret
<1>6. SecretsSpec => ServedInWindow
  BY <1>1, <1>3, PTL DEF SecretsSpec, ServedInWindow
<1>7. SecretsSpec => RevokeHitsItsVersion
  BY <1>1, <1>4, PTL DEF SecretsSpec, RevokeHitsItsVersion
<1> QED  BY <1>5, <1>6, <1>7 DEF SecretsServed

-----------------------------------------------------------------------------
(* Alerts. *)

Subjects == {"unit", "cert", "nginx", "a", "b", "elevdrift", "sec", "offline", "run", "drift"}
AlertKeys == (AlertHosts \cup {"server"}) \X Subjects

Samples == {s \in [count : Int, at : Nat, rate : Nat] : s.rate > 0 => s.count # Never}

\* What the engine keeps of each host is of the past, and the first failure it
\* marks is not older than the last pass that saw the unit healthy.
EngineInv ==
  /\ AlertsTypeOK /\ alertNow \in Nat /\ alertPass.hosts \subseteq AlertHosts
  /\ firstFailed \in [AlertHosts -> Int] /\ restartSamp \in [AlertHosts -> Samples]
  /\ sawHealthy \in [AlertHosts -> Nat]
  /\ \A h \in AlertHosts : /\ sawHealthy[h] <= alertNow
                           /\ ruleKind = "service_failed" /\ firstFailed[h] # Never => sawHealthy[h] <= firstFailed[h]

\* The counter of a document.
LEMMA CounterIsTyped == \A f : Counter(f) \in {Never, 0, 1, 2}
BY DEF Counter

\* The next baseline of a counter; a rate is held through the quiet window.
LEMMA SampleIsTyped ==
  ASSUME alertNow \in Nat, NEW s \in Samples, s.at <= alertNow, NEW n \in {Never, 0, 1, 2}
  PROVE  /\ Sample(s, n) \in Samples /\ Sample(s, n).at <= alertNow
         /\ s.rate > 0 /\ n = s.count /\ Sample(s, n).rate = 0 => alertNow - s.at >= QuietTicks
         /\ s.rate > 0 /\ n = s.count => Sample(s, n).count = n
<1>0. alertNow \in Int /\ Never \in Int /\ n \in Int /\ QuietTicks \in Nat /\ RateLimit \in Nat
  BY AlertsAssumption DEF Never
<1>1. NoSample \in Samples /\ NoSample.at <= alertNow /\ NoSample.rate = 0 /\ NoSample.count = Never
  BY <1>0 DEF NoSample, Samples
<1>2. CASE n = Never
  <2>1. Sample(s, n) = NoSample
    BY <1>2 DEF Sample
  <2>2. ~ (s.rate > 0 /\ n = s.count)
    BY <1>2 DEF Samples
  <2> QED  BY <1>1, <2>1, <2>2
<1>3. ASSUME NEW rate \in {0, 1}, n # Never
      PROVE  [count |-> n, at |-> alertNow, rate |-> rate] \in Samples
  BY <1>0, <1>3 DEF Samples
<1>4. CASE n # Never /\ s = NoSample
  <2>1. Sample(s, n) = [count |-> n, at |-> alertNow, rate |-> 0]
    BY <1>4 DEF Sample
  <2> QED  BY <1>0, <1>1, <1>3, <1>4, <2>1
<1>5. CASE n # Never /\ s # NoSample /\ n = s.count
  <2>1. CASE s.rate > 0 /\ alertNow - s.at < QuietTicks
    <3>1. Sample(s, n) = s
      BY <1>5, <2>1 DEF Sample
    <3> QED  BY <1>5, <2>1, <3>1
  <2>2. CASE s.rate > 0 /\ ~ (alertNow - s.at < QuietTicks)
    <3>1. Sample(s, n) = [s EXCEPT !.at = alertNow, !.rate = 0]
      BY <1>5, <2>2 DEF Sample
    <3>2. s.at \in Nat
      BY DEF Samples
    <3>3. [s EXCEPT !.at = alertNow, !.rate = 0] \in Samples
      <4> DEFINE r == [s EXCEPT !.at = alertNow, !.rate = 0]
      <4>1. s \in [count : Int, at : Nat, rate : Nat]
        BY DEF Samples
      <4>2. r \in [count : Int, at : Nat, rate : Nat] /\ r.rate = 0
        BY <4>1
      <4> HIDE DEF r
      <4>3. r \in Samples
        BY <4>2 DEF Samples
      <4> QED  BY <4>3 DEF r
    <3>4. [s EXCEPT !.at = alertNow, !.rate = 0].at = alertNow /\ [s EXCEPT !.at = alertNow, !.rate = 0].count = s.count
      BY DEF Samples
    <3> QED  BY <1>0, <1>5, <2>2, <3>1, <3>2, <3>3, <3>4
  <2>3. CASE ~ (s.rate > 0)
    <3>1. Sample(s, n) = s
      BY <1>5, <2>3 DEF Sample
    <3> QED  BY <2>3, <3>1
  <2> QED  BY <2>1, <2>2, <2>3
<1>6. CASE n # Never /\ s # NoSample /\ n # s.count
  <2>1. \/ Sample(s, n) = s
        \/ \E rate \in {0, 1} : Sample(s, n) = [count |-> n, at |-> alertNow, rate |-> rate]
    BY <1>6 DEF Sample
  <2> QED  BY <1>0, <1>3, <1>6, <2>1
<1> QED  BY <1>2, <1>4, <1>5, <1>6

\* Every baseline of a pass is typed, and a held rate is reported.
LEMMA RatesAreTyped ==
  ASSUME EngineInv, NEW F
  PROVE  /\ sampleRestartRates(F) \in [AlertHosts -> Samples]
         /\ \A h \in AlertHosts : /\ sampleRestartRates(F)[h].at <= alertNow
                                  /\ restartSamp[h].rate > 0 /\ Counter(F[h]) = restartSamp[h].count
                                       /\ h \notin hotHosts(F) => alertNow - restartSamp[h].at >= QuietTicks
<1>1. ASSUME NEW h \in AlertHosts
      PROVE  /\ Sample(restartSamp[h], Counter(F[h])) \in Samples /\ Sample(restartSamp[h], Counter(F[h])).at <= alertNow
             /\ restartSamp[h].rate > 0 /\ Counter(F[h]) = restartSamp[h].count
                  => \/ Sample(restartSamp[h], Counter(F[h])).rate # 0
                        /\ Counter(F[h]) = Sample(restartSamp[h], Counter(F[h])).count
                     \/ alertNow - restartSamp[h].at >= QuietTicks
  <2>1. restartSamp[h] \in Samples /\ restartSamp[h].at <= alertNow /\ alertNow \in Nat
    BY DEF EngineInv, AlertsTypeOK
  <2>2. Counter(F[h]) \in {Never, 0, 1, 2}
    BY CounterIsTyped
  <2> QED  BY <2>1, <2>2, SampleIsTyped
<1>2. \A h \in AlertHosts : sampleRestartRates(F)[h] = Sample(restartSamp[h], Counter(F[h]))
  BY DEF sampleRestartRates
<1>3. sampleRestartRates(F) \in [AlertHosts -> Samples]
  BY <1>1 DEF sampleRestartRates
<1>4. ASSUME NEW h \in AlertHosts, sampleRestartRates(F)[h].rate # 0, Counter(F[h]) = sampleRestartRates(F)[h].count
      PROVE  h \in hotHosts(F)
  <2>1. sampleRestartRates(F)[h].rate \in Nat
    BY <1>3 DEF Samples
  <2> QED  BY <1>4, <2>1 DEF hotHosts
<1> QED  BY <1>1, <1>2, <1>3, <1>4

\* Whatever the kind of the rule, its condition names hosts and subjects.
LEMMA ConditionIsTyped ==
  ASSUME EngineInv
  PROVE  ConditionKeys \subseteq AlertKeys
<1>0. alertPass.hosts \subseteq AlertHosts
  BY DEF EngineInv
<1>1. hotRestartKeys(alertPass.hosts, alertPass.hot) \subseteq AlertKeys
  BY <1>0 DEF hotRestartKeys, AlertKeys, Subjects
<1>2. certConditionKeys(alertPass.facts) \subseteq AlertKeys
  BY DEF certConditionKeys, AlertKeys, Subjects
<1>3. configConditionKeys(alertPass.facts) \subseteq AlertKeys
  BY DEF configConditionKeys, AlertKeys, Subjects
<1>4. driftConditionKeys(alertPass.facts, alertPass.hosts) \subseteq AlertKeys
  <2>1. \A h \in driftHits(alertPass.facts, alertPass.hosts) : h \in alertPass.hosts /\ alertPass.facts[h] \in {"a", "b"}
    BY DEF driftHits
  <2> QED  BY <1>0, <2>1 DEF driftConditionKeys, AlertKeys, Subjects
<1>5. { <<h, "elevdrift">> : h \in elevationDrifts(alertPass.facts, alertPass.hosts) } \subseteq AlertKeys
  BY <1>0 DEF elevationDrifts, AlertKeys, Subjects
<1>6. securityConditionKeys(alertPass.facts, alertPass.hosts) \subseteq AlertKeys
  BY <1>0 DEF securityConditionKeys, securityQualifying, AlertKeys, Subjects
<1>7. { <<h, "offline">> : h \in hostOfflineHits(alertPass.hosts) } \subseteq AlertKeys
  BY <1>0 DEF hostOfflineHits, AlertKeys, Subjects
<1>8. evalUpdateRun(alertPass.facts) \subseteq AlertKeys
  BY DEF evalUpdateRun, AlertKeys, Subjects
<1>9. (IF updateDrift(alertPass.facts) = {} THEN {} ELSE {<<"server", "drift">>}) \subseteq AlertKeys
  BY DEF AlertKeys, Subjects
<1>10. evalServiceFailed \subseteq AlertKeys
  BY <1>0 DEF evalServiceFailed, AlertKeys, Subjects
<1> QED  BY <1>1, <1>2, <1>3, <1>4, <1>5, <1>6, <1>7, <1>8, <1>9, <1>10 DEF ConditionKeys

\* A service_failed rule fires on the failures that lasted.
LEMMA FailedKeys == ruleKind = "service_failed" => ConditionKeys = evalServiceFailed /\ ~ ServerLevel
BY DEF ConditionKeys, ServerLevel

\* The start of a pass, and a pass that only samples.
LEMMA BeginKeeps ==
  ASSUME EngineInv, EvalBegin \/ EvalSamplesOnly
  PROVE  EngineInv'
<1> DEFINE F == LatestHostFactsJSONAll
<1>1. restartSamp' = restartSamp \/ restartSamp' = sampleRestartRates(F)
  BY DEF EvalBegin, EvalSamplesOnly
<1>2. restartSamp' \in [AlertHosts -> Samples] /\ \A h \in AlertHosts : restartSamp'[h].at <= alertNow
  BY <1>1, RatesAreTyped DEF EngineInv, AlertsTypeOK
<1>3. resolveHosts \subseteq AlertHosts
  BY DEF resolveHosts, EngineInv, AlertsTypeOK
<1>4. alertPass'.hosts \subseteq AlertHosts
  BY <1>3 DEF EvalBegin, EvalSamplesOnly, EngineInv
<1>5. UNCHANGED <<rule, ruleKind, enrolled, firing, firstFailed, alertNow, sawHealthy>>
  BY DEF EvalBegin, EvalSamplesOnly
<1> QED  BY <1>2, <1>4, <1>5 DEF EngineInv, AlertsTypeOK

\* The end of a pass.
LEMMA ApplyKeeps ==
  ASSUME EngineInv, EvalApply
  PROVE  EngineInv'
<1>0. /\ UNCHANGED <<rule, ruleKind, enrolled, restartSamp, alertNow>> /\ alertPass' = NoPass
      /\ firing' = ResolveAlerts(UpsertAlertFiring(FireKeys), Stale(UpsertAlertFiring(FireKeys)))
      /\ firstFailed' = IF ruleKind = "service_failed" THEN FirstFailedAfter ELSE firstFailed
      /\ sawHealthy' = [h \in AlertHosts |->
                          IF h \in alertPass.hosts /\ alertPass.facts[h] = "active" THEN alertNow ELSE sawHealthy[h]]
  BY DEF EvalApply
<1>1. firing' \subseteq AlertKeys
  <2>1. FireKeys \subseteq AlertKeys
    BY ConditionIsTyped DEF FireKeys
  <2>2. firing \subseteq AlertKeys
    BY DEF EngineInv, AlertsTypeOK, AlertKeys, Subjects
  <2> QED  BY <1>0, <2>1, <2>2 DEF ResolveAlerts, UpsertAlertFiring
<1>2. /\ alertNow \in Nat /\ firstFailed \in [AlertHosts -> Int] /\ sawHealthy \in [AlertHosts -> Nat]
      /\ \A h \in AlertHosts : /\ firstFailed[h] \in Never..alertNow /\ sawHealthy[h] <= alertNow
                               /\ ruleKind = "service_failed" /\ firstFailed[h] # Never => sawHealthy[h] <= firstFailed[h]
  BY DEF EngineInv, AlertsTypeOK
<1>3. Never = -1
  BY DEF Never
<1>4. \A h \in AlertHosts : FirstFailedAfter[h] = IF h \in alertPass.hosts /\ alertPass.facts[h] = "failed"
                                                   THEN IF firstFailed[h] = Never THEN alertNow ELSE firstFailed[h]
                                                   ELSE IF h \in alertPass.hosts /\ alertPass.facts[h] = "active"
                                                        THEN Never ELSE firstFailed[h]
  BY DEF FirstFailedAfter, markFirstFailed, clearFirstFailed
<1>5. FirstFailedAfter \in [AlertHosts -> Int]
  BY <1>2, <1>3 DEF FirstFailedAfter, markFirstFailed, clearFirstFailed
<1>6. firstFailed' \in [AlertHosts -> Int] /\ sawHealthy' \in [AlertHosts -> Nat]
  BY <1>0, <1>2, <1>5
<1>7. ASSUME NEW h \in AlertHosts
      PROVE  /\ firstFailed'[h] \in Never..alertNow /\ sawHealthy'[h] <= alertNow
             /\ ruleKind = "service_failed" /\ firstFailed'[h] # Never => sawHealthy'[h] <= firstFailed'[h]
  <2>1. sawHealthy'[h] = IF h \in alertPass.hosts /\ alertPass.facts[h] = "active" THEN alertNow ELSE sawHealthy[h]
    BY <1>0
  <2> QED  BY <1>0, <1>2, <1>3, <1>4, <2>1
<1>8. alertPass'.hosts = {}
  BY <1>0 DEF NoPass
<1> QED  BY <1>0, <1>1, <1>2, <1>6, <1>7, <1>8 DEF EngineInv, AlertsTypeOK, AlertKeys, Subjects

\* Operators, hosts, time and a new engine.
LEMMA FleetKeeps ==
  ASSUME EngineInv,
         \/ \E sel \in SUBSET AlertHosts : ruleCreate(sel)
         \/ \E sel \in SUBSET AlertHosts, enabled \in BOOLEAN : ruleUpdate(sel, enabled)
         \/ ruleDelete
         \/ \E h \in AlertHosts : DeleteAgent(h)
         \/ \E h \in AlertHosts : \E f \in FactsOf(ruleKind) : UpsertHostFactsJSON(h, f)
         \/ \E h \in AlertHosts : MarkSeen(h)
         \/ TickAlerts \/ NewEngine \/ UNCHANGED alertVars
  PROVE  EngineInv'
<1>1. ASSUME NEW sel \in SUBSET AlertHosts, ruleCreate(sel) PROVE EngineInv'
  BY <1>1 DEF ruleCreate, EngineInv, AlertsTypeOK
<1>2. ASSUME NEW sel \in SUBSET AlertHosts, NEW enabled \in BOOLEAN, ruleUpdate(sel, enabled) PROVE EngineInv'
  BY <1>2 DEF ruleUpdate, EngineInv, AlertsTypeOK
<1>3. CASE ruleDelete
  BY <1>3 DEF ruleDelete, NoRule, EngineInv, AlertsTypeOK
<1>4. ASSUME NEW h \in AlertHosts, DeleteAgent(h) PROVE EngineInv'
  BY <1>4 DEF DeleteAgent, EngineInv, AlertsTypeOK
<1>5. ASSUME NEW h \in AlertHosts, NEW f, UpsertHostFactsJSON(h, f) PROVE EngineInv'
  BY <1>5 DEF UpsertHostFactsJSON, EngineInv, AlertsTypeOK
<1>6. ASSUME NEW h \in AlertHosts, MarkSeen(h) PROVE EngineInv'
  BY <1>6 DEF MarkSeen, EngineInv, AlertsTypeOK
<1>7. CASE TickAlerts
  <2>1. alertNow \in Nat /\ alertNow' = alertNow + 1
    BY <1>7 DEF TickAlerts, EngineInv
  <2>2. UNCHANGED <<rule, ruleKind, enrolled, firing, firstFailed, restartSamp, alertPass, sawHealthy>>
    BY <1>7 DEF TickAlerts
  <2>3. ASSUME NEW h \in AlertHosts
        PROVE  firstFailed[h] \in Never..alertNow' /\ restartSamp[h].at <= alertNow' /\ sawHealthy[h] <= alertNow'
    <3>1. /\ firstFailed[h] \in Never..alertNow /\ restartSamp[h].at <= alertNow /\ sawHealthy[h] <= alertNow
          /\ restartSamp[h].at \in Nat /\ sawHealthy[h] \in Nat
      BY DEF EngineInv, AlertsTypeOK, Samples
    <3> QED  BY <2>1, <3>1 DEF Never
  <2> QED  BY <2>1, <2>2, <2>3 DEF EngineInv, AlertsTypeOK
<1>8. CASE NewEngine
  <2>1. /\ UNCHANGED <<rule, ruleKind, enrolled, firing, alertNow, sawHealthy>> /\ alertPass' = NoPass
        /\ firstFailed' = [h \in AlertHosts |-> Never] /\ restartSamp' = [h \in AlertHosts |-> NoSample]
        /\ alertNow \in Nat
    BY <1>8 DEF NewEngine, EngineInv
  <2>2. firstFailed' \in [AlertHosts -> Int] /\ \A h \in AlertHosts : firstFailed'[h] = Never /\ Never \in Never..alertNow
    BY <2>1 DEF Never
  <2>3. NoSample \in Samples /\ NoSample.at <= alertNow
    BY <2>1 DEF NoSample, Samples, Never
  <2>4. restartSamp' \in [AlertHosts -> Samples] /\ \A h \in AlertHosts : restartSamp'[h] = NoSample
    BY <2>1, <2>3
  <2>5. alertPass'.hosts = {}
    BY <2>1 DEF NoPass
  <2> QED  BY <2>1, <2>2, <2>3, <2>4, <2>5 DEF EngineInv, AlertsTypeOK
<1>9. CASE UNCHANGED alertVars
  BY <1>9 DEF alertVars, EngineInv, AlertsTypeOK
<1> QED  BY <1>1, <1>2, <1>3, <1>4, <1>5, <1>6, <1>7, <1>8, <1>9

\* The engine starts without rules, alerts and baselines.
LEMMA AlertsStart == AlertsInit => EngineInv
<1> SUFFICES ASSUME AlertsInit PROVE EngineInv
  OBVIOUS
<1>1. NoSample \in Samples /\ NoSample.at = 0 /\ NoRule \in [enabled : BOOLEAN, sel : SUBSET AlertHosts] /\ NoPass.hosts = {}
  BY DEF NoSample, Samples, Never, NoRule, NoPass
<1>2. restartSamp \in [AlertHosts -> Samples] /\ firstFailed \in [AlertHosts -> Int] /\ sawHealthy \in [AlertHosts -> Nat]
  BY <1>1 DEF AlertsInit, Never
<1>3. AlertsTypeOK
  BY <1>1 DEF AlertsInit, AlertsTypeOK, Never
<1> QED  BY <1>1, <1>2, <1>3 DEF AlertsInit, EngineInv

\* Every step keeps what the engine knows.
LEMMA AlertsStep == EngineInv /\ [AlertsNext]_alertVars => EngineInv'
BY BeginKeeps, ApplyKeeps, FleetKeeps DEF AlertsNext

\* A step that fires a service_failed alert on a mark of an earlier pass.
LEMMA FiresLate ==
  ASSUME EngineInv, [AlertsNext]_alertVars, NEW h \in AlertHosts, ruleKind = "service_failed",
         <<h, "unit">> \in firing' \ firing, firstFailed[h] # Never
  PROVE  alertNow - sawHealthy[h] >= FailedTicks
<1>1. EvalApply
  BY DEF AlertsNext, alertVars, EvalBegin, EvalSamplesOnly, ruleCreate, ruleUpdate, ruleDelete, DeleteAgent,
         UpsertHostFactsJSON, MarkSeen, TickAlerts, NewEngine
<1>2. <<h, "unit">> \in evalServiceFailed
  BY <1>1, FailedKeys DEF EvalApply, ResolveAlerts, UpsertAlertFiring, FireKeys
<1>3. alertNow - markFirstFailed(h) >= FailedTicks
  BY <1>2 DEF evalServiceFailed
<1>4. /\ sawHealthy[h] <= firstFailed[h] /\ sawHealthy[h] \in Nat /\ firstFailed[h] \in Int /\ alertNow \in Nat
      /\ FailedTicks \in Nat
  BY AlertsAssumption DEF EngineInv
<1> QED  BY <1>3, <1>4 DEF markFirstFailed

\* A pass that begins and no longer reports a unit that was looping.
LEMMA HoldsThrough ==
  ASSUME EngineInv, NEW h \in AlertHosts, ruleKind = "service_restarting", EvalBegin,
         h \in alertPass'.hosts, h \notin alertPass'.hot, restartSamp[h].rate > 0,
         Counter(facts[h]) = restartSamp[h].count
  PROVE  alertNow - restartSamp[h].at >= QuietTicks
<1> DEFINE F == LatestHostFactsJSONAll
<1>1. alertPass' = [hosts |-> resolveHosts, facts |-> F, hot |-> hotHosts(F)]
  BY DEF EvalBegin
<1>2. h \in enrolled
  BY <1>1 DEF resolveHosts, ServerLevel
<1>3. F[h] = facts[h]
  BY <1>2 DEF LatestHostFactsJSONAll, ParseDocument
<1>4. h \notin hotHosts(F)
  BY <1>1
<1> HIDE DEF F
<1> QED  BY <1>3, <1>4, RatesAreTyped

\* Whatever hosts, operators, restarts and time do, a service_failed alert waits
\* its window out, a restart alert is held while its unit may be looping, and
\* the other kinds leave no alert outside the rule's hosts (alerts.go:
\* markFirstFailed, sampleRestartRates, resolveByDedupDiff).
THEOREM AlertsAreRuled == AlertsSpec => AlertsFollowTheRule
<1>1. EngineInv => AlertsTypeOK
  BY DEF EngineInv
<1>2. EngineInv /\ [AlertsNext]_alertVars
        => [ \A h \in AlertHosts :
               (/\ ruleKind = "service_failed"
                /\ <<h, "unit">> \in firing' \ firing /\ firstFailed[h] # Never)
               => alertNow - sawHealthy[h] >= FailedTicks ]_alertVars
  BY FiresLate
<1>3. EngineInv
        => [ \A h \in AlertHosts :
               (/\ ruleKind = "service_restarting" /\ EvalBegin
                /\ <<h, "unit">> \in firing /\ h \in alertPass'.hosts /\ h \notin alertPass'.hot
                /\ restartSamp[h] # NoSample /\ restartSamp[h].rate > 0
                /\ Counter(facts[h]) = restartSamp[h].count)
               => alertNow - restartSamp[h].at >= QuietTicks ]_alertVars
  BY HoldsThrough
<1>4. [ (EvalApply /\ ruleKind # "service_failed" /\ ~ ServerLevel)
          => \A a \in firing' : a[1] \in alertPass.hosts ]_alertVars
  BY DEF EvalApply, ResolveAlerts, Stale, resolveByDedupDiff
<1> QED  BY <1>1, <1>2, <1>3, <1>4, AlertsStart, AlertsStep, PTL
         DEF AlertsSpec, AlertsFollowTheRule, FiresAfterWindow, HeldWhileLooping, OnlySelectedFire

-----------------------------------------------------------------------------
(* Jobs. *)

AssignmentTypes ==
  /\ jobOnline \subseteq JobHosts /\ jobRows \subseteq JobHosts
  /\ jobHeld \subseteq JobHosts /\ missed \subseteq JobHosts
  /\ job \in {NoJob} \cup [sel : Labels, enabled : BOOLEAN]
  /\ job = NoJob => jobRows = {}

JobsSafe == AssignmentTypes /\ RowsMirrorAgents

\* What a step assigns to is allowed.
AssignsAllowed == \A h \in (jobRows' \ jobRows) \cup (jobHeld' \ jobHeld) : jobEffect[h] = "allow"

\* The row of a job is not the sentinel.
LEMMA JobIsAJob ==
  ASSUME NEW sel \in Labels, NEW on \in BOOLEAN
  PROVE  JobRow(sel, on) # NoJob /\ JobRow(sel, on) \in [sel : Labels, enabled : BOOLEAN]
<1>1. JobRow(sel, on).sel = sel /\ NoJob.sel = "none"
  BY DEF JobRow, NoJob
<1>2. JobRow(sel, on) \in [sel : Labels, enabled : BOOLEAN]
  BY DEF JobRow
<1> QED BY <1>1, <1>2, JobsAssumption

\* Writing the rows of the assigned, removing those of the others and pushing
\* both keeps rows and agents in step: what the agents gain, A allows.
LEMMA PushKeeps ==
  ASSUME JobsSafe, NEW A \in SUBSET JobHosts, NEW U \in SUBSET JobHosts, Push(A, U),
         A \cap U = {}, jobRows' = (jobRows \cup A) \ U, \A h \in A : jobEffect[h] = "allow"
  PROVE  /\ jobRows' \subseteq JobHosts /\ jobHeld' \subseteq JobHosts /\ missed' \subseteq JobHosts
         /\ RowsMirrorAgents' /\ AssignsAllowed
  BY DEF JobsSafe, AssignmentTypes, RowsMirrorAgents, Push, AssignsAllowed

\* A selector asks for hosts; the gate lets it through when all are allowed.
LEMMA SelectorHosts ==
  ASSUME NEW sel
  PROVE  /\ ResolveSelector(sel) \in SUBSET JobHosts
         /\ gatePolicy(sel) => \A h \in ResolveSelector(sel) : jobEffect[h] = "allow"
  BY DEF ResolveSelector, gatePolicy, signTaskRunDecision

\* Every operation keeps it, and assigns to no host that the rules do not allow.
LEMMA JobsStep ==
  ASSUME JobsSafe, [JobsNext]_jobsVars
  PROVE  JobsSafe' /\ AssignsAllowed
<1>0. jobRows \in SUBSET JobHosts /\ (job = NoJob => jobRows = {}) /\ NoJob.enabled = FALSE
  BY DEF JobsSafe, AssignmentTypes, NoJob
<1>1. ASSUME NEW sel \in Labels, NEW on \in BOOLEAN, Create(sel, on)
      PROVE  JobsSafe' /\ AssignsAllowed
  <2> DEFINE now == ResolveSelector(sel)
  <2>1. /\ jobRows' = (jobRows \cup now) \ {} /\ Push(now, {}) /\ jobOnline' = jobOnline
        /\ job' = JobRow(sel, on) /\ gatePolicy(sel)
    BY <1>1 DEF Create, AssignJob
  <2>2. now \in SUBSET JobHosts /\ \A h \in now : jobEffect[h] = "allow"
    BY <2>1, SelectorHosts
  <2> HIDE DEF now
  <2>3. /\ jobRows' \subseteq JobHosts /\ jobHeld' \subseteq JobHosts /\ missed' \subseteq JobHosts
        /\ RowsMirrorAgents' /\ AssignsAllowed
    BY <2>1, <2>2, PushKeeps
  <2> QED BY <2>1, <2>3, JobIsAJob DEF JobsSafe, AssignmentTypes
<1>2. ASSUME NEW sel \in Labels, NEW on \in BOOLEAN, Update(sel, on)
      PROVE  JobsSafe' /\ AssignsAllowed
  <2> DEFINE now == ResolveSelector(sel)
             gone == (jobRows \cup now) \ now
  <2>1. /\ jobRows' = (jobRows \cup now) \ gone /\ Push(now, gone) /\ jobOnline' = jobOnline
        /\ job' = JobRow(sel, on) /\ gatePolicy(sel)
    BY <1>2 DEF Update, AssignJob, UnassignJob, reconcileAssignments
  <2>2. now \in SUBSET JobHosts /\ \A h \in now : jobEffect[h] = "allow"
    BY <2>1, SelectorHosts
  <2>3. gone \in SUBSET JobHosts /\ now \cap gone = {}
    BY <1>0
  <2> HIDE DEF now, gone
  <2>4. /\ jobRows' \subseteq JobHosts /\ jobHeld' \subseteq JobHosts /\ missed' \subseteq JobHosts
        /\ RowsMirrorAgents' /\ AssignsAllowed
    BY <2>1, <2>2, <2>3, PushKeeps
  <2> QED BY <2>1, <2>4, JobIsAJob DEF JobsSafe, AssignmentTypes
<1>3. CASE Delete
  <2>1. /\ jobRows' = jobRows \ jobRows /\ Push({}, jobRows) /\ jobOnline' = jobOnline /\ job' = NoJob
    BY <1>3 DEF Delete, UnassignJob, JobAssignmentsForJob
  <2>2. jobRows' = (jobRows \cup {}) \ jobRows /\ jobRows' = {}
    BY <2>1
  <2>3. /\ jobHeld' \subseteq JobHosts /\ missed' \subseteq JobHosts
        /\ RowsMirrorAgents' /\ AssignsAllowed
    BY <1>0, <2>1, <2>2, PushKeeps
  <2> QED BY <2>1, <2>2, <2>3 DEF JobsSafe, AssignmentTypes
<1>4. CASE reconcileOnce
  <2> DEFINE matching == ResolveSelector(job.sel)
             new == pushAssignment(matching)
             gone == jobRows \ matching
  <2>1. /\ jobRows' = (jobRows \cup new) \ gone /\ Push(new, gone) /\ UNCHANGED <<job, jobOnline>>
        /\ job.enabled
    BY <1>4 DEF reconcileOnce, AssignJob, UnassignJob, reconcileAssignments
  <2>2. new \in SUBSET JobHosts /\ (\A h \in new : jobEffect[h] = "allow") /\ new \subseteq matching
    BY SelectorHosts DEF pushAssignment, hostTaskRunDecision, signTaskRunDecision
  <2>3. gone \in SUBSET JobHosts /\ new \cap gone = {}
    BY <1>0, <2>2
  <2> HIDE DEF new, gone
  <2>4. /\ jobRows' \subseteq JobHosts /\ jobHeld' \subseteq JobHosts /\ missed' \subseteq JobHosts
        /\ RowsMirrorAgents' /\ AssignsAllowed
    BY <2>1, <2>2, <2>3, PushKeeps
  <2>5. job # NoJob
    BY <1>0, <2>1
  <2> QED BY <2>1, <2>4, <2>5 DEF JobsSafe, AssignmentTypes
<1>5. ASSUME NEW h \in JobHosts, ReissueForHost(h)
      PROVE  JobsSafe' /\ AssignsAllowed
  <2>1. job # NoJob /\ UNCHANGED <<job, jobOnline>>
    BY <1>0, <1>5 DEF ReissueForHost
  <2>2. CASE hostTaskRunDecision(h)
    <3>1. jobRows' = (jobRows \cup {h}) \ {} /\ Push({h}, {}) /\ \A k \in {h} : jobEffect[k] = "allow"
      BY <1>5, <2>2 DEF ReissueForHost, AssignJob, hostTaskRunDecision, signTaskRunDecision
    <3>2. /\ jobRows' \subseteq JobHosts /\ jobHeld' \subseteq JobHosts /\ missed' \subseteq JobHosts
          /\ RowsMirrorAgents' /\ AssignsAllowed
      BY <3>1, PushKeeps
    <3> QED BY <2>1, <3>2 DEF JobsSafe, AssignmentTypes
  <2>3. CASE ~ hostTaskRunDecision(h)
    <3>1. jobRows' = (jobRows \cup {}) \ {h} /\ Push({}, {h})
      BY <1>5, <2>3 DEF ReissueForHost, UnassignJob
    <3>2. /\ jobRows' \subseteq JobHosts /\ jobHeld' \subseteq JobHosts /\ missed' \subseteq JobHosts
          /\ RowsMirrorAgents' /\ AssignsAllowed
      BY <3>1, PushKeeps
    <3> QED BY <2>1, <3>2 DEF JobsSafe, AssignmentTypes
  <2> QED BY <2>2, <2>3
<1>6. CASE FleetChange
  <2>1. UNCHANGED <<job, jobRows, jobHeld, missed>> /\ jobOnline' \subseteq JobHosts
    BY <1>6 DEF FleetChange, JobsSafe, AssignmentTypes
  <2> QED BY <2>1 DEF JobsSafe, AssignmentTypes, RowsMirrorAgents, AssignsAllowed
<1>7. CASE UNCHANGED jobsVars
  BY <1>7 DEF jobsVars, JobsSafe, AssignmentTypes, RowsMirrorAgents, AssignsAllowed
<1> QED BY <1>1, <1>2, <1>3, <1>4, <1>5, <1>6, <1>7 DEF JobsNext, jobCreate, jobUpdate, jobDelete

\* Whatever the hosts, labels and rules: the rows and what the agents hold part
\* only at an offline host, and no path assigns a job where the rules deny it.
THEOREM JobsRunWhereAllowed == JobsSpec => [](JobsTypeOK /\ RowsMirrorAgents) /\ AssignsAllowedHosts
<1>1. JobsInit => JobsSafe
  BY DEF JobsInit, JobsSafe, AssignmentTypes, RowsMirrorAgents
<1>2. JobsSafe /\ [JobsNext]_jobsVars => JobsSafe' /\ [AssignsAllowed]_jobsVars
  BY JobsStep
<1>3. JobsSafe => JobsTypeOK /\ RowsMirrorAgents
  BY DEF JobsSafe, AssignmentTypes, JobsTypeOK
<1>4. JobsSpec => [](JobsTypeOK /\ RowsMirrorAgents)
  BY <1>1, <1>2, <1>3, PTL DEF JobsSpec
<1>5. JobsSpec => [][AssignsAllowed]_jobsVars
  BY <1>1, <1>2, PTL DEF JobsSpec
<1> QED BY <1>4, <1>5 DEF AssignsAllowed, AssignsAllowedHosts
=============================================================================
