----------------------------- MODULE ServicesMC -----------------------------
(***************************************************************************)
(* The components with progress properties, side by side in one instance   *)
(* for TLC: a behaviour is one of a single part, chosen at the start,      *)
(* while the variables of the others keep their initial values.  Fairness  *)
(* is that of the part: a frozen part owes nothing.                        *)
(***************************************************************************)
EXTENDS SelfUpdate, Jobs, TaskRuns, Provision, Credentials, Files, Sessions

\* A reboot between two steps, and two of them with the first at the start.
RebootPlans == { <<"step", "reboot", "step">>, <<"reboot", "step", "reboot", "step">> }

VARIABLE part

servicesVars == <<part, selfUpdateVars, jobsVars, taskVars, provVars, credVars, filesVars, sessVars>>

\* One initial state of every part that does not run.
Frozen ==
  /\ part # "update" => ~ guarded
  /\ part # "jobs" => jobLabel = [h \in JobHosts |-> CHOOSE l \in Labels : TRUE]
  /\ part # "tasks" => plan = (CHOOSE p \in TaskPlans : TRUE) /\ runKind = "task"
  /\ part # "provision" => ~ knownHost /\ agentUp = "none"
  /\ part # "credentials" => ~ tlsOn

ServicesInit ==
  /\ part \in {"update", "jobs", "tasks", "provision", "credentials", "files", "sessions"}
  /\ SelfUpdateInit /\ JobsInit /\ TaskInit /\ ProvInit /\ CredInit /\ FilesInit /\ SessionsInit
  /\ Frozen

ServicesNext ==
  /\ part' = part
  /\ \/ /\ part = "update" /\ SelfUpdateNext
        /\ UNCHANGED <<jobsVars, taskVars, provVars, credVars, filesVars, sessVars>>
     \/ /\ part = "jobs" /\ JobsNext
        /\ UNCHANGED <<selfUpdateVars, taskVars, provVars, credVars, filesVars, sessVars>>
     \/ /\ part = "tasks" /\ TaskNext
        /\ UNCHANGED <<selfUpdateVars, jobsVars, provVars, credVars, filesVars, sessVars>>
     \/ /\ part = "provision" /\ ProvNext
        /\ UNCHANGED <<selfUpdateVars, jobsVars, taskVars, credVars, filesVars, sessVars>>
     \/ /\ part = "credentials" /\ CredNext
        /\ UNCHANGED <<selfUpdateVars, jobsVars, taskVars, provVars, filesVars, sessVars>>
     \/ /\ part = "files" /\ FilesNext
        /\ UNCHANGED <<selfUpdateVars, jobsVars, taskVars, provVars, credVars, sessVars>>
     \/ /\ part = "sessions" /\ SessionsNext
        /\ UNCHANGED <<selfUpdateVars, jobsVars, taskVars, provVars, credVars, filesVars>>

-----------------------------------------------------------------------------
(* The fairness of each module, for the behaviours of its part. *)

UpdateFairness ==
  /\ WF_selfUpdateVars(part = "update" /\ Boot) /\ WF_selfUpdateVars(part = "update" /\ CrashLoop)
  /\ WF_selfUpdateVars(part = "update" /\ MarkerAges)
  /\ WF_selfUpdateVars(part = "update" /\ postConnectUpdateCheck)

TasksFairness ==
  /\ WF_taskVars(part = "tasks" /\ AgentTaskStep) /\ WF_taskVars(part = "tasks" /\ StartTaskRun)
  /\ WF_taskVars(part = "tasks" /\ TaskAgentConnects) /\ WF_taskVars(part = "tasks" /\ HostReboots)
  /\ WF_taskVars(part = "tasks" /\ handleTaskResult) /\ WF_taskVars(part = "tasks" /\ WaitTaskTimeout)

ProvisionFairness ==
  \A r \in ProvRuns : /\ WF_provVars(part = "provision" /\ Goroutine(r))
                      /\ WF_provVars(part = "provision" /\ WaitTimesOut(r) /\ stepWaitEnroll(r))

CredentialsFairness ==
  \A h \in CredHosts :
    /\ WF_credVars(part = "credentials" /\ PushCertExpiryRotation(h))
    /\ WF_credVars(part = "credentials" /\ RenewReceived(h)) /\ WF_credVars(part = "credentials" /\ RotateLeaf(h))
    /\ WF_credVars(part = "credentials" /\ HandleEnroll(h)) /\ WF_credVars(part = "credentials" /\ HandshakeDone(h))
    /\ WF_credVars(part = "credentials" /\ RevokeAgent(h)) /\ WF_credVars(part = "credentials" /\ AgentRevoked(h))

CallsFairness ==
  \A c \in Callers : /\ WF_filesVars(part = "files" /\ FileOpTimesOut(c))
                     /\ WF_filesVars(part = "files" /\ WaitFileResult(c))
                     /\ WF_filesVars(part = "files" /\ WaitSeesClose(c))

PtyFairness ==
  /\ WF_sessVars(part = "sessions" /\ SessionUp) /\ WF_sessVars(part = "sessions" /\ DisconnectHook)
  /\ WF_sessVars(part = "sessions" /\ handleSessionEnvelope)
  /\ \A s \in PtySessions :
       /\ WF_sessVars(part = "sessions" /\ OpenDone(s)) /\ WF_sessVars(part = "sessions" /\ DispatchApprovedSession(s))
       /\ WF_sessVars(part = "sessions" /\ opening[s] = "created" /\ SendSessionOpen(s))
       /\ WF_sessVars(part = "sessions" /\ pty[s] \in {"closing", "killed"} /\ readLoop(s))

ServicesSpec ==
  /\ ServicesInit /\ [][ServicesNext]_servicesVars
  /\ UpdateFairness /\ WF_jobsVars(part = "jobs" /\ reconcileOnce)
  /\ TasksFairness /\ ProvisionFairness /\ CredentialsFairness /\ CallsFairness /\ PtyFairness
=============================================================================
