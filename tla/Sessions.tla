------------------------------ MODULE Sessions ------------------------------
(***************************************************************************)
(* PTY sessions of one agent: the manager on the server with its row, its  *)
(* active map and its recordings, the stream, and the agent's manager with *)
(* one process per session.  Open is a goroutine of the API: the row, the  *)
(* SESSION_OPEN and the active entry are three steps, and an approved      *)
(* session has a fourth, the row that becomes open after the send.  The    *)
(* end of a stream is seen by each side in its own time.                   *)
(***************************************************************************)
EXTENDS Integers, Sequences, FiniteSets

CONSTANTS PtySessions,
          MaxChunks,       \* output chunks per session
          MaxStreamEnds    \* streams that end

ASSUME SessionAssumption == MaxChunks \in Nat /\ MaxStreamEnds \in Nat

VARIABLES row,        \* sessions.state in the store
          opening,    \* where Open or DispatchApprovedSession is for the session
          viaApproval,\* sessions that were parked first
          active,     \* the manager's map
          recSeq,     \* next seq of a recording
          records,    \* session_records: seq -> chunk, as a set of pairs
          ptyLinked,     \* a stream connects the two sides
          hooks,      \* teardowns of the server still to run OnDisconnect
          toAgent, toServer,   \* envelopes of the current stream
          pty,        \* the agent's process: "none", "running", "closing", "killed", "over"
          registered, \* the agent's session map
          chunks,     \* chunks the process has written
          streamEnds

openVars == <<row, opening, viaApproval, active>>
recVars == <<recSeq, records>>
linkVars == <<ptyLinked, hooks, toAgent, toServer, streamEnds>>
ptyVars == <<pty, registered, chunks>>
sessVars == <<openVars, recVars, linkVars, ptyVars>>

TerminalRows == {"closed", "interrupted", "denied", "failed"}

SessionsInit ==
  /\ row = [s \in PtySessions |-> "none"] /\ opening = [s \in PtySessions |-> "idle"]
  /\ viaApproval = {} /\ active = {}
  /\ recSeq = [s \in PtySessions |-> 0] /\ records = [s \in PtySessions |-> {}]
  /\ ptyLinked = TRUE /\ hooks = 0 /\ toAgent = <<>> /\ toServer = <<>> /\ streamEnds = 0
  /\ pty = [s \in PtySessions |-> "none"] /\ registered = {} /\ chunks = [s \in PtySessions |-> 0]

-----------------------------------------------------------------------------
(* The store. *)

CreateSession(s, state) == row' = [row EXCEPT ![s] = state]
UpdateSessionState(s, state) == row' = [row EXCEPT ![s] = state]

InterruptAgentSessions == row' = [s \in PtySessions |-> IF row[s] = "open" THEN "interrupted" ELSE row[s]]

AppendSessionRecord(s, seq, data) ==
  records' = [records EXCEPT ![s] = {r \in @ : r[1] # seq} \cup {<<seq, data>>}]

\* Recordings of sessions that are closed and old.
DeleteSessionRecordsOlderThan(s) ==
  /\ row[s] \in TerminalRows /\ records[s] # {} /\ records' = [records EXCEPT ![s] = {}]
  /\ UNCHANGED <<openVars, recSeq, linkVars, ptyVars>>

-----------------------------------------------------------------------------
(* The server. *)

\* The rules allow the open, hold it or deny it.
OpenSession(s) ==
  /\ row[s] = "none"
  /\ \/ CreateSession(s, "open") /\ opening' = [opening EXCEPT ![s] = "created"] /\ UNCHANGED viaApproval
     \/ CreateSession(s, "awaiting_approval") /\ opening' = [opening EXCEPT ![s] = "parked"]
        /\ viaApproval' = viaApproval \cup {s}
     \/ CreateSession(s, "denied") /\ UNCHANGED <<opening, viaApproval>>
  /\ UNCHANGED <<active, recVars, linkVars, ptyVars>>

sendSessionDown(kind, s) == toAgent' = Append(toAgent, [kind |-> kind, s |-> s])

\* Without a stream the open fails, approved or not.
SendSessionOpen(s) ==
  /\ opening[s] = "created" \/ (opening[s] = "parked" /\ row[s] = "awaiting_approval")
  /\ IF ptyLinked
     THEN /\ sendSessionDown("open", s) /\ UNCHANGED row
          /\ opening' = [opening EXCEPT ![s] = IF @ = "parked" THEN "approvedSent" ELSE "sent"]
     ELSE /\ UpdateSessionState(s, "failed") /\ opening' = [opening EXCEPT ![s] = "idle"] /\ UNCHANGED toAgent
  /\ UNCHANGED <<viaApproval, active, recVars, ptyLinked, hooks, toServer, streamEnds, ptyVars>>

\* The approved session's row becomes open once the open is on its way.
DispatchApprovedSession(s) ==
  /\ opening[s] = "approvedSent" /\ UpdateSessionState(s, "open")
  /\ opening' = [opening EXCEPT ![s] = "sent"]
  /\ UNCHANGED <<viaApproval, active, recVars, linkVars, ptyVars>>

OpenDone(s) ==
  /\ opening[s] = "sent" /\ opening' = [opening EXCEPT ![s] = "idle"] /\ active' = active \cup {s}
  /\ UNCHANGED <<row, viaApproval, recVars, linkVars, ptyVars>>

agentFor(s) == s \in active

\* Input, resize and close of an active session.
sessionControl(kind, s) ==
  /\ agentFor(s) /\ ptyLinked /\ Len(toAgent) < 2 /\ sendSessionDown(kind, s)
  /\ UNCHANGED <<openVars, recVars, ptyLinked, hooks, toServer, streamEnds, ptyVars>>

sessionInput(s) == sessionControl("input", s)
sessionResize(s) == sessionControl("resize", s)
sessionClose(s) == sessionControl("close", s)

onSessionData(s, data) ==
  IF s \in active
  THEN AppendSessionRecord(s, recSeq[s], data) /\ recSeq' = [recSeq EXCEPT ![s] = @ + 1]
  ELSE UNCHANGED recVars

\* A terminal row wins over a late result.
onSessionResult(s, state) ==
  /\ active' = active \ {s}
  /\ IF row[s] \in TerminalRows THEN UNCHANGED row
     ELSE UpdateSessionState(s, IF state \in {"interrupted", "denied"} THEN state ELSE "closed")

SessionUp ==
  /\ toServer # <<>> /\ toServer' = Tail(toServer)
  /\ LET e == Head(toServer)
     IN  \/ e.kind = "data" /\ onSessionData(e.s, e.state) /\ UNCHANGED openVars
         \/ e.kind = "result" /\ onSessionResult(e.s, e.state) /\ UNCHANGED <<opening, viaApproval, recVars>>
  /\ UNCHANGED <<ptyLinked, hooks, toAgent, streamEnds, ptyVars>>

OnDisconnect == InterruptAgentSessions /\ active' = {}

\* The server notices the end of a stream, maybe after the agent is back.
DisconnectHook ==
  /\ hooks > 0 /\ hooks' = hooks - 1 /\ OnDisconnect
  /\ UNCHANGED <<opening, viaApproval, recVars, ptyLinked, toAgent, toServer, streamEnds, ptyVars>>

-----------------------------------------------------------------------------
(* The stream and the agent. *)

\* Bug: the agent leaves its processes alone.
KillAllNone == UNCHANGED <<pty, registered>>

KillAll ==
  /\ pty' = [s \in PtySessions |-> IF s \in registered /\ pty[s] = "running" THEN "killed" ELSE pty[s]]
  /\ registered' = {}

\* The agent sees the end, kills every session and only then connects again.
SessionStreamEnds ==
  /\ ptyLinked /\ streamEnds < MaxStreamEnds /\ streamEnds' = streamEnds + 1
  /\ ptyLinked' = FALSE /\ hooks' = hooks + 1 /\ toAgent' = <<>> /\ toServer' = <<>> /\ KillAll
  /\ UNCHANGED <<openVars, recVars, chunks>>

Reconnects ==
  /\ ~ ptyLinked /\ ptyLinked' = TRUE
  /\ UNCHANGED <<openVars, recVars, hooks, toAgent, toServer, streamEnds, ptyVars>>

\* Session results and data are not spooled.
sendUpEnvelopeNoSpool(kind, s, state) ==
  toServer' = IF ptyLinked THEN Append(toServer, [kind |-> kind, s |-> s, state |-> state]) ELSE toServer

\* The guardrail refuses, the start fails, or the process runs.
AgentOpens(s) ==
  \/ \E state \in {"denied", "failed"} : sendUpEnvelopeNoSpool("result", s, state) /\ UNCHANGED ptyVars
  \/ /\ pty' = [pty EXCEPT ![s] = "running"] /\ registered' = registered \cup {s} /\ UNCHANGED <<chunks, toServer>>

closeGraceful(s) == pty' = [pty EXCEPT ![s] = IF @ = "running" THEN "closing" ELSE @]

AgentCloses(s) ==
  /\ registered' = registered \ {s}
  /\ IF s \in registered THEN closeGraceful(s) ELSE UNCHANGED pty
  /\ UNCHANGED <<chunks, toServer>>

handleSessionEnvelope ==
  /\ toAgent # <<>> /\ toAgent' = Tail(toAgent)
  /\ LET e == Head(toAgent)
     IN  \/ e.kind = "open" /\ AgentOpens(e.s)
         \/ e.kind = "close" /\ AgentCloses(e.s)
         \/ e.kind \in {"input", "resize"} /\ UNCHANGED <<ptyVars, toServer>>
  /\ UNCHANGED <<openVars, recVars, ptyLinked, hooks, streamEnds>>

PtyWrites(s) ==
  /\ pty[s] = "running" /\ chunks[s] < MaxChunks /\ chunks' = [chunks EXCEPT ![s] = @ + 1]
  /\ sendUpEnvelopeNoSpool("data", s, chunks[s] + 1)
  /\ UNCHANGED <<openVars, recVars, ptyLinked, hooks, toAgent, streamEnds, pty, registered>>

\* The read loop reaps the process, which ended by itself, by SIGHUP, or by the
\* SIGKILL behind both; the map keeps a session that ended by itself.
readLoop(s) ==
  /\ pty[s] \in {"running", "closing", "killed"} /\ pty' = [pty EXCEPT ![s] = "over"]
  /\ sendUpEnvelopeNoSpool("result", s, IF pty[s] = "killed" THEN "interrupted" ELSE "succeeded")
  /\ UNCHANGED <<openVars, recVars, ptyLinked, hooks, toAgent, streamEnds, registered, chunks>>

SessionsNext ==
  \/ \E s \in PtySessions :
       \/ OpenSession(s) \/ SendSessionOpen(s) \/ DispatchApprovedSession(s) \/ OpenDone(s)
       \/ sessionInput(s) \/ sessionResize(s) \/ sessionClose(s) \/ DeleteSessionRecordsOlderThan(s)
       \/ PtyWrites(s) \/ readLoop(s)
  \/ SessionUp \/ DisconnectHook \/ SessionStreamEnds \/ Reconnects \/ handleSessionEnvelope

\* Goroutines on both sides run; a process that was closed or killed ends.
SessionsFairness ==
  /\ WF_sessVars(SessionUp) /\ WF_sessVars(DisconnectHook) /\ WF_sessVars(handleSessionEnvelope)
  /\ \A s \in PtySessions : /\ WF_sessVars(OpenDone(s)) /\ WF_sessVars(DispatchApprovedSession(s))
                            /\ WF_sessVars(opening[s] = "created" /\ SendSessionOpen(s))
                            /\ WF_sessVars(pty[s] \in {"closing", "killed"} /\ readLoop(s))

SessionsSpec == SessionsInit /\ [][SessionsNext]_sessVars /\ SessionsFairness

-----------------------------------------------------------------------------
(* Properties. *)

(* A recording is the output in its order: no chunk replaces one that is   *)
(* stored, and a new one is later than all of them, however the open, the  *)
(* data and the end of the stream interleave.                              *)
RecordsGrow ==
  [][\A s \in PtySessions :
       \/ records'[s] = {}
       \/ /\ records[s] \subseteq records'[s]
          /\ \A r \in records'[s] \ records[s] : \A q \in records[s] : q[1] < r[1] /\ q[2] < r[2]]_sessVars

(* A session opened without an approval does not stay open once its        *)
(* process is gone, lost results and streams that end while Open is under  *)
(* way included: the row is closed, interrupted or failed (onSessionResult *)
(* and OnDisconnect).                                                      *)
Gone(s) ==
  /\ row[s] = "open" /\ s \notin viaApproval
  /\ \/ pty[s] = "over"
     \/ /\ pty[s] = "none" /\ opening[s] = "idle"
        /\ \A i \in DOMAIN toAgent : toAgent[i].s = s => toAgent[i].kind # "open"
OpenSettles == \A s \in PtySessions : Gone(s) ~> row[s] # "open"

(* No process outlives its stream, nor its close: what ran when the stream *)
(* ended, and what the operator closed, ends (KillAll, closeGraceful).     *)
PtyEnds ==
  \A s \in PtySessions : (~ ptyLinked /\ pty[s] \notin {"none", "over"}) ~> (pty[s] = "over")

(* A session comes to its end on both sides and its recording is in order: *)
(* the three parts above.                                                  *)
SessionsSettle == RecordsGrow /\ OpenSettles /\ PtyEnds

(* A session that has ended is not open again: "a late or replayed agent   *)
(* result must not resurrect a session the server has already closed out"  *)
(* says onSessionResult, and a row has one life.                           *)
EndedStays == [][\A s \in PtySessions : row[s] \in TerminalRows => row'[s] # "open"]_sessVars
=============================================================================
