---------------------------- MODULE Credentials ----------------------------
(***************************************************************************)
(* The life of a host's credentials: the one-time token, the agent row and *)
(* the mTLS leaf an enrollment makes of it, the challenge handshake of its *)
(* streams, the rotation of its leaf and its removal.  A host stands for   *)
(* one identity (identity.json).  The handler of an enrollment reads the   *)
(* token, marks it, writes the row and signs the leaf in separate steps;   *)
(* the handshake reads the row and registers the session in two.           *)
(***************************************************************************)
EXTENDS Integers, FiniteSets

CONSTANTS CredHosts, CredTokens,
          MaxClock,       \* the age at which no more time passes
          MaxCredEvents   \* bound on operator calls, faults and agent starts

ASSUME CredAssumption == MaxClock \in Nat /\ MaxCredEvents \in Nat

VARIABLES tlsOn,      \* the server runs with TLS
          clock,      \* in units of the renewal window; a leaf is near its end at age 1, over at 2
          tokens,     \* enrollment_tokens: "none", "valid", "used" or "expired"
          usedBy,     \* hosts whose enrollment passed the token
          agentRow,   \* agents.state, "none" without a row
          rowLeafAt,  \* when the leaf was issued that tls_not_after stands for, -1 without tls_pub
          identity,   \* hosts with an identity.json
          leafAt,     \* when the leaf on the host was issued, -1 without one
          credProc,   \* the agent: "down", "enrolling", "running" or "stopped" for good
          enroll,     \* the handler that serves the host: its step and its token
          session,    \* "none", "checking" (row read) or "up"
          wire,       \* envelopes in flight on the host's stream
          deleting    \* hosts whose row is gone and RevokeAgent not called yet

VARIABLE credEvents

credVars == <<tlsOn, clock, tokens, usedBy, agentRow, rowLeafAt, identity, leafAt, credProc,
              enroll, session, wire, deleting, credEvents>>

NoHandler == <<"none", "none">>

CredInit ==
  /\ tlsOn \in BOOLEAN /\ clock = 0
  /\ tokens = [t \in CredTokens |-> "none"] /\ usedBy = [t \in CredTokens |-> {}]
  /\ agentRow = [h \in CredHosts |-> "none"] /\ rowLeafAt = [h \in CredHosts |-> -1]
  /\ identity = {} /\ leafAt = [h \in CredHosts |-> -1] /\ credProc = [h \in CredHosts |-> "down"]
  /\ enroll = [h \in CredHosts |-> NoHandler] /\ session = [h \in CredHosts |-> "none"]
  /\ wire = [h \in CredHosts |-> {}] /\ deleting = {} /\ credEvents = 0

CredEvent == credEvents < MaxCredEvents /\ credEvents' = credEvents + 1

-----------------------------------------------------------------------------
(* Tokens and rows. *)

CreateEnrollmentToken(t) ==
  /\ CredEvent /\ tokens[t] = "none" /\ tokens' = [tokens EXCEPT ![t] = "valid"]
  /\ UNCHANGED <<tlsOn, clock, usedBy, agentRow, rowLeafAt, identity, leafAt, credProc, enroll,
                 session, wire, deleting>>

TokenExpires(t) ==
  /\ CredEvent /\ tokens[t] = "valid" /\ tokens' = [tokens EXCEPT ![t] = "expired"]
  /\ UNCHANGED <<tlsOn, clock, usedBy, agentRow, rowLeafAt, identity, leafAt, credProc, enroll,
                 session, wire, deleting>>

UpsertAgent(h) == [agentRow EXCEPT ![h] = "pending"]

DeleteAgentRow(h) ==
  /\ agentRow' = [agentRow EXCEPT ![h] = "none"]
  /\ rowLeafAt' = [rowLeafAt EXCEPT ![h] = -1]

\* An UPDATE: nothing to do for a host without a row.
SetAgentState(h, s) == IF agentRow[h] = "none" THEN agentRow ELSE [agentRow EXCEPT ![h] = s]

SetAgentTLS(h, at) == IF agentRow[h] = "none" THEN rowLeafAt ELSE [rowLeafAt EXCEPT ![h] = at]

-----------------------------------------------------------------------------
(* The agent process.  A fresh identity with a token enrolls; with an      *)
(* identity on disk the agent only connects.                               *)

LoadOrGenerate(h) == identity' = identity \cup {h}

runAgent(h, t) ==
  /\ CredEvent /\ credProc[h] = "down" /\ LoadOrGenerate(h)
  /\ IF h \in identity
     THEN credProc' = [credProc EXCEPT ![h] = "running"] /\ UNCHANGED enroll
     ELSE credProc' = [credProc EXCEPT ![h] = "enrolling"] /\ enroll' = [enroll EXCEPT ![h] = <<"sent", t>>]
  /\ UNCHANGED <<tlsOn, clock, tokens, usedBy, agentRow, rowLeafAt, leafAt, session, wire, deleting>>

\* The response of the server, or the agent's timeout of the call.
EnrollFails(h) == credProc' = [credProc EXCEPT ![h] = IF @ = "enrolling" THEN "down" ELSE @]

persistTLSMaterial(h, at) == leafAt' = [leafAt EXCEPT ![h] = at]

-----------------------------------------------------------------------------
(* handleEnroll. *)

Token(h) == enroll[h][2]
At(h, step) == enroll[h][1] = step
Moves(h, step) == enroll' = [enroll EXCEPT ![h] = <<step, Token(h)>>]
CredEnds(h) == enroll' = [enroll EXCEPT ![h] = NoHandler]

EnrollRefused(h) ==
  /\ At(h, "sent") /\ tokens[Token(h)] # "valid" /\ CredEnds(h) /\ EnrollFails(h)
  /\ UNCHANGED <<tlsOn, clock, tokens, usedBy, agentRow, rowLeafAt, identity, leafAt, session,
                 wire, deleting, credEvents>>

\* ConsumeEnrollmentToken reads the token ...
ConsumeReads(h) ==
  /\ At(h, "sent") /\ tokens[Token(h)] = "valid" /\ Moves(h, "read")
  /\ UNCHANGED <<tlsOn, clock, tokens, usedBy, agentRow, rowLeafAt, identity, leafAt, credProc,
                 session, wire, deleting, credEvents>>

\* ... and marks it used, whoever has marked it since.
ConsumeEnrollmentToken(h) ==
  /\ At(h, "read") /\ Moves(h, "consumed")
  /\ tokens' = [tokens EXCEPT ![Token(h)] = "used"]
  /\ usedBy' = [usedBy EXCEPT ![Token(h)] = @ \cup {h}]
  /\ UNCHANGED <<tlsOn, clock, agentRow, rowLeafAt, identity, leafAt, credProc, session, wire,
                 deleting, credEvents>>

CreateRow(h) ==
  /\ At(h, "consumed") /\ Moves(h, "created") /\ agentRow' = UpsertAgent(h)
  /\ UNCHANGED <<tlsOn, clock, tokens, usedBy, rowLeafAt, identity, leafAt, credProc, session, wire,
                 deleting, credEvents>>

\* No CSR, or one that cannot be signed: the row is taken back.
EnrollRollback(h) ==
  /\ At(h, "created") /\ tlsOn /\ CredEvent /\ CredEnds(h) /\ DeleteAgentRow(h) /\ EnrollFails(h)
  /\ UNCHANGED <<tlsOn, clock, tokens, usedBy, identity, leafAt, session, wire, deleting>>

\* A leaf is told by the time it is issued at.
SignAgentCert(h) == clock
SignLeafForPublicKey(h) == clock

\* The leaf is signed and recorded; the answer reaches the agent or is lost.
EnrollAnswers(h) ==
  /\ At(h, "created") /\ CredEnds(h)
  /\ rowLeafAt' = IF tlsOn THEN SetAgentTLS(h, SignAgentCert(h)) ELSE rowLeafAt
  /\ \/ /\ credProc[h] = "enrolling" /\ credProc' = [credProc EXCEPT ![h] = "running"]
        /\ IF tlsOn THEN persistTLSMaterial(h, SignAgentCert(h)) ELSE UNCHANGED leafAt
        /\ UNCHANGED credEvents
     \/ CredEvent /\ EnrollFails(h) /\ UNCHANGED leafAt
  /\ UNCHANGED <<tlsOn, clock, tokens, usedBy, agentRow, identity, session, wire, deleting>>

-----------------------------------------------------------------------------
(* The handshake and the end of a stream. *)

LeafAge(h) == clock - leafAt[h]

loadCert(h) == leafAt[h] # -1

\* TLS needs a leaf, and one that is not over.
transportCredentials(h) == tlsOn => (loadCert(h) /\ LeafAge(h) < 2)

HandshakeReads(h) ==
  /\ credProc[h] = "running" /\ session[h] = "none" /\ transportCredentials(h)
  /\ agentRow[h] # "none"
  /\ session' = [session EXCEPT ![h] = "checking"]
  /\ UNCHANGED <<tlsOn, clock, tokens, usedBy, agentRow, rowLeafAt, identity, leafAt, credProc,
                 enroll, wire, deleting, credEvents>>

\* The session is registered; the agent asks for a leaf when its own is near its end.
HandshakeDone(h) ==
  /\ session[h] = "checking" /\ session' = [session EXCEPT ![h] = "up"]
  /\ agentRow' = SetAgentState(h, "connected")
  /\ wire' = [wire EXCEPT ![h] = IF tlsOn /\ LeafAge(h) >= 1 THEN {"renew"} ELSE {}]
  /\ UNCHANGED <<tlsOn, clock, tokens, usedBy, rowLeafAt, identity, leafAt, credProc, enroll,
                 deleting, credEvents>>

StreamEnds(h) ==
  /\ session' = [session EXCEPT ![h] = "none"] /\ wire' = [wire EXCEPT ![h] = {}]
  /\ agentRow' = SetAgentState(h, "disconnected")

StreamBreaks(h) ==
  /\ CredEvent /\ session[h] # "none" /\ StreamEnds(h)
  /\ credProc' \in {credProc, [credProc EXCEPT ![h] = "down"]}
  /\ UNCHANGED <<tlsOn, clock, tokens, usedBy, rowLeafAt, identity, leafAt, enroll, deleting>>

-----------------------------------------------------------------------------
(* Rotation: the server signs for the key it has on the row, pushes the    *)
(* leaf and records its expiry at once, before the agent has it.           *)

RotateAgentCert(h) ==
  /\ tlsOn /\ rowLeafAt[h] # -1 /\ session[h] = "up"
  /\ wire' = [wire EXCEPT ![h] = (@ \ {"renew"}) \cup {"cert"}]
  /\ rowLeafAt' = SetAgentTLS(h, SignLeafForPublicKey(h))
  /\ UNCHANGED <<tlsOn, clock, tokens, usedBy, agentRow, identity, leafAt, credProc, enroll,
                 session, deleting>>

\* The hourly sweep.
PushCertExpiryRotation(h) ==
  /\ agentRow[h] = "connected" /\ clock - rowLeafAt[h] >= 1
  /\ RotateAgentCert(h) /\ UNCHANGED credEvents

RenewReceived(h) == "renew" \in wire[h] /\ RotateAgentCert(h) /\ UNCHANGED credEvents

handleRotate(h) == CredEvent /\ RotateAgentCert(h)

\* The pushed leaf carries the host's uuid and the key of its row.
VerifyAgentLeaf(h) == rowLeafAt[h] # -1

RotateLeaf(h) ==
  /\ "cert" \in wire[h] /\ wire' = [wire EXCEPT ![h] = @ \ {"cert"}]
  /\ leafAt' = IF VerifyAgentLeaf(h) THEN [leafAt EXCEPT ![h] = rowLeafAt[h]] ELSE leafAt
  /\ UNCHANGED <<tlsOn, clock, tokens, usedBy, agentRow, rowLeafAt, identity, credProc, enroll,
                 session, deleting, credEvents>>

TimePasses ==
  /\ clock < MaxClock /\ clock' = clock + 1
  /\ UNCHANGED <<tlsOn, tokens, usedBy, agentRow, rowLeafAt, identity, leafAt, credProc, enroll,
                 session, wire, deleting, credEvents>>

-----------------------------------------------------------------------------
(* Removal: the row goes first, the live agent is told next. *)

handleDeleteHost(h) ==
  /\ CredEvent /\ agentRow[h] # "none" /\ At(h, "none")
  /\ DeleteAgentRow(h) /\ deleting' = deleting \cup {h}
  /\ UNCHANGED <<tlsOn, clock, tokens, usedBy, identity, leafAt, credProc, enroll, session, wire>>

\* Bug: the agent is only told when its row still says it is connected.
RevokeAgentByRow(h) ==
  /\ h \in deleting /\ deleting' = deleting \ {h}
  /\ wire' = IF agentRow[h] = "connected" THEN [wire EXCEPT ![h] = @ \cup {"revoke"}] ELSE wire
  /\ UNCHANGED <<tlsOn, clock, tokens, usedBy, agentRow, rowLeafAt, identity, leafAt, credProc,
                 enroll, session, credEvents>>

RevokeAgent(h) ==
  /\ h \in deleting /\ deleting' = deleting \ {h}
  /\ wire' = IF session[h] = "up" THEN [wire EXCEPT ![h] = @ \cup {"revoke"}] ELSE wire
  /\ UNCHANGED <<tlsOn, clock, tokens, usedBy, agentRow, rowLeafAt, identity, leafAt, credProc,
                 enroll, session, credEvents>>

\* The agent stops itself, and may clean its identity and leaf away.
AgentRevoked(h) ==
  /\ "revoke" \in wire[h] /\ StreamEnds(h)
  /\ credProc' = [credProc EXCEPT ![h] = "stopped"]
  /\ \/ UNCHANGED <<identity, leafAt>>
     \/ identity' = identity \ {h} /\ leafAt' = [leafAt EXCEPT ![h] = -1]
  /\ UNCHANGED <<tlsOn, clock, tokens, usedBy, rowLeafAt, enroll, deleting, credEvents>>

HandleEnroll(h) == EnrollRefused(h) \/ ConsumeReads(h) \/ ConsumeEnrollmentToken(h) \/ CreateRow(h)
                   \/ EnrollRollback(h) \/ EnrollAnswers(h)

CredNext ==
  \/ \E t \in CredTokens : CreateEnrollmentToken(t) \/ TokenExpires(t)
  \/ \E h \in CredHosts, t \in CredTokens : runAgent(h, t)
  \/ \E h \in CredHosts : HandleEnroll(h) \/ HandshakeReads(h) \/ HandshakeDone(h) \/ StreamBreaks(h)
  \/ \E h \in CredHosts : PushCertExpiryRotation(h) \/ RenewReceived(h) \/ handleRotate(h) \/ RotateLeaf(h)
  \/ \E h \in CredHosts : handleDeleteHost(h) \/ RevokeAgent(h) \/ AgentRevoked(h)
  \/ TimePasses

\* The sweep's ticker, the running handlers and what is on a live stream.
CredFairness ==
  \A h \in CredHosts :
    /\ WF_credVars(PushCertExpiryRotation(h)) /\ WF_credVars(RenewReceived(h)) /\ WF_credVars(RotateLeaf(h))
    /\ WF_credVars(HandleEnroll(h)) /\ WF_credVars(HandshakeDone(h))
    /\ WF_credVars(RevokeAgent(h)) /\ WF_credVars(AgentRevoked(h))

CredSpec == CredInit /\ [][CredNext]_credVars /\ CredFairness

-----------------------------------------------------------------------------
(* Properties. *)

(* "enrollment is all-or-nothing": on a TLS server every row whose request *)
(* has been answered can have its leaf rotated (handleEnroll's rollbacks). *)
EnrolledHasLeaf ==
  \A h \in CredHosts :
    (tlsOn /\ agentRow[h] # "none" /\ At(h, "none")) => rowLeafAt[h] # -1

(* A leaf near its end, of which the server knows the age, is replaced as  *)
(* long as the host's stream stays up (PushCertExpiryRotation, RotateLeaf).*)
LeafIsRenewed ==
  \A h \in CredHosts, at \in 0..(MaxClock - 1) :
    (session[h] = "up" /\ agentRow[h] = "connected" /\ leafAt[h] = at
       /\ rowLeafAt[h] = at /\ clock - at >= 1)
      ~> (session[h] # "up" \/ leafAt[h] # at)

(* A host that is removed while its stream is up is cut off, however the   *)
(* removal meets its handshakes and rotations (handleDeleteHost).          *)
LiveHostIsRevoked ==
  \A h \in CredHosts : (h \in deleting /\ session[h] = "up") ~> session[h] # "up"

(* The leaf of a host follows its row: none without a leaf, a fresh one    *)
(* before the old one ends, and a stream cut when the row is removed.      *)
LeafFollowsRow == []EnrolledHasLeaf /\ LeafIsRenewed /\ LiveHostIsRevoked

(* "removal doubles as revocation", says handleDeleteHost: a host without  *)
(* a row does not keep a stream.  A handshake that has read the row before *)
(* the removal registers its session after it.                             *)
RemovalRevokes ==
  \A h \in CredHosts : (agentRow[h] = "none" /\ session[h] = "up") ~> session[h] # "up"

(* "Consume the token (single-use)": no two hosts enroll with one token.   *)
TokenSingleUse == \A t \in CredTokens : Cardinality(usedBy[t]) <= 1
=============================================================================
