------------------------------ MODULE Releases ------------------------------
(***************************************************************************)
(* The release store and what an agent accepts from it: registration of a  *)
(* signed or unsigned artifact, the one-time grants its download needs,    *)
(* the directive, and the checks an agent makes before it installs.        *)
(*                                                                         *)
(* A digest stands for the bytes it is computed from.  A signature is the  *)
(* manifest it was made over; it may be empty, or 64 bytes that verify     *)
(* nothing.                                                                *)
(***************************************************************************)
EXTENDS Integers, FiniteSets

CONSTANTS RelVersions,   \* version strings in use, "1" and "v1" among them
          RelArchs, HostArch,
          RelBytes,      \* artifacts an administrator may upload
          MaxUploads, MaxGrants

ASSUME ReleaseAssumption ==
  HostArch \in RelArchs /\ MaxUploads \in Nat /\ MaxGrants \in Nat

Manifest == [version : RelVersions, arch : RelArchs, kind : {"agent", "server"},
             sha : RelBytes]
Signed(m) == [form |-> "signature", over |-> {m}]
Unsigned == [form |-> "empty", over |-> {}]
Malformed == [form |-> "signature", over |-> {}]

VARIABLES conf,       \* server: unsigned allowed, verification key; agent: key provisioned
          releases,   \* rows of the release store
          uploads,    \* uploads accepted, the source of row ids
          grants,     \* unredeemed grants: release id by token
          minted,     \* tokens minted
          served,     \* downloads served per token
          directive,  \* the directive the agent is executing, or NoDirective
          fetched,    \* bytes the agent has downloaded, or "none"
          installed   \* releases the agent has installed, with the bytes

releaseVars == <<conf, releases, uploads, grants, minted, served, directive,
                 fetched, installed>>

NoDirective == [id |-> 0]
Tokens == 1..MaxGrants

ReleaseInit ==
  /\ conf \in [unsigned : BOOLEAN, verifyKey : BOOLEAN, agentKey : BOOLEAN]
  /\ releases = {} /\ uploads = 0
  /\ grants = {} /\ minted = 0 /\ served = [t \in Tokens |-> 0]
  /\ directive = NoDirective /\ fetched = "none" /\ installed = {}

-----------------------------------------------------------------------------
(* internal/release: a signature covers version, arch, kind and digest. *)
Verifies(m, sig) == sig = Signed(m)

(* handleUploadRelease.  An undeclared digest is computed from the bytes.  *)
UploadAccepted(m, bytes, sig) ==
  /\ m.sha = bytes
  /\ sig = Unsigned => conf.unsigned
  /\ conf.verifyKey => Verifies(m, sig)
  /\ \A r \in releases : <<r.version, r.arch, r.kind>> # <<m.version, m.arch, m.kind>>

Upload(m, bytes, sig) ==
  /\ uploads < MaxUploads
  /\ UploadAccepted(m, bytes, sig)
  /\ uploads' = uploads + 1
  /\ releases' = releases \cup
       {[id |-> uploads + 1, version |-> m.version, arch |-> m.arch, kind |-> m.kind,
         sha |-> m.sha, sig |-> sig, bytes |-> bytes]}
  /\ UNCHANGED <<conf, grants, minted, served, directive, fetched, installed>>

RemoveRelease(r) ==
  /\ r \in releases
  /\ releases' = releases \ {r}
  /\ UNCHANGED <<conf, uploads, grants, minted, served, directive, fetched, installed>>

-----------------------------------------------------------------------------
(* Grants and the directive. *)

Redeemable(tok) == \E g \in grants : g.token = tok

(* handleApplyUpdate, and dispatchHost of a rollout: a grant is minted and *)
(* the directive goes to the agent, which ignores it while it is busy.     *)
ApplyUpdate(r) ==
  /\ r \in releases /\ r.kind = "agent" /\ minted < MaxGrants
  /\ minted' = minted + 1
  /\ grants' = grants \cup {[token |-> minted + 1, release |-> r.id]}
  /\ directive' = IF directive # NoDirective THEN directive
                  ELSE [id |-> r.id, version |-> r.version, arch |-> r.arch, kind |-> r.kind,
                        sha |-> r.sha, sig |-> r.sig, unsigned |-> r.sig = Unsigned,
                        grant |-> minted + 1]
  /\ UNCHANGED <<conf, releases, uploads, served, fetched, installed>>

GrantLapses(g) ==
  /\ g \in grants
  /\ grants' = grants \ {g}
  /\ UNCHANGED <<conf, releases, uploads, minted, served, directive, fetched, installed>>

(* A server restart forgets every grant. *)
GrantsForgotten ==
  /\ grants # {}
  /\ grants' = {}
  /\ UNCHANGED <<conf, releases, uploads, minted, served, directive, fetched, installed>>

\* Bug: the grant is looked up and not taken out.
RedeemKeeps(g) ==
  /\ g \in grants
  /\ LET rows == { r \in releases : r.id = g.release } IN
     IF rows = {} THEN UNCHANGED <<served, fetched>>
     ELSE /\ served' = [served EXCEPT ![g.token] = @ + 1]
          /\ fetched' \in { r.bytes : r \in rows } \cup {"corrupt"}
  /\ UNCHANGED <<conf, releases, uploads, grants, minted, directive, installed>>

(* handleGrantArtifact: the grant is spent even when the release is gone.  *)
Redeem(g) ==
  /\ g \in grants
  /\ grants' = grants \ {g}
  /\ LET rows == { r \in releases : r.id = g.release } IN
     IF rows = {} THEN UNCHANGED <<served, fetched>>
     ELSE /\ served' = [served EXCEPT ![g.token] = @ + 1]
          /\ fetched' \in { r.bytes : r \in rows } \cup {"corrupt"}
  /\ UNCHANGED <<conf, releases, uploads, minted, directive, installed>>

-----------------------------------------------------------------------------
(* The agent. *)

(* update.Verify: kind, arch, then the trust matrix of key and signature.  *)
VerifyDirective(d) ==
  /\ d.kind = "agent" /\ d.arch = HostArch
  /\ IF d.unsigned THEN ~conf.agentKey
     ELSE /\ conf.agentKey
          /\ Verifies([version |-> d.version, arch |-> d.arch, kind |-> d.kind, sha |-> d.sha],
                      d.sig)

ExecUpdateFails ==
  /\ directive # NoDirective
  /\ \/ ~VerifyDirective(directive)
     \/ fetched = "none" /\ ~Redeemable(directive.grant)
     \/ fetched # "none" /\ fetched # directive.sha
  /\ directive' = NoDirective /\ fetched' = "none"
  /\ UNCHANGED <<conf, releases, uploads, grants, minted, served, installed>>

DownloadUpdateArtifact ==
  /\ directive # NoDirective /\ VerifyDirective(directive) /\ fetched = "none"
  /\ \E g \in grants : g.token = directive.grant /\ Redeem(g)

InstallUpdate ==
  /\ directive # NoDirective /\ VerifyDirective(directive)
  /\ fetched = directive.sha
  /\ installed' = installed \cup {[sig |-> directive.sig, bytes |-> fetched,
                                   arch |-> directive.arch, version |-> directive.version]}
  /\ directive' = NoDirective /\ fetched' = "none"
  /\ UNCHANGED <<conf, releases, uploads, grants, minted, served>>

ReleaseNext ==
  \/ \E m \in Manifest, b \in RelBytes :
       \E sig \in {Unsigned, Malformed, Signed(m), Signed([m EXCEPT !.kind = "server"])} :
         Upload(m, b, sig)
  \/ \E r \in releases : RemoveRelease(r) \/ ApplyUpdate(r)
  \/ \E g \in grants : GrantLapses(g)
  \/ GrantsForgotten \/ DownloadUpdateArtifact \/ ExecUpdateFails \/ InstallUpdate

ReleaseSpec == ReleaseInit /\ [][ReleaseNext]_releaseVars

-----------------------------------------------------------------------------
ReleaseTypeOK ==
  /\ Cardinality(releases) <= MaxUploads /\ uploads \in 0..MaxUploads
  /\ \A r, s \in releases : r.id = s.id => r = s
  /\ \A g \in grants : g.token \in 1..minted /\ g.release \in 1..uploads
  /\ fetched \in RelBytes \cup {"none", "corrupt"}

(* update.go, Verify, and the digest check of execUpdate: whatever was     *)
(* uploaded, deleted or corrupted on the way, an agent with a release key  *)
(* installs only bytes whose digest that key signed, for its own arch.     *)
KeyedInstallsSigned ==
  conf.agentKey =>
    \A i \in installed :
      Verifies([version |-> i.version, arch |-> HostArch, kind |-> "agent", sha |-> i.bytes],
               i.sig)

(* api/updates.go: "GA: unsigned releases are the exception".  An agent    *)
(* without a key installs nothing at all from a server that does not allow *)
(* unsigned releases or that verifies what is registered.                  *)
KeylessNeedsUnsignedServer ==
  installed # {} /\ ~conf.agentKey => conf.unsigned /\ ~conf.verifyKey

(* stream/updates.go, RedeemUpdateGrant: "Single-use".  A token serves one *)
(* download and none after it lapsed or the server forgot it.              *)
GrantServesOnce ==
  \A t \in Tokens : served[t] <= 1 /\ (served[t] = 1 => ~Redeemable(t))

(* A release reaches a host only signed, verified and by its own grant:    *)
(* the parts above (handleUploadRelease, Verify, RedeemUpdateGrant).       *)
ReleaseInv ==
  ReleaseTypeOK /\ KeyedInstallsSigned /\ KeylessNeedsUnsignedServer /\ GrantServesOnce
=============================================================================
