---------------------------- MODULE UpdateProofs ----------------------------
(***************************************************************************)
(* Proofs about how software reaches a host: the rows, goroutine and       *)
(* durable directives of a fleet update agree and its canary gate holds    *)
(* (Rollouts), `partout update` never lets the fleet run ahead of the server *)
(* (UpdateCommand), a release is installed only signed, verified and by its *)
(* own grant (Releases), and a root script leaves verified files behind,   *)
(* wherever it stops (Install).                                            *)
(***************************************************************************)
EXTENDS Rollouts, UpdateCommand, Releases, Install, FiniteSetTheorems, SequenceTheorems,
        TLAPS

-----------------------------------------------------------------------------
(* UpdateCommand. *)

CommandSteps == {"none", "resolve", "swap", "publish", "rollout", "watch", "failed", "done"}

Commands == [pc : CommandSteps, source : Sources, target : UpdateVersions,
             serverOnly : BOOLEAN, file : {"none", "binary"},
             sha : {"none", "binary", "tarball"}]

FleetRuns == [version : UpdateVersions, status : {"none", "active", "completed", "failed", "aborted"}]

\* Past the swap the server runs the target; past the upload the store has it.
LeadInv ==
  /\ cmd \in Commands /\ fleetRun \in FleetRuns
  /\ cmd.pc \in {"publish", "rollout"} => serverVersion = cmd.target
  /\ cmd.pc = "rollout" => cmd.target \in published

\* No step of the command, of its three sources or of the rollout disturbs
\* what was established before it.
LEMMA LeadStep == LeadInv /\ [UpdateCommandNext]_updateCommandVars => LeadInv'
<1> SUFFICES ASSUME LeadInv, [UpdateCommandNext]_updateCommandVars PROVE LeadInv'
  OBVIOUS
<1> USE DEF LeadInv
<1>1. ASSUME NEW source \in Sources, NEW target \in UpdateVersions,
             NEW serverOnly \in BOOLEAN, NEW check \in BOOLEAN,
             runUpdate(source, target, serverOnly, check)
      PROVE  LeadInv'
  BY <1>1, UpdateCommandAssumption DEF runUpdate, NoCommand, Commands, CommandSteps, Sources
<1>2. ASSUME NEW ok \in BOOLEAN, resolveArtifacts(ok) PROVE LeadInv'
  <2>1. Resolved(cmd.source) \in [file : {"binary"}, sha : {"binary", "tarball"}]
    BY DEF Resolved, repoArtifact, localArtifact, githubArtifact, Digest, Commands, Sources
  <2> QED  BY <1>2, <2>1 DEF resolveArtifacts, Fatal, Goto, Commands, CommandSteps
<1>3. ASSUME NEW ok \in BOOLEAN, supervisedSwap(ok) PROVE LeadInv'
  BY <1>3 DEF supervisedSwap, Fatal, Goto, Commands, CommandSteps
<1>4. CASE publishAgentRelease
  BY <1>4 DEF publishAgentRelease, Fatal, Goto, Commands, CommandSteps
<1>5. ASSUME NEW o \in {"started", "pending", "refused"}, startRollout(o) PROVE LeadInv'
  <2>1. fleetRun' \in FleetRuns
    <3>1. fleetRun' = fleetRun \/ fleetRun' = [version |-> cmd.target, status |-> "active"]
      BY <1>5 DEF startRollout
    <3> QED  BY <3>1 DEF FleetRuns, Commands
  <2>2. \E pc \in {"watch", "failed"} : cmd' = [cmd EXCEPT !.pc = pc]
    BY <1>5 DEF startRollout, Fatal, Goto
  <2>3. cmd' \in Commands /\ cmd'.pc \in {"watch", "failed"}
    BY <2>2 DEF Commands, CommandSteps
  <2> QED  BY <2>1, <2>3
<1>6. ASSUME NEW s \in {"completed", "failed", "aborted"}, fleetRunMoves(s) PROVE LeadInv'
  BY <1>6 DEF fleetRunMoves, FleetRuns
<1>7. CASE watchRollout
  BY <1>7 DEF watchRollout, Fatal, Goto, Commands, CommandSteps
<1>8. CASE UNCHANGED updateCommandVars
  BY <1>8 DEF updateCommandVars
<1> QED  BY <1>1, <1>2, <1>3, <1>4, <1>5, <1>6, <1>7, <1>8 DEF UpdateCommandNext

\* The server goes first: whatever failed before and whichever source the
\* artifacts came from, a rollout starts only for a version the server runs and
\* the store has published.
THEOREM ServerGoesFirst == UpdateCommandSpec => ServerLeadsFleet
<1> DEFINE Leads ==
      fleetRun'.version # fleetRun.version \/ (fleetRun.status # "active" /\ fleetRun'.status = "active")
        => serverVersion = fleetRun'.version /\ fleetRun'.version \in published
<1>1. UpdateCommandInit => LeadInv
  BY UpdateCommandAssumption
     DEF UpdateCommandInit, LeadInv, NoCommand, Commands, CommandSteps, FleetRuns, Sources
<1>2. LeadInv /\ [UpdateCommandNext]_updateCommandVars => LeadInv'
  BY LeadStep
<1>3. LeadInv /\ [UpdateCommandNext]_updateCommandVars => [Leads]_updateCommandVars
  <2> SUFFICES ASSUME LeadInv, UpdateCommandNext PROVE Leads
    BY DEF updateCommandVars
  <2>1. ASSUME NEW o \in {"started", "pending", "refused"}, startRollout(o) PROVE Leads
    <3>1. /\ cmd.pc = "rollout"
          /\ fleetRun' = fleetRun \/ fleetRun' = [version |-> cmd.target, status |-> "active"]
      BY <2>1 DEF startRollout
    <3> QED  BY <3>1 DEF LeadInv
  <2>2. ASSUME NEW s \in {"completed", "failed", "aborted"}, fleetRunMoves(s) PROVE Leads
    BY <2>2 DEF fleetRunMoves, LeadInv, FleetRuns
  <2>3. (\E o \in {"started", "pending", "refused"} : startRollout(o))
        \/ (\E s \in {"completed", "failed", "aborted"} : fleetRunMoves(s))
        \/ fleetRun' = fleetRun
    BY DEF UpdateCommandNext, runUpdate, resolveArtifacts, supervisedSwap, publishAgentRelease,
           watchRollout
  <2> QED  BY <2>1, <2>2, <2>3
<1> QED  BY <1>1, <1>2, <1>3, PTL DEF UpdateCommandSpec, ServerLeadsFleet

-----------------------------------------------------------------------------
(* Releases. *)

\* What the server checked of a manifest and its signature at registration.
Registered(m, sig) ==
  /\ sig = Unsigned => conf.unsigned
  /\ conf.verifyKey => Verifies(m, sig)

ManifestOf(x) == [version |-> x.version, arch |-> x.arch, kind |-> x.kind, sha |-> x.sha]

RowsRegistered ==
  /\ IsFiniteSet(releases) /\ Cardinality(releases) <= uploads
  /\ uploads \in 0..MaxUploads
  /\ \A r \in releases : /\ r.id \in 1..uploads /\ r.bytes \in RelBytes
                         /\ Registered(ManifestOf(r), r.sig)
  /\ \A r, s \in releases : r.id = s.id => r = s

GrantsUnique ==
  /\ minted \in 0..MaxGrants
  /\ served \in [Tokens -> 0..1]
  /\ \A g \in grants : g.token \in 1..minted /\ g.release \in 1..uploads
  /\ \A g, h \in grants : g.token = h.token => g = h
  /\ \A t \in Tokens : served[t] = 1 => t <= minted /\ ~Redeemable(t)

DirectiveRegistered ==
  directive # NoDirective =>
    /\ directive.unsigned = (directive.sig = Unsigned)
    /\ Registered(ManifestOf(directive), directive.sig)

RelInv ==
  /\ conf \in [unsigned : BOOLEAN, verifyKey : BOOLEAN, agentKey : BOOLEAN]
  /\ RowsRegistered /\ GrantsUnique /\ DirectiveRegistered
  /\ fetched \in RelBytes \cup {"none", "corrupt"}
  /\ KeyedInstallsSigned /\ KeylessNeedsUnsignedServer

\* An upload keeps the rows of the store registered, with ids of their own.
LEMMA UploadRegisters ==
  ASSUME RowsRegistered, NEW m \in Manifest, NEW b \in RelBytes, NEW sig, Upload(m, b, sig)
  PROVE  RowsRegistered'
<1> DEFINE row == [id |-> uploads + 1, version |-> m.version, arch |-> m.arch, kind |-> m.kind,
                   sha |-> m.sha, sig |-> sig, bytes |-> b]
<1>1. /\ releases' = releases \cup {row} /\ uploads' = uploads + 1 /\ conf' = conf
      /\ uploads \in 0..MaxUploads /\ uploads < MaxUploads /\ MaxUploads \in Nat
  BY ReleaseAssumption DEF Upload, RowsRegistered
<1>2. row.id = uploads + 1 /\ row.bytes = b /\ row.sig = sig /\ ManifestOf(row) = m
  BY DEF ManifestOf, Manifest
<1>3. Registered(m, sig)
  BY DEF Upload, UploadAccepted, Registered
<1>10. Registered(ManifestOf(row), row.sig)
  BY <1>2, <1>3
<1> HIDE DEF row
<1>4. \A r \in releases : r.id \in 1..uploads
  BY DEF RowsRegistered
<1>5. row \notin releases
  BY <1>1, <1>2, <1>4
<1>6. IsFiniteSet(releases') /\ Cardinality(releases') = Cardinality(releases) + 1
  BY <1>1, <1>5, FS_AddElement DEF RowsRegistered
<1>7. Cardinality(releases) \in Nat /\ Cardinality(releases) <= uploads
  BY FS_CardinalityType DEF RowsRegistered
<1>8. ASSUME NEW r \in releases' PROVE r.id \in 1..uploads' /\ r.bytes \in RelBytes
                                       /\ Registered(ManifestOf(r), r.sig)'
  <2>1. CASE r = row
    BY <1>1, <1>2, <1>10, <2>1 DEF Registered
  <2>2. CASE r \in releases
    BY <1>1, <2>2 DEF RowsRegistered, Registered
  <2> QED  BY <1>1, <2>1, <2>2
<1>9. \A r, s \in releases' : r.id = s.id => r = s
  BY <1>1, <1>2, <1>4 DEF RowsRegistered
<1> QED  BY <1>1, <1>6, <1>7, <1>8, <1>9 DEF RowsRegistered

\* Taking one row away leaves the others as they were.
LEMMA RemovalKeeps ==
  ASSUME RowsRegistered, NEW r \in releases, RemoveRelease(r)
  PROVE  RowsRegistered'
<1>1. releases' = releases \ {r} /\ uploads' = uploads /\ conf' = conf
  BY DEF RemoveRelease
<1>2. IsFiniteSet(releases') /\ Cardinality(releases') = Cardinality(releases) - 1
  BY <1>1, FS_RemoveElement DEF RowsRegistered
<1>3. Cardinality(releases) \in Nat /\ uploads \in Nat
  BY FS_CardinalityType DEF RowsRegistered
<1>4. \A s \in releases' : Registered(ManifestOf(s), s.sig)'
  BY <1>1 DEF RowsRegistered, Registered
<1> QED  BY <1>1, <1>2, <1>3, <1>4 DEF RowsRegistered

\* handleGrantArtifact takes the grant out before it serves: no other grant
\* carries its token, and its token was not served before.
LEMMA RedeemOnce ==
  ASSUME RelInv, NEW g \in grants, Redeem(g)
  PROVE  GrantsUnique' /\ fetched' \in RelBytes \cup {"none", "corrupt"}
<1> DEFINE rows == {r \in releases : r.id = g.release}
           t == g.token
<1>1. grants' = grants \ {g} /\ minted' = minted /\ uploads' = uploads
  BY DEF Redeem
<1>2. t \in 1..minted /\ minted \in 0..MaxGrants /\ t \in Tokens /\ Redeemable(t)
  BY ReleaseAssumption DEF RelInv, GrantsUnique, Tokens, Redeemable
<1>3. served[t] = 0 /\ served \in [Tokens -> 0..1]
  BY <1>2 DEF RelInv, GrantsUnique
<1>4. \/ served' = served /\ fetched' = fetched
      \/ served' = [served EXCEPT ![t] = @ + 1] /\ fetched' \in {r.bytes : r \in rows} \cup {"corrupt"}
  BY DEF Redeem
<1>5. served' \in [Tokens -> 0..1] /\ \A u \in Tokens : u # t => served'[u] = served[u]
  BY <1>2, <1>3, <1>4
<1>6. \A u \in Tokens : Redeemable(u)' => Redeemable(u) /\ u # t
  BY <1>1 DEF Redeemable, RelInv, GrantsUnique
<1>7. \A u \in Tokens : served'[u] = 1 => u <= minted' /\ ~Redeemable(u)'
  BY <1>1, <1>2, <1>5, <1>6 DEF RelInv, GrantsUnique
<1>8. \A r \in rows : r.bytes \in RelBytes
  BY DEF RelInv, RowsRegistered
<1>9. fetched' \in RelBytes \cup {"none", "corrupt"}
  BY <1>4, <1>8 DEF RelInv
<1>10. \A h \in grants' : h \in grants
  BY <1>1
<1> QED  BY <1>1, <1>5, <1>7, <1>9, <1>10 DEF RelInv, GrantsUnique

\* handleApplyUpdate mints a token that no grant and no download has used.
LEMMA ApplyMints ==
  ASSUME RelInv, NEW r \in releases, ApplyUpdate(r)
  PROVE  GrantsUnique' /\ DirectiveRegistered'
<1> DEFINE g == [token |-> minted + 1, release |-> r.id]
<1>1. /\ minted' = minted + 1 /\ grants' = grants \cup {g} /\ served' = served
      /\ uploads' = uploads /\ conf' = conf
      /\ minted \in 0..MaxGrants /\ minted < MaxGrants /\ MaxGrants \in Nat
  BY ReleaseAssumption DEF ApplyUpdate, RelInv, GrantsUnique
<1>2. g.token = minted + 1 /\ g.release \in 1..uploads
  BY DEF RelInv, RowsRegistered
<1> HIDE DEF g
<1>3. /\ served \in [Tokens -> 0..1]
      /\ \A h \in grants : h.token \in 1..minted /\ h.release \in 1..uploads
      /\ \A h, k \in grants : h.token = k.token => h = k
      /\ \A t \in Tokens : served[t] = 1 => t <= minted /\ ~Redeemable(t)
  BY DEF RelInv, GrantsUnique
<1>4. \A h, k \in grants' : h.token = k.token => h = k
  BY <1>1, <1>2, <1>3
<1>5. \A t \in Tokens : served'[t] = 1 => t <= minted' /\ ~Redeemable(t)'
  BY <1>1, <1>2, <1>3 DEF Redeemable, Tokens
<1>6. GrantsUnique'
  BY <1>1, <1>2, <1>3, <1>4, <1>5 DEF GrantsUnique
<1>7. DirectiveRegistered'
  <2>1. CASE directive' = directive
    BY <1>1, <2>1 DEF RelInv, DirectiveRegistered, Registered
  <2>2. CASE directive' = [id |-> r.id, version |-> r.version, arch |-> r.arch, kind |-> r.kind,
                           sha |-> r.sha, sig |-> r.sig, unsigned |-> r.sig = Unsigned,
                           grant |-> minted + 1]
    <3>1. /\ directive'.unsigned = (r.sig = Unsigned) /\ directive'.sig = r.sig
          /\ ManifestOf(directive') = ManifestOf(r)
      BY <2>2 DEF ManifestOf
    <3>2. Registered(ManifestOf(r), r.sig)
      BY DEF RelInv, RowsRegistered
    <3> QED  BY <1>1, <3>1, <3>2 DEF DirectiveRegistered, Registered
  <2> QED  BY <2>1, <2>2 DEF ApplyUpdate
<1> QED  BY <1>6, <1>7

\* update.Verify and the digest check: what is installed was signed for this
\* host by the key it holds, or, without a key, came unsigned from a server
\* that registers such releases.
LEMMA InstallVerified ==
  ASSUME RelInv, InstallUpdate
  PROVE  KeyedInstallsSigned' /\ KeylessNeedsUnsignedServer'
<1> DEFINE i == [sig |-> directive.sig, bytes |-> fetched,
                 arch |-> directive.arch, version |-> directive.version]
<1>1. /\ installed' = installed \cup {i} /\ conf' = conf /\ fetched = directive.sha
      /\ directive # NoDirective /\ VerifyDirective(directive)
  BY DEF InstallUpdate
<1>2. conf.agentKey => Verifies([version |-> i.version, arch |-> HostArch, kind |-> "agent",
                                 sha |-> i.bytes], i.sig)
  BY <1>1 DEF VerifyDirective
<1>3. ~conf.agentKey => conf.unsigned /\ ~conf.verifyKey
  <2> SUFFICES ASSUME ~conf.agentKey PROVE conf.unsigned /\ ~conf.verifyKey
    OBVIOUS
  <2>1. directive.unsigned /\ directive.sig = Unsigned /\ conf.unsigned
    BY <1>1 DEF VerifyDirective, RelInv, DirectiveRegistered, Registered
  <2>2. ~Verifies(ManifestOf(directive), directive.sig)
    BY <2>1 DEF Verifies, Unsigned, Signed
  <2> QED  BY <1>1, <2>1, <2>2 DEF RelInv, DirectiveRegistered, Registered
<1> HIDE DEF i
<1>4. KeyedInstallsSigned'
  BY <1>1, <1>2 DEF RelInv, KeyedInstallsSigned
<1>5. KeylessNeedsUnsignedServer'
  BY <1>1, <1>3 DEF KeylessNeedsUnsignedServer
<1> QED  BY <1>4, <1>5

\* Every step keeps rows, grants, directive and installations in order.
LEMMA RelStep == RelInv /\ [ReleaseNext]_releaseVars => RelInv'
<1> SUFFICES ASSUME RelInv, [ReleaseNext]_releaseVars PROVE RelInv'
  OBVIOUS
<1>1. ASSUME UNCHANGED <<conf, directive>> PROVE DirectiveRegistered'
  BY <1>1 DEF RelInv, DirectiveRegistered, Registered
<1>2. ASSUME UNCHANGED <<conf, installed>> PROVE KeyedInstallsSigned' /\ KeylessNeedsUnsignedServer'
  BY <1>2 DEF RelInv, KeyedInstallsSigned, KeylessNeedsUnsignedServer
<1>3. ASSUME UNCHANGED <<conf, releases, uploads>> PROVE RowsRegistered'
  BY <1>3 DEF RelInv, RowsRegistered, Registered
<1>4. ASSUME grants' \subseteq grants, uploads' \in Int, uploads <= uploads', UNCHANGED <<minted, served>>
      PROVE  GrantsUnique'
  <2>1. \A t \in Tokens : Redeemable(t)' => Redeemable(t)
    BY <1>4 DEF Redeemable
  <2>2. uploads \in Int
    BY DEF RelInv, RowsRegistered
  <2>3. \A g \in grants' : g.release \in 1..uploads'
    BY <1>4, <2>2 DEF RelInv, GrantsUnique
  <2> QED  BY <1>4, <2>1, <2>3 DEF RelInv, GrantsUnique
<1>5. uploads \in Int /\ uploads <= uploads
  BY DEF RelInv, RowsRegistered
<1>6. ASSUME NEW m \in Manifest, NEW b \in RelBytes, NEW sig, Upload(m, b, sig) PROVE RelInv'
  <2>1. RowsRegistered'
    BY <1>6, UploadRegisters DEF RelInv
  <2>2. GrantsUnique' /\ DirectiveRegistered' /\ KeyedInstallsSigned' /\ KeylessNeedsUnsignedServer'
    BY <1>1, <1>2, <1>4, <1>5, <1>6 DEF Upload
  <2> QED  BY <1>6, <2>1, <2>2 DEF Upload, RelInv
<1>7. ASSUME NEW r \in releases, RemoveRelease(r) PROVE RelInv'
  <2>1. RowsRegistered'
    BY <1>7, RemovalKeeps DEF RelInv
  <2>2. GrantsUnique' /\ DirectiveRegistered' /\ KeyedInstallsSigned' /\ KeylessNeedsUnsignedServer'
    BY <1>1, <1>2, <1>4, <1>5, <1>7 DEF RemoveRelease
  <2> QED  BY <1>7, <2>1, <2>2 DEF RemoveRelease, RelInv
<1>8. ASSUME NEW r \in releases, ApplyUpdate(r) PROVE RelInv'
  BY <1>2, <1>3, <1>8, ApplyMints DEF ApplyUpdate, RelInv
<1>9. CASE (\E g \in grants : GrantLapses(g)) \/ GrantsForgotten
  <2>1. grants' \subseteq grants /\ UNCHANGED <<conf, releases, uploads, minted, served, directive, fetched, installed>>
    BY <1>9 DEF GrantLapses, GrantsForgotten
  <2> QED  BY <1>1, <1>2, <1>3, <1>4, <1>5, <2>1 DEF RelInv
<1>10. CASE DownloadUpdateArtifact
  <2>1. PICK g \in grants : Redeem(g)
    BY <1>10 DEF DownloadUpdateArtifact
  <2>2. GrantsUnique' /\ fetched' \in RelBytes \cup {"none", "corrupt"}
    BY <2>1, RedeemOnce
  <2>3. UNCHANGED <<conf, releases, uploads, minted, directive, installed>>
    BY <2>1 DEF Redeem
  <2> QED  BY <1>1, <1>2, <1>3, <2>2, <2>3 DEF RelInv
<1>11. CASE ExecUpdateFails
  <2>1. UNCHANGED <<conf, releases, uploads, grants, minted, served, installed>>
        /\ directive' = NoDirective /\ fetched' = "none"
    BY <1>11 DEF ExecUpdateFails
  <2> QED  BY <1>2, <1>3, <1>4, <1>5, <2>1 DEF RelInv, DirectiveRegistered
<1>12. CASE InstallUpdate
  <2>1. UNCHANGED <<conf, releases, uploads, grants, minted, served>>
        /\ directive' = NoDirective /\ fetched' = "none"
    BY <1>12 DEF InstallUpdate
  <2>2. KeyedInstallsSigned' /\ KeylessNeedsUnsignedServer'
    BY <1>12, InstallVerified
  <2> QED  BY <1>3, <1>4, <1>5, <2>1, <2>2 DEF RelInv, DirectiveRegistered
<1>13. CASE UNCHANGED releaseVars
  BY <1>1, <1>2, <1>3, <1>4, <1>5, <1>13 DEF releaseVars, RelInv
<1> QED  BY <1>6, <1>7, <1>8, <1>9, <1>10, <1>11, <1>12, <1>13 DEF ReleaseNext

\* A release reaches a host only signed or knowingly unsigned, verified against
\* the digest that was signed, and by a grant that serves one download.
THEOREM ReleasesAreVerified == ReleaseSpec => []ReleaseInv
<1>1. ReleaseInit => RelInv
  <2> SUFFICES ASSUME ReleaseInit PROVE RelInv
    OBVIOUS
  <2>1. RowsRegistered
    BY ReleaseAssumption, FS_EmptySet DEF ReleaseInit, RowsRegistered
  <2>2. GrantsUnique
    BY ReleaseAssumption DEF ReleaseInit, GrantsUnique, Tokens
  <2> QED  BY <2>1, <2>2 DEF ReleaseInit, RelInv, DirectiveRegistered, KeyedInstallsSigned,
                             KeylessNeedsUnsignedServer
<1>2. RelInv /\ [ReleaseNext]_releaseVars => RelInv'
  BY RelStep
<1>3. RelInv => ReleaseInv
  <2> SUFFICES ASSUME RelInv PROVE ReleaseInv
    OBVIOUS
  <2>1. Cardinality(releases) <= MaxUploads
    BY ReleaseAssumption, FS_CardinalityType DEF RelInv, RowsRegistered
  <2>2. ReleaseTypeOK
    BY <2>1 DEF RelInv, RowsRegistered, GrantsUnique, ReleaseTypeOK
  <2>3. GrantServesOnce
    BY DEF RelInv, GrantsUnique, GrantServesOnce
  <2> QED  BY <2>2, <2>3 DEF RelInv, ReleaseInv
<1> QED  BY <1>1, <1>2, <1>3, PTL DEF ReleaseSpec

-----------------------------------------------------------------------------
(* Install. *)

\* The lines of the three scripts.
ScriptLines ==
  {"copyBin", "copyCA", "copyGuard", "copyPolicy", "fetchBin", "stageCA", "stagePolicy", "stageGuard", "pub",
   "binGate", "wipe", "binary", "guard", "etc", "caGate", "policyGate", "sudoers", "env", "unit", "restart",
   "ok", "hostGuard", "hasBinary", "policyFile", "elevateEnv"}

\* The lines a script still has.
LinesOf(s) == {s[i] : i \in DOMAIN s}
ToRun == LinesOf(script)

\* Which line comes first, of two that depend on one another.
MustPrecede ==
  { <<"copyBin", "binGate">>, <<"fetchBin", "binGate">>, <<"binGate", "binary">>, <<"binary", "guard">>,
    <<"caGate", "env">>, <<"policyGate", "sudoers">>, <<"policyGate", "env">>, <<"sudoers", "env">>,
    <<"policyFile", "sudoers">>, <<"policyFile", "elevateEnv">>, <<"sudoers", "elevateEnv">> }

Ordered(s) == \A i, j \in DOMAIN s : i < j => <<s[j], s[i]>> \notin MustPrecede

Contents == Binaries \cup InstPolicies
            \cup {"none", "own", "bad", "ca", "guard", "policy", "dir", "unit", "yes", "pub"}

ScriptSpecs == [path : {"ssh", "join", "elev", None}, mode : {"fresh", "join", None},
                bin : Binaries \cup {"own", None}, tls : BOOLEAN,
                policy : InstPolicies \cup {None}, caFile : {"ca", "noSha", None}]

InstallTypes ==
  /\ newest \in Binaries \cup {"own"} /\ policies \subseteq InstPolicies
  /\ elevToken \in InstPolicies \cup {None, "used"}
  /\ files \in [FileNames -> Contents]
  /\ staged \in [{"bin", "ca", "noSha", "policy", "guard"} -> Contents]
  /\ spec \in ScriptSpecs
  /\ script \in Seq(ScriptLines)

\* Before a line that puts something in place there is the line that verified
\* it, or it is verified.
BinaryIsGated ==
  /\ "copyBin" \in ToRun \/ "fetchBin" \in ToRun => "binGate" \in ToRun
  /\ "binary" \in ToRun => "binGate" \in ToRun \/ staged["bin"] = spec.bin
  /\ "guard" \in ToRun => "binary" \in ToRun \/ files["bin"] = spec.bin

\* Before a line that names a file in agent.env there is the line that puts the
\* file there, or it is there.
CaIsFirst == "env" \in ToRun /\ spec.tls => "caGate" \in ToRun \/ files["ca"] # None

PolicyIsFirst ==
  /\ "policyGate" \in ToRun \/ "policyFile" \in ToRun => spec.policy # None
  /\ "sudoers" \in ToRun => "policyGate" \in ToRun \/ "policyFile" \in ToRun \/ files["policy"] # None
  /\ "env" \in ToRun /\ spec.policy # None =>
       /\ "policyGate" \in ToRun \/ files["policy"] # None
       /\ "sudoers" \in ToRun \/ files["sudoers"] # None
  /\ "elevateEnv" \in ToRun =>
       /\ "policyFile" \in ToRun \/ files["policy"] # None
       /\ "sudoers" \in ToRun \/ files["sudoers"] # None

NothingBad == \A f \in FileNames \ {"guard"} : files[f] # "bad"

ScriptInv ==
  /\ InstallTypes /\ Ordered(script)
  /\ BinaryIsGated /\ CaIsFirst /\ PolicyIsFirst
  /\ NothingBad /\ EnvIsBacked

\* The lines of a sequence, in an order that respects what depends on what.
Pack(s, L) == s \in Seq(ScriptLines) /\ Ordered(s) /\ LinesOf(s) = L

\* Two parts of a script make one, when no line of the first waits for one of
\* the second.
LEMMA PackConcat ==
  ASSUME NEW s, NEW t, NEW L, NEW M, Pack(s, L), Pack(t, M),
         \A a \in L, b \in M : <<b, a>> \notin MustPrecede
  PROVE  Pack(s \o t, L \cup M)
<1> USE DEF Pack
<1>1. /\ s \o t \in Seq(ScriptLines) /\ Len(s \o t) = Len(s) + Len(t)
      /\ \A i \in 1..(Len(s) + Len(t)) :
           (s \o t)[i] = IF i <= Len(s) THEN s[i] ELSE t[i - Len(s)]
  BY ConcatProperties
<1>2. Len(s) \in Nat /\ Len(t) \in Nat /\ DOMAIN s = 1..Len(s) /\ DOMAIN t = 1..Len(t)
      /\ DOMAIN (s \o t) = 1..(Len(s) + Len(t))
  BY <1>1
<1> DEFINE u == s \o t
<1>3. /\ DOMAIN u = 1..(Len(s) + Len(t))
      /\ \A i \in DOMAIN u : IF i <= Len(s) THEN i \in DOMAIN s /\ u[i] = s[i]
                             ELSE i - Len(s) \in DOMAIN t /\ u[i] = t[i - Len(s)]
      /\ \A i \in DOMAIN s : i \in DOMAIN u /\ u[i] = s[i]
  BY <1>1, <1>2
<1>4. \A i \in DOMAIN t : i + Len(s) \in DOMAIN u /\ u[i + Len(s)] = t[i]
  BY <1>1, <1>2
<1> HIDE DEF u
<1>5. LinesOf(u) = L \cup M
  <2>1. LinesOf(u) \subseteq LinesOf(s) \cup LinesOf(t)
    BY <1>3 DEF LinesOf
  <2>2. LinesOf(s) \subseteq LinesOf(u)
    BY <1>3 DEF LinesOf
  <2>3. LinesOf(t) \subseteq LinesOf(u)
    BY <1>4 DEF LinesOf
  <2> QED  BY <2>1, <2>2, <2>3
<1>6. Ordered(u)
  <2> SUFFICES ASSUME NEW i \in DOMAIN u, NEW j \in DOMAIN u, i < j
               PROVE  <<u[j], u[i]>> \notin MustPrecede
    BY DEF Ordered
  <2>1. i \in Nat /\ j \in Nat
    BY <1>2, <1>3
  <2>2. CASE j <= Len(s)
    BY <1>2, <1>3, <2>1, <2>2 DEF Ordered
  <2>3. CASE i > Len(s)
    <3>1. /\ i - Len(s) \in DOMAIN t /\ u[i] = t[i - Len(s)]
          /\ j - Len(s) \in DOMAIN t /\ u[j] = t[j - Len(s)]
          /\ i - Len(s) < j - Len(s)
      BY <1>2, <1>3, <2>1, <2>3
    <3> QED  BY <3>1 DEF Ordered
  <2>4. CASE i <= Len(s) /\ j > Len(s)
    <3>1. u[i] \in L /\ u[j] \in M
      BY <1>2, <1>3, <2>1, <2>4 DEF LinesOf
    <3> QED  BY <3>1
  <2> QED  BY <1>2, <2>1, <2>2, <2>3, <2>4
<1> QED  BY <1>1, <1>5, <1>6 DEF u

\* The parts of the scripts.
LEMMA Parts ==
  /\ Pack(<<>>, {})
  /\ \A a \in ScriptLines : Pack(<<a>>, {a})
  /\ Pack(<<"policyGate", "sudoers">>, {"policyGate", "sudoers"})
  /\ Pack(<<"stageGuard", "pub">>, {"stageGuard", "pub"})
  /\ Pack(<<"binary", "guard", "etc">>, {"binary", "guard", "etc"})
  /\ Pack(<<"env", "unit", "restart", "ok">>, {"env", "unit", "restart", "ok"})
<1>1. Pack(<<>>, {})
  BY DEF Pack, Ordered, LinesOf
<1>2. ASSUME NEW a \in ScriptLines PROVE Pack(<<a>>, {a})
  <2> DEFINE s == <<a>>
  <2>1. s \in Seq(ScriptLines)
    OBVIOUS
  <2>2. DOMAIN s = 1..1 /\ s[1] = a
    OBVIOUS
  <2> HIDE DEF s
  <2>3. \A i \in DOMAIN s : i = 1
    BY <2>2
  <2>4. LinesOf(s) = {a}
    BY <2>2, <2>3 DEF LinesOf
  <2>5. Ordered(s)
    BY <2>2, <2>3 DEF Ordered
  <2> QED  BY <2>1, <2>4, <2>5 DEF Pack, s
<1>3. Pack(<<"policyGate", "sudoers">>, {"policyGate", "sudoers"})
  <2> DEFINE s == <<"policyGate", "sudoers">>
  <2>1. s \in Seq(ScriptLines)
    BY DEF ScriptLines
  <2>2. DOMAIN s = {1, 2} /\ s[1] = "policyGate" /\ s[2] = "sudoers"
    OBVIOUS
  <2> HIDE DEF s
  <2>3. LinesOf(s) = {"policyGate", "sudoers"}
    BY <2>2 DEF LinesOf
  <2>4. Ordered(s)
    BY <2>2 DEF Ordered, MustPrecede
  <2> QED  BY <2>1, <2>3, <2>4 DEF Pack, s
<1>4. Pack(<<"stageGuard", "pub">>, {"stageGuard", "pub"})
  <2> DEFINE s == <<"stageGuard", "pub">>
  <2>1. s \in Seq(ScriptLines)
    BY DEF ScriptLines
  <2>2. DOMAIN s = {1, 2} /\ s[1] = "stageGuard" /\ s[2] = "pub"
    OBVIOUS
  <2> HIDE DEF s
  <2>3. LinesOf(s) = {"stageGuard", "pub"}
    BY <2>2 DEF LinesOf
  <2>4. Ordered(s)
    BY <2>2 DEF Ordered, MustPrecede
  <2> QED  BY <2>1, <2>3, <2>4 DEF Pack, s
<1>5. Pack(<<"binary", "guard", "etc">>, {"binary", "guard", "etc"})
  <2> DEFINE s == <<"binary", "guard", "etc">>
  <2>1. s \in Seq(ScriptLines)
    BY DEF ScriptLines
  <2>2. DOMAIN s = {1, 2, 3} /\ s[1] = "binary" /\ s[2] = "guard" /\ s[3] = "etc"
    OBVIOUS
  <2> HIDE DEF s
  <2>3. LinesOf(s) = {"binary", "guard", "etc"}
    BY <2>2 DEF LinesOf
  <2>4. Ordered(s)
    BY <2>2 DEF Ordered, MustPrecede
  <2> QED  BY <2>1, <2>3, <2>4 DEF Pack, s
<1>6. Pack(<<"env", "unit", "restart", "ok">>, {"env", "unit", "restart", "ok"})
  <2> DEFINE s == <<"env", "unit", "restart", "ok">>
  <2>1. s \in Seq(ScriptLines)
    BY DEF ScriptLines
  <2>2. DOMAIN s = {1, 2, 3, 4} /\ s[1] = "env" /\ s[2] = "unit" /\ s[3] = "restart" /\ s[4] = "ok"
    OBVIOUS
  <2> HIDE DEF s
  <2>3. LinesOf(s) = {"env", "unit", "restart", "ok"}
    BY <2>2 DEF LinesOf
  <2>4. Ordered(s)
    BY <2>2 DEF Ordered, MustPrecede
  <2> QED  BY <2>1, <2>3, <2>4 DEF Pack, s
<1> QED  BY <1>1, <1>2, <1>3, <1>4, <1>5, <1>6

\* The lines of the installer's body, in order.
BodyLines(mode, tls, policy) ==
  {"binGate", "binary", "guard", "etc", "env", "unit", "restart", "ok"}
  \cup (IF mode = "fresh" THEN {"wipe"} ELSE {})
  \cup (IF tls THEN {"caGate"} ELSE {})
  \cup (IF policy = None THEN {} ELSE {"policyGate", "sudoers"})

\* The installer's body runs its lines in an order that respects them all.
LEMMA BodyPack ==
  ASSUME NEW mode, NEW tls \in BOOLEAN, NEW policy
  PROVE  Pack(buildInstallScript(mode, tls, policy), BodyLines(mode, tls, policy))
<1> DEFINE W == IF mode = "fresh" THEN {"wipe"} ELSE {}
           C == IF tls THEN {"caGate"} ELSE {}
           E == IF policy = None THEN {} ELSE {"policyGate", "sudoers"}
<1>1. Pack(wipeScript(mode), W) /\ Pack(caBlock(tls), C) /\ Pack(elevationScript(policy), E)
  <2>1. "wipe" \in ScriptLines /\ "caGate" \in ScriptLines
    BY DEF ScriptLines
  <2> QED  BY <2>1, Parts DEF wipeScript, caBlock, elevationScript
<1>2. Pack(<<"binGate">> \o wipeScript(mode), {"binGate"} \cup W)
  <2>1. \A a \in {"binGate"}, b \in W : <<b, a>> \notin MustPrecede
    BY DEF MustPrecede
  <2>2. Pack(<<"binGate">>, {"binGate"})
    BY Parts DEF ScriptLines
  <2> HIDE DEF W
  <2> QED  BY <1>1, <2>1, <2>2, PackConcat
<1> DEFINE s1 == <<"binGate">> \o wipeScript(mode)
           L1 == {"binGate"} \cup W
<1>3. Pack(s1 \o <<"binary", "guard", "etc">>, L1 \cup {"binary", "guard", "etc"})
  <2>1. \A a \in L1, b \in {"binary", "guard", "etc"} : <<b, a>> \notin MustPrecede
    BY DEF MustPrecede
  <2> HIDE DEF L1, s1
  <2> QED  BY <1>2, <2>1, Parts, PackConcat DEF L1, s1
<1> DEFINE s2 == s1 \o <<"binary", "guard", "etc">>
           L2 == L1 \cup {"binary", "guard", "etc"}
<1>4. Pack(s2 \o caBlock(tls), L2 \cup C)
  <2>1. \A a \in L2, b \in C : <<b, a>> \notin MustPrecede
    BY DEF MustPrecede
  <2> HIDE DEF L2, s2, C
  <2> QED  BY <1>1, <1>3, <2>1, PackConcat DEF L2, s2
<1> DEFINE s3 == s2 \o caBlock(tls)
           L3 == L2 \cup C
<1>5. Pack(s3 \o elevationScript(policy), L3 \cup E)
  <2>1. \A a \in L3, b \in E : <<b, a>> \notin MustPrecede
    BY DEF MustPrecede
  <2> HIDE DEF L3, s3, E
  <2> QED  BY <1>1, <1>4, <2>1, PackConcat DEF L3, s3
<1> DEFINE s4 == s3 \o elevationScript(policy)
           L4 == L3 \cup E
<1>6. Pack(s4 \o <<"env", "unit", "restart", "ok">>, L4 \cup {"env", "unit", "restart", "ok"})
  <2>1. \A a \in L4, b \in {"env", "unit", "restart", "ok"} : <<b, a>> \notin MustPrecede
    BY DEF MustPrecede
  <2> HIDE DEF L4, s4
  <2> QED  BY <1>5, <2>1, Parts, PackConcat DEF L4, s4
<1>7. L4 \cup {"env", "unit", "restart", "ok"} = BodyLines(mode, tls, policy)
  BY DEF BodyLines
<1> QED  BY <1>6, <1>7 DEF buildInstallScript

\* What is staged before the body; no line waits for one of these, but for the
\* transfer of the binary.
PreludeLines == {"copyBin", "copyCA", "copyGuard", "copyPolicy",
                 "fetchBin", "stageCA", "stagePolicy", "stageGuard", "pub"}

\* So a prelude may stand before any lines.
LEMMA PreludeConcat ==
  ASSUME NEW s, NEW t, NEW L, NEW M, Pack(s, L), Pack(t, M), L \subseteq PreludeLines
  PROVE  Pack(s \o t, L \cup M)
<1>1. \A a \in L, b \in M : <<b, a>> \notin MustPrecede
  BY DEF PreludeLines, MustPrecede
<1> QED  BY <1>1, PackConcat

\* The script that SSH provisioning pipes.
LEMMA SshPack ==
  ASSUME NEW mode, NEW tls \in BOOLEAN, NEW policy
  PROVE  \E L : /\ L \subseteq PreludeLines
                /\ Pack(stepTransferLines(tls, policy) \o buildInstallScript(mode, tls, policy),
                        L \cup BodyLines(mode, tls, policy))
<1> DEFINE x == IF tls THEN <<"copyCA">> ELSE <<>>
           y == IF policy = None THEN <<>> ELSE <<"copyPolicy">>
           X == IF tls THEN {"copyCA"} ELSE {}
           Y == IF policy = None THEN {} ELSE {"copyPolicy"}
           s1 == <<"copyBin">> \o x
           s2 == s1 \o <<"copyGuard">>
           s3 == s2 \o y
<1>1. Pack(<<"copyBin">>, {"copyBin"}) /\ Pack(<<"copyGuard">>, {"copyGuard"}) /\ Pack(x, X) /\ Pack(y, Y)
  BY Parts DEF ScriptLines
<1>2. /\ {"copyBin"} \subseteq PreludeLines /\ {"copyGuard"} \subseteq PreludeLines
      /\ X \subseteq PreludeLines /\ Y \subseteq PreludeLines
  BY DEF PreludeLines
<1>3. s3 = stepTransferLines(tls, policy)
  BY DEF stepTransferLines
<1> HIDE DEF x, y, X, Y
<1>4. Pack(s1, {"copyBin"} \cup X)
  BY <1>1, <1>2, PreludeConcat
<1> HIDE DEF s1
<1>5. Pack(s2, ({"copyBin"} \cup X) \cup {"copyGuard"})
  BY <1>1, <1>2, <1>4, PreludeConcat
<1> HIDE DEF s2
<1> DEFINE L == (({"copyBin"} \cup X) \cup {"copyGuard"}) \cup Y
<1>6. Pack(s3, L)
  BY <1>1, <1>2, <1>5, PreludeConcat
<1>7. L \subseteq PreludeLines
  BY <1>2
<1> HIDE DEF s3, L
<1>8. Pack(s3 \o buildInstallScript(mode, tls, policy), L \cup BodyLines(mode, tls, policy))
  BY <1>6, <1>7, BodyPack, PreludeConcat
<1> QED  BY <1>3, <1>7, <1>8

\* The script of the join line.
LEMMA JoinPack ==
  ASSUME NEW tls \in BOOLEAN, NEW policy
  PROVE  \E L : /\ L \subseteq PreludeLines
                /\ Pack(BuildJoinScript(tls, policy), L \cup BodyLines("join", tls, policy))
<1> DEFINE x == IF tls THEN <<"stageCA">> ELSE <<>>
           y == IF policy = None THEN <<>> ELSE <<"stagePolicy">>
           X == IF tls THEN {"stageCA"} ELSE {}
           Y == IF policy = None THEN {} ELSE {"stagePolicy"}
           s1 == <<"fetchBin">> \o x
           s2 == s1 \o y
           s3 == s2 \o <<"stageGuard", "pub">>
<1>1. Pack(<<"fetchBin">>, {"fetchBin"}) /\ Pack(x, X) /\ Pack(y, Y)
  BY Parts DEF ScriptLines
<1>2. /\ {"fetchBin"} \subseteq PreludeLines /\ {"stageGuard", "pub"} \subseteq PreludeLines
      /\ X \subseteq PreludeLines /\ Y \subseteq PreludeLines
  BY DEF PreludeLines
<1>3. BuildJoinScript(tls, policy) = s3 \o buildInstallScript("join", tls, policy)
  BY DEF BuildJoinScript
<1> HIDE DEF x, y, X, Y
<1>4. Pack(s1, {"fetchBin"} \cup X)
  BY <1>1, <1>2, PreludeConcat
<1> HIDE DEF s1
<1>5. Pack(s2, ({"fetchBin"} \cup X) \cup Y)
  BY <1>1, <1>2, <1>4, PreludeConcat
<1> HIDE DEF s2
<1> DEFINE L == (({"fetchBin"} \cup X) \cup Y) \cup {"stageGuard", "pub"}
<1>6. Pack(s3, L)
  BY <1>2, <1>5, Parts, PreludeConcat
<1>7. L \subseteq PreludeLines
  BY <1>2
<1> HIDE DEF s3, L
<1>8. Pack(s3 \o buildInstallScript("join", tls, policy), L \cup BodyLines("join", tls, policy))
  BY <1>6, <1>7, BodyPack, PreludeConcat
<1> QED  BY <1>3, <1>7, <1>8

\* The script of the elevation bootstrap.
ElevationLines == {"hostGuard", "hasBinary", "policyFile", "sudoers", "elevateEnv", "restart", "pub", "ok"}

\* The bootstrap runs its lines in such an order, too.
LEMMA ElevationPack == Pack(BuildElevationBootstrapScript, ElevationLines)
<1> DEFINE s == BuildElevationBootstrapScript
<1>1. s \in Seq(ScriptLines)
  BY DEF BuildElevationBootstrapScript, ScriptLines
<1>2. /\ DOMAIN s = {1, 2, 3, 4, 5, 6, 7, 8}
      /\ s[1] = "hostGuard" /\ s[2] = "hasBinary" /\ s[3] = "policyFile" /\ s[4] = "sudoers"
      /\ s[5] = "elevateEnv" /\ s[6] = "restart" /\ s[7] = "pub" /\ s[8] = "ok"
  BY DEF BuildElevationBootstrapScript
<1> HIDE DEF s
<1>3. LinesOf(s) = ElevationLines
  BY <1>2 DEF LinesOf, ElevationLines
<1>4. Ordered(s)
  BY <1>2 DEF Ordered, MustPrecede
<1> QED  BY <1>1, <1>3, <1>4 DEF Pack, s

\* A script whose lines come with what they depend on may start on any host
\* that the scripts before it have left.
LEMMA LaunchKeeps ==
  ASSUME ScriptInv, NEW L, Pack(script', L), spec' \in ScriptSpecs,
         UNCHANGED <<files, staged>>,
         newest' \in Binaries \cup {"own"}, policies' \subseteq InstPolicies,
         elevToken' \in InstPolicies \cup {None, "used"},
         "copyBin" \in L \/ "fetchBin" \in L \/ "binary" \in L => "binGate" \in L,
         "guard" \in L => "binary" \in L,
         "env" \in L /\ spec'.tls => "caGate" \in L,
         "policyGate" \in L \/ "policyFile" \in L => spec'.policy # None,
         "sudoers" \in L => "policyGate" \in L \/ "policyFile" \in L,
         "env" \in L /\ spec'.policy # None => "policyGate" \in L /\ "sudoers" \in L,
         "elevateEnv" \in L => "policyFile" \in L /\ "sudoers" \in L
  PROVE  ScriptInv'
<1>1. ToRun' = L /\ Ordered(script)' /\ script' \in Seq(ScriptLines)
  BY DEF Pack, ToRun, Ordered, LinesOf
<1>2. InstallTypes'
  BY <1>1 DEF ScriptInv, InstallTypes
<1>3. BinaryIsGated' /\ CaIsFirst' /\ PolicyIsFirst'
  BY <1>1 DEF BinaryIsGated, CaIsFirst, PolicyIsFirst
<1>4. NothingBad' /\ EnvIsBacked'
  BY DEF ScriptInv, NothingBad, EnvIsBacked
<1> QED  BY <1>1, <1>2, <1>3, <1>4 DEF ScriptInv

\* The lines of the body depend on lines of the body.
LEMMA BodyLaunches ==
  ASSUME ScriptInv, NEW mode, NEW tls \in BOOLEAN, NEW policy \in InstPolicies \cup {None}, NEW P,
         P \subseteq PreludeLines, Pack(script', P \cup BodyLines(mode, tls, policy)),
         spec' \in ScriptSpecs, spec'.tls = tls, spec'.policy = policy,
         UNCHANGED <<files, staged>>, UNCHANGED <<newest, policies, elevToken>>
  PROVE  ScriptInv'
<1> DEFINE L == P \cup BodyLines(mode, tls, policy)
<1>1. /\ "binGate" \in L /\ "binary" \in L /\ "env" \in L
      /\ tls => "caGate" \in L
      /\ policy # None => "policyGate" \in L /\ "sudoers" \in L
      /\ policy = None => "policyGate" \notin L /\ "sudoers" \notin L
      /\ "policyFile" \notin L /\ "elevateEnv" \notin L
  BY DEF BodyLines, PreludeLines
<1> HIDE DEF L
<1>2. /\ newest' \in Binaries \cup {"own"} /\ policies' \subseteq InstPolicies
      /\ elevToken' \in InstPolicies \cup {None, "used"}
  BY DEF ScriptInv, InstallTypes
<1>3. Pack(script', L)
  BY DEF L
<1> QED  BY <1>1, <1>2, <1>3, LaunchKeeps

\* The steps that are not lines of a script: a script starts, or the operator
\* changes what the next one is rendered from.
LEMMA OperatorKeeps ==
  ASSUME ScriptInv,
         \/ \E tls \in BOOLEAN, p \in InstPolicies \cup {None} :
              (\E mode \in {"fresh", "join"} : SshInstall(mode, tls, p)) \/ handleJoinScript(tls, p)
         \/ JoinTokenChanges \/ handleElevateScript \/ UploadRelease
         \/ \E q \in InstPolicies : handleElevationBootstrapMint(q) \/ DeleteElevationPolicy(q)
         \/ UNCHANGED installVars
  PROVE  ScriptInv'
<1>0. /\ newest \in Binaries \cup {"own"} /\ policies \subseteq InstPolicies
      /\ elevToken \in InstPolicies \cup {None, "used"}
  BY DEF ScriptInv, InstallTypes
<1>1. ASSUME NEW tls \in BOOLEAN, NEW p \in InstPolicies \cup {None}, NEW mode \in {"fresh", "join"},
             SshInstall(mode, tls, p)
      PROVE  ScriptInv'
  <2>1. /\ script' = stepTransferLines(tls, p) \o buildInstallScript(mode, tls, p)
        /\ spec' = [path |-> "ssh", mode |-> mode, bin |-> "own", tls |-> tls, policy |-> p, caFile |-> "ca"]
        /\ UNCHANGED <<files, staged, newest, policies, elevToken>>
    BY <1>1 DEF SshInstall, Launch, serverVars
  <2>2. spec' \in ScriptSpecs /\ spec'.tls = tls /\ spec'.policy = p
    BY <2>1 DEF ScriptSpecs
  <2>3. PICK L : /\ L \subseteq PreludeLines
                 /\ Pack(stepTransferLines(tls, p) \o buildInstallScript(mode, tls, p), L \cup BodyLines(mode, tls, p))
    BY SshPack
  <2>4. Pack(script', L \cup BodyLines(mode, tls, p))
    BY <2>1, <2>3
  <2> QED  BY <2>1, <2>2, <2>3, <2>4, BodyLaunches
<1>2. ASSUME NEW tls \in BOOLEAN, NEW p \in InstPolicies \cup {None}, handleJoinScript(tls, p)
      PROVE  ScriptInv'
  <2>1. /\ script' = BuildJoinScript(tls, p)
        /\ spec' = [path |-> "join", mode |-> "join", bin |-> newest, tls |-> tls, policy |-> p, caFile |-> "noSha"]
        /\ UNCHANGED <<files, staged, newest, policies, elevToken>>
    BY <1>2 DEF handleJoinScript, BuildJoinLoader, resolveAgentBinary, Launch, serverVars
  <2>2. spec' \in ScriptSpecs /\ spec'.tls = tls /\ spec'.policy = p
    BY <1>0, <2>1 DEF ScriptSpecs
  <2>3. PICK L : L \subseteq PreludeLines /\ Pack(BuildJoinScript(tls, p), L \cup BodyLines("join", tls, p))
    BY JoinPack
  <2>4. Pack(script', L \cup BodyLines("join", tls, p))
    BY <2>1, <2>3
  <2> QED  BY <2>1, <2>2, <2>3, <2>4, BodyLaunches
<1>3. CASE handleElevateScript
  <2>1. /\ elevToken \in InstPolicies /\ elevToken # None /\ elevToken' = "used"
        /\ UNCHANGED <<newest, policies, files, staged>>
    BY <1>0, <1>3 DEF handleElevateScript, ConsumeElevationToken, Launch
  <2>2. CASE UNCHANGED <<spec, script>>
    BY <2>1, <2>2 DEF ScriptInv, InstallTypes, Ordered, BinaryIsGated, CaIsFirst, PolicyIsFirst, ToRun, LinesOf,
                      NothingBad, EnvIsBacked
  <2>3. CASE /\ spec' = [NoSpec EXCEPT !.path = "elev", !.policy = elevToken, !.tls = (files["envTls"] = "yes")]
             /\ script' = BuildElevationBootstrapScript
    <3>1. spec' \in ScriptSpecs /\ spec'.policy = elevToken
      BY <2>1, <2>3 DEF ScriptSpecs, NoSpec
    <3>2. Pack(script', ElevationLines)
      BY <2>3, ElevationPack
    <3>3. /\ {"copyBin", "fetchBin", "binary", "guard", "env", "policyGate"} \cap ElevationLines = {}
          /\ {"policyFile", "sudoers"} \subseteq ElevationLines
      BY DEF ElevationLines
    <3> QED  BY <1>0, <2>1, <3>1, <3>2, <3>3, LaunchKeeps
  <2> QED  BY <1>3, <2>2, <2>3 DEF handleElevateScript, Launch
<1>4. CASE \/ JoinTokenChanges \/ UploadRelease \/ UNCHANGED installVars
           \/ \E q \in InstPolicies : handleElevationBootstrapMint(q) \/ DeleteElevationPolicy(q)
  <2>1. UNCHANGED <<files, staged, spec, script>>
    BY <1>4 DEF JoinTokenChanges, UploadRelease, handleElevationBootstrapMint, DeleteElevationPolicy, installVars
  <2>2. /\ newest' \in Binaries \cup {"own"} /\ policies' \subseteq InstPolicies
        /\ elevToken' \in InstPolicies \cup {None, "used"}
    BY <1>0, <1>4 DEF JoinTokenChanges, UploadRelease, handleElevationBootstrapMint, CreateElevationToken,
                      DeleteElevationPolicy, installVars
  <2> QED  BY <2>1, <2>2 DEF ScriptInv, InstallTypes, Ordered, BinaryIsGated, CaIsFirst, PolicyIsFirst, ToRun,
                             LinesOf, NothingBad, EnvIsBacked
<1> QED  BY <1>1, <1>2, <1>3, <1>4

\* A script that stops has no line left to depend on anything.
LEMMA StopKeeps ==
  ASSUME ScriptInv, script' = <<>>, spec' = spec, UNCHANGED <<newest, policies, elevToken>>,
         files' \in [FileNames -> Contents],
         staged' \in [{"bin", "ca", "noSha", "policy", "guard"} -> Contents],
         NothingBad', EnvIsBacked'
  PROVE  ScriptInv'
<1>1. InstallTypes' /\ Ordered(script)' /\ ToRun' = {}
  BY DEF ScriptInv, InstallTypes, Ordered, ToRun, LinesOf
<1> QED  BY <1>1 DEF ScriptInv, BinaryIsGated, CaIsFirst, PolicyIsFirst

\* A line that goes on leaves the lines behind it, none of which it waits for.
LEMMA LineTaken ==
  ASSUME ScriptInv, NEW l, Line(l), Goes
  PROVE  /\ ToRun = ToRun' \cup {l} /\ spec' = spec
         /\ \A x \in ToRun' : <<x, l>> \notin MustPrecede
         /\ Ordered(script)' /\ script' \in Seq(ScriptLines)
<1>1. script \in Seq(ScriptLines) /\ script # <<>> /\ script' = Tail(script) /\ script[1] = l
  BY DEF ScriptInv, InstallTypes, Line, Goes
<1>2. /\ script' \in Seq(ScriptLines)
      /\ \A i \in DOMAIN script' : i \in Nat /\ i + 1 \in DOMAIN script /\ script'[i] = script[i + 1]
      /\ \A i \in DOMAIN script : i \in Nat /\ (i = 1 \/ (i - 1 \in DOMAIN script' /\ script'[i - 1] = script[i]))
      /\ 1 \in DOMAIN script
      /\ \A i \in DOMAIN script' : 1 < i + 1
  BY <1>1
<1>3. ToRun = ToRun' \cup {l}
  <2>1. ToRun' \subseteq ToRun /\ l \in ToRun
    BY <1>1, <1>2 DEF ToRun, LinesOf
  <2>2. ToRun \subseteq ToRun' \cup {l}
    BY <1>1, <1>2 DEF ToRun, LinesOf
  <2> QED  BY <2>1, <2>2
<1>4. Ordered(script)
  BY DEF ScriptInv
<1>5. \A x \in ToRun' : <<x, l>> \notin MustPrecede
  BY <1>1, <1>2, <1>4 DEF ToRun, LinesOf, Ordered
<1>6. Ordered(script)'
  <2>1. \A i, j \in DOMAIN script' : i < j => i + 1 < j + 1
    BY <1>2
  <2> QED  BY <1>2, <1>4, <2>1 DEF Ordered
<1> QED  BY <1>2, <1>3, <1>5, <1>6 DEF Line

\* What a line has to leave behind for the lines after it: the release is
\* verified by its gate and put in place by its line, and a file that agent.env
\* will name stays there.
LEMMA GoesKeeps ==
  ASSUME ScriptInv, NEW l, Line(l), Goes, UNCHANGED <<newest, policies, elevToken>>,
         files' \in [FileNames -> Contents],
         staged' \in [{"bin", "ca", "noSha", "policy", "guard"} -> Contents],
         staged'["bin"] = staged["bin"] \/ l \in {"copyBin", "fetchBin"},
         l = "binGate" => staged["bin"] = spec.bin,
         files'["bin"] = IF l = "binary" THEN staged["bin"] ELSE files["bin"],
         files["ca"] # None => files'["ca"] # None,
         files["policy"] # None => files'["policy"] # None,
         files["sudoers"] # None => files'["sudoers"] # None,
         l = "caGate" => files'["ca"] # None,
         l \in {"policyGate", "policyFile"} => files'["policy"] # None,
         l = "sudoers" => files'["sudoers"] # None,
         NothingBad', EnvIsBacked'
  PROVE  ScriptInv'
<1>1. /\ ToRun = ToRun' \cup {l} /\ spec' = spec
      /\ \A x \in ToRun' : <<x, l>> \notin MustPrecede
      /\ Ordered(script)' /\ script' \in Seq(ScriptLines)
  BY LineTaken
<1>2. InstallTypes'
  BY <1>1 DEF ScriptInv, InstallTypes
<1>3. BinaryIsGated'
  <2>1. BinaryIsGated
    BY DEF ScriptInv
  <2>2. l = "binGate" => "copyBin" \notin ToRun' /\ "fetchBin" \notin ToRun'
    BY <1>1 DEF MustPrecede
  <2>3. l = "binary" => "binGate" \notin ToRun'
    BY <1>1 DEF MustPrecede
  <2>4. l = "binary" => staged["bin"] = spec.bin
    BY <1>1, <2>1, <2>3 DEF BinaryIsGated
  <2>5. l \in {"copyBin", "fetchBin"} => "binGate" \in ToRun'
    BY <1>1, <2>1 DEF BinaryIsGated
  <2> QED  BY <1>1, <2>1, <2>2, <2>4, <2>5 DEF BinaryIsGated
<1>4. CaIsFirst'
  BY <1>1 DEF ScriptInv, CaIsFirst
<1>5. PolicyIsFirst'
  BY <1>1 DEF ScriptInv, PolicyIsFirst
<1> QED  BY <1>1, <1>2, <1>3, <1>4, <1>5 DEF ScriptInv

\* Putting a sound file in place spoils nothing, and takes away nothing that
\* agent.env names.
LEMMA PutKeeps ==
  ASSUME ScriptInv, NEW f \in FileNames \ {"envTls", "envElevate"}, NEW c \in Contents, Put(f, c),
         f # "guard" => c # "bad", f \in {"ca", "policy", "sudoers"} => c # None
  PROVE  /\ files' \in [FileNames -> Contents] /\ NothingBad' /\ EnvIsBacked'
         /\ files'[f] = c /\ \A g \in FileNames \ {f} : files'[g] = files[g]
<1>1. files \in [FileNames -> Contents] /\ files' = [files EXCEPT ![f] = c]
  BY DEF ScriptInv, InstallTypes, Put
<1>2. files' \in [FileNames -> Contents] /\ files'[f] = c /\ \A g \in FileNames \ {f} : files'[g] = files[g]
  BY <1>1
<1>3. NothingBad'
  BY <1>2 DEF ScriptInv, NothingBad
<1>4. {"envTls", "envElevate", "ca", "policy", "sudoers"} \subseteq FileNames
  BY DEF FileNames
<1>5. EnvIsBacked'
  BY <1>2, <1>4 DEF ScriptInv, EnvIsBacked
<1> QED  BY <1>2, <1>3, <1>5

\* The lines that leave the host's files alone, whether they go on or end the
\* script.
LEMMA QuietLineKeeps ==
  ASSUME ScriptInv, NEW l, Line(l), Goes \/ Aborts, UNCHANGED <<newest, policies, elevToken, files>>,
         staged' \in [{"bin", "ca", "noSha", "policy", "guard"} -> Contents],
         Goes => l \notin {"binary", "caGate", "policyGate", "policyFile", "sudoers"},
         Goes => staged'["bin"] = staged["bin"] \/ l \in {"copyBin", "fetchBin"},
         Goes /\ l = "binGate" => staged["bin"] = spec.bin
  PROVE  ScriptInv'
<1>1. files' \in [FileNames -> Contents] /\ NothingBad' /\ EnvIsBacked'
  BY DEF ScriptInv, InstallTypes, NothingBad, EnvIsBacked
<1>2. CASE Goes
  BY <1>1, <1>2, GoesKeeps
<1>3. CASE Aborts
  BY <1>1, <1>3, StopKeeps DEF Aborts, Line
<1> QED  BY <1>2, <1>3

\* A transfer stages what was sent, or something spoiled; only those of the
\* binary touch the staged binary.
LEMMA TransferKeeps ==
  ASSUME ScriptInv, NEW l, NEW f \in {"bin", "ca", "noSha", "policy", "guard"}, NEW c \in Contents,
         Transfer(l, f, c) \/ InlineStage(l, f, c),
         l \in {"copyBin", "copyCA", "copyGuard", "copyPolicy", "fetchBin", "stageGuard", "stageCA", "stagePolicy"},
         f = "bin" => l \in {"copyBin", "fetchBin"}
  PROVE  ScriptInv'
<1>1. /\ Line(l) /\ (Goes \/ Aborts) /\ UNCHANGED <<newest, policies, elevToken, files>>
      /\ Stage(f, c) \/ Stage(f, "bad") \/ UNCHANGED staged
  BY DEF Transfer, InlineStage, serverVars
<1>2. "bad" \in Contents
  BY DEF Contents
<1>3. staged \in [{"bin", "ca", "noSha", "policy", "guard"} -> Contents]
  BY DEF ScriptInv, InstallTypes
<1>4. staged' \in [{"bin", "ca", "noSha", "policy", "guard"} -> Contents]
  BY <1>1, <1>2, <1>3 DEF Stage
<1>5. f # "bin" => staged'["bin"] = staged["bin"]
  BY <1>1, <1>3 DEF Stage
<1> QED  BY <1>1, <1>4, <1>5, QuietLineKeeps

\* The lines that stage the files of the script.
LEMMA StagingKeeps ==
  ASSUME ScriptInv,
         copyBin \/ copyCA \/ copyGuard \/ copyPolicy \/ handleJoinBinary \/ stageFiles
  PROVE  ScriptInv'
<1>1. /\ spec.bin \in Contents /\ spec.policy \in Contents /\ newest \in Contents
      /\ "ca" \in Contents /\ "guard" \in Contents
  <2>1. spec \in ScriptSpecs /\ newest \in Binaries \cup {"own"}
    BY DEF ScriptInv, InstallTypes
  <2>2. spec.bin \in Binaries \cup {"own", None} /\ spec.policy \in InstPolicies \cup {None}
    BY <2>1 DEF ScriptSpecs
  <2> QED  BY <2>1, <2>2 DEF Contents, None
<1>2. CASE copyBin
  BY <1>1, <1>2, TransferKeeps DEF copyBin
<1>3. CASE copyCA
  BY <1>1, <1>3, TransferKeeps DEF copyCA
<1>4. CASE copyGuard
  BY <1>1, <1>4, TransferKeeps DEF copyGuard
<1>5. CASE copyPolicy
  BY <1>1, <1>5, TransferKeeps DEF copyPolicy
<1>6. CASE handleJoinBinary
  <2>1. CASE Transfer("fetchBin", "bin", newest)
    BY <1>1, <2>1, TransferKeeps
  <2>2. CASE Line("fetchBin") /\ Aborts /\ UNCHANGED <<serverVars, files, staged>>
    <3>1. staged' \in [{"bin", "ca", "noSha", "policy", "guard"} -> Contents]
      BY <2>2 DEF ScriptInv, InstallTypes
    <3>2. UNCHANGED <<newest, policies, elevToken, files>> /\ staged' = staged
      BY <2>2 DEF serverVars
    <3> QED  BY <2>2, <3>1, <3>2, QuietLineKeeps
  <2> QED  BY <1>6, <2>1, <2>2 DEF handleJoinBinary, resolveAgentBinary
<1>7. CASE InlineStage("stageGuard", "guard", "guard")
  BY <1>1, <1>7, TransferKeeps
<1>8. CASE InlineStage("stageCA", "ca", "ca")
  BY <1>1, <1>8, TransferKeeps
<1>9. CASE InlineStage("stagePolicy", "policy", spec.policy)
  BY <1>1, <1>9, TransferKeeps
<1> QED  BY <1>2, <1>3, <1>4, <1>5, <1>6, <1>7, <1>8, <1>9 DEF stageFiles

\* The lines that check something, or only restart the agent.
LEMMA CheckingKeeps ==
  ASSUME ScriptInv, binGate \/ hostGuard \/ restart \/ done
  PROVE  ScriptInv'
<1>1. UNCHANGED <<newest, policies, elevToken, files, staged>>
  BY DEF binGate, hostGuard, restart, done, serverVars
<1>2. staged' \in [{"bin", "ca", "noSha", "policy", "guard"} -> Contents]
  BY <1>1 DEF ScriptInv, InstallTypes
<1>3. CASE done
  <2>1. files' \in [FileNames -> Contents] /\ NothingBad' /\ EnvIsBacked'
    BY <1>1 DEF ScriptInv, InstallTypes, NothingBad, EnvIsBacked
  <2> QED  BY <1>1, <1>2, <1>3, <2>1, StopKeeps DEF done, Line
<1>4. CASE Line("binGate") /\ Passes(staged["bin"] = spec.bin)
  <2>1. Goes => staged["bin"] = spec.bin
    BY <1>4 DEF Passes, Goes, Aborts, Line
  <2> QED  BY <1>1, <1>2, <1>4, <2>1, QuietLineKeeps DEF Passes
<1>5. CASE Line("hostGuard") /\ (Goes \/ Aborts)
  BY <1>1, <1>2, <1>5, QuietLineKeeps
<1>6. CASE Line("hasBinary") /\ (Goes \/ Aborts)
  BY <1>1, <1>2, <1>6, QuietLineKeeps
<1>7. CASE Line("restart") /\ Goes
  BY <1>1, <1>2, <1>7, QuietLineKeeps
<1> QED  BY <1>3, <1>4, <1>5, <1>6, <1>7 DEF binGate, hostGuard, restart, Passes

\* A line that puts a sound file in place.
LEMMA PutLineKeeps ==
  ASSUME ScriptInv, NEW l, Line(l), Goes, UNCHANGED <<newest, policies, elevToken, staged>>,
         NEW f \in FileNames \ {"envTls", "envElevate"}, NEW c \in Contents, Put(f, c),
         f # "guard" => c # "bad", f \in {"ca", "policy", "sudoers"} => c # None,
         l # "binGate", IF l = "binary" THEN f = "bin" /\ c = staged["bin"] ELSE f # "bin",
         l = "caGate" => f = "ca", l \in {"policyGate", "policyFile"} => f = "policy",
         l = "sudoers" => f = "sudoers"
  PROVE  ScriptInv'
<1>1. /\ files' \in [FileNames -> Contents] /\ NothingBad' /\ EnvIsBacked'
      /\ files'[f] = c /\ \A g \in FileNames \ {f} : files'[g] = files[g]
  BY PutKeeps
<1>2. staged' \in [{"bin", "ca", "noSha", "policy", "guard"} -> Contents] /\ staged'["bin"] = staged["bin"]
  BY DEF ScriptInv, InstallTypes
<1>3. {"bin", "ca", "policy", "sudoers"} \subseteq FileNames
  BY DEF FileNames
<1>4. files'["bin"] = IF l = "binary" THEN staged["bin"] ELSE files["bin"]
  BY <1>1, <1>3
<1>5. /\ files["ca"] # None => files'["ca"] # None
      /\ files["policy"] # None => files'["policy"] # None
      /\ files["sudoers"] # None => files'["sudoers"] # None
  BY <1>1, <1>3
<1>6. /\ l = "caGate" => files'["ca"] # None
      /\ l \in {"policyGate", "policyFile"} => files'["policy"] # None
      /\ l = "sudoers" => files'["sudoers"] # None
  BY <1>1
<1> QED  BY <1>1, <1>2, <1>4, <1>5, <1>6, GoesKeeps

\* The line of the binary installs what the gate has verified, and that of
\* agent.env names what is in place.
LEMMA PlacingKeeps ==
  ASSUME ScriptInv, placeFiles \/ wipe
  PROVE  ScriptInv'
<1>0. /\ files \in [FileNames -> Contents] /\ spec \in ScriptSpecs
      /\ staged \in [{"bin", "ca", "noSha", "policy", "guard"} -> Contents]
      /\ {"dir", "unit", "yes", None} \subseteq Contents
      /\ {"bin", "guard", "etc", "unit", "env", "envTls", "envElevate", "ca", "policy", "sudoers"} \subseteq FileNames
  BY DEF ScriptInv, InstallTypes, Contents, FileNames, None
<1>1. Goes /\ UNCHANGED <<newest, policies, elevToken, staged>>
  BY DEF placeFiles, wipe, serverVars
<1>2. CASE Line("binary") /\ Put("bin", staged["bin"])
  <2>1. staged["bin"] = spec.bin
    <3>1. "binary" \in ToRun /\ "binGate" \notin ToRun
      BY <1>1, <1>2, LineTaken DEF MustPrecede
    <3> QED  BY <3>1 DEF ScriptInv, BinaryIsGated
  <2>2. spec.bin # "bad"
    BY <1>0, InstallAssumption DEF ScriptSpecs, None
  <2> QED  BY <1>0, <1>1, <1>2, <2>1, <2>2, PutLineKeeps
<1>3. CASE Line("guard") /\ Put("guard", staged["guard"])
  BY <1>0, <1>1, <1>3, PutLineKeeps
<1>4. CASE Line("etc") /\ Put("etc", "dir")
  BY <1>0, <1>1, <1>4, PutLineKeeps
<1>5. CASE Line("unit") /\ Put("unit", "unit")
  BY <1>0, <1>1, <1>5, PutLineKeeps
<1>6. CASE Line("env") /\ files' = agentEnvExtras
  <2>1. spec.policy \in InstPolicies \cup {None} /\ spec.tls \in BOOLEAN
    BY <1>0 DEF ScriptSpecs
  <2>2. spec.policy \in Contents /\ spec.policy # "bad"
    BY <2>1, InstallAssumption DEF Contents, None
  <2>3. /\ files' \in [FileNames -> Contents]
        /\ files'["env"] = "yes" /\ files'["envTls"] = (IF spec.tls THEN "yes" ELSE None)
        /\ files'["envElevate"] = spec.policy
        /\ \A g \in FileNames \ {"env", "envTls", "envElevate"} : files'[g] = files[g]
    BY <1>0, <1>6, <2>2 DEF agentEnvExtras
  <2>4. NothingBad'
    BY <1>0, <2>2, <2>3 DEF ScriptInv, NothingBad, None
  <2>5. /\ "env" \in ToRun /\ "caGate" \notin ToRun /\ "policyGate" \notin ToRun /\ "sudoers" \notin ToRun
    BY <1>1, <1>6, LineTaken DEF MustPrecede
  <2>6. /\ spec.tls => files["ca"] # None
        /\ spec.policy # None => files["policy"] # None /\ files["sudoers"] # None
    BY <2>5 DEF ScriptInv, CaIsFirst, PolicyIsFirst
  <2>7. EnvIsBacked'
    BY <1>0, <2>1, <2>3, <2>6 DEF EnvIsBacked, None
  <2>8. /\ files'["bin"] = files["bin"] /\ files'["ca"] = files["ca"]
        /\ files'["policy"] = files["policy"] /\ files'["sudoers"] = files["sudoers"]
    BY <1>0, <2>3
  <2>9. staged' \in [{"bin", "ca", "noSha", "policy", "guard"} -> Contents] /\ staged'["bin"] = staged["bin"]
    BY <1>0, <1>1
  <2> QED  BY <1>1, <1>6, <2>3, <2>4, <2>7, <2>8, <2>9, GoesKeeps
<1>7. CASE wipe
  <2>1. Line("wipe") /\ files' = [files EXCEPT !["env"] = None, !["envTls"] = None, !["envElevate"] = None]
    BY <1>7 DEF wipe
  <2>2. /\ files' \in [FileNames -> Contents]
        /\ files'["env"] = None /\ files'["envTls"] = None /\ files'["envElevate"] = None
        /\ \A g \in FileNames \ {"env", "envTls", "envElevate"} : files'[g] = files[g]
    BY <1>0, <2>1
  <2>3. NothingBad' /\ EnvIsBacked'
    BY <1>0, <2>2 DEF ScriptInv, NothingBad, EnvIsBacked, None
  <2>4. /\ files'["bin"] = files["bin"] /\ files'["ca"] = files["ca"]
        /\ files'["policy"] = files["policy"] /\ files'["sudoers"] = files["sudoers"]
    BY <1>0, <2>2
  <2>5. staged' \in [{"bin", "ca", "noSha", "policy", "guard"} -> Contents] /\ staged'["bin"] = staged["bin"]
    BY <1>0, <1>1
  <2> QED  BY <1>1, <2>1, <2>2, <2>3, <2>4, <2>5, GoesKeeps
<1> QED  BY <1>2, <1>3, <1>4, <1>5, <1>6, <1>7 DEF placeFiles

\* A line that fails ends the script and leaves the host as it is.
LEMMA FailingKeeps ==
  ASSUME ScriptInv, NEW l, Line(l), Aborts, UNCHANGED <<newest, policies, elevToken, files, staged>>
  PROVE  ScriptInv'
<1>1. files' \in [FileNames -> Contents] /\ NothingBad' /\ EnvIsBacked'
  BY DEF ScriptInv, InstallTypes, NothingBad, EnvIsBacked
<1>2. staged' \in [{"bin", "ca", "noSha", "policy", "guard"} -> Contents]
  BY DEF ScriptInv, InstallTypes
<1> QED  BY <1>1, <1>2, StopKeeps DEF Aborts, Line

\* The lines that put in place what agent.env names, each from what was
\* verified or is in place by then, and the one of the bootstrap that names it.
LEMMA BackingKeeps ==
  ASSUME ScriptInv, caGate \/ policyGate \/ policyFile \/ sudoers \/ elevateEnv \/ pub
  PROVE  ScriptInv'
<1>0. /\ files \in [FileNames -> Contents] /\ spec \in ScriptSpecs
      /\ staged \in [{"bin", "ca", "noSha", "policy", "guard"} -> Contents]
      /\ {"ca", "pub"} \subseteq Contents
      /\ {"bin", "env", "envTls", "envElevate", "ca", "policy", "sudoers", "pub"} \subseteq FileNames
  BY DEF ScriptInv, InstallTypes, Contents, FileNames
<1>1. UNCHANGED <<newest, policies, elevToken, staged>>
  BY DEF caGate, policyGate, policyFile, sudoers, elevateEnv, pub, serverVars
<1>2. spec.policy \in Contents /\ spec.policy # "bad"
  <2>1. spec.policy \in InstPolicies \cup {None}
    BY <1>0 DEF ScriptSpecs
  <2> QED  BY <2>1, InstallAssumption DEF Contents, None
<1>3. CASE caGate
  <2>1. CASE Line("caGate") /\ Goes /\ Put("ca", "ca")
    BY <1>0, <1>1, <2>1, PutLineKeeps DEF None
  <2>2. CASE Line("caGate") /\ Aborts /\ UNCHANGED files
    BY <1>1, <2>2, FailingKeeps
  <2> QED  BY <1>3, <2>1, <2>2 DEF caGate, Passes
<1>4. CASE policyGate
  <2>1. CASE Line("policyGate") /\ Goes /\ Put("policy", spec.policy)
    <3>1. "policyGate" \in ToRun
      BY <2>1, LineTaken
    <3>2. spec.policy # None
      BY <3>1 DEF ScriptInv, PolicyIsFirst
    <3> QED  BY <1>0, <1>1, <1>2, <2>1, <3>2, PutLineKeeps
  <2>2. CASE Line("policyGate") /\ Aborts /\ UNCHANGED files
    BY <1>1, <2>2, FailingKeeps
  <2> QED  BY <1>4, <2>1, <2>2 DEF policyGate, Passes
<1>5. CASE policyFile
  <2>1. Line("policyFile") /\ Goes /\ Put("policy", spec.policy)
    BY <1>5 DEF policyFile
  <2>2. "policyFile" \in ToRun
    BY <2>1, LineTaken
  <2>3. spec.policy # None
    BY <2>2 DEF ScriptInv, PolicyIsFirst
  <2> QED  BY <1>0, <1>1, <1>2, <2>1, <2>3, PutLineKeeps
<1>6. CASE sudoers
  <2>1. CASE Line("sudoers") /\ Goes /\ Put("sudoers", files["policy"])
    <3>1. "sudoers" \in ToRun /\ "policyGate" \notin ToRun /\ "policyFile" \notin ToRun
      BY <2>1, LineTaken DEF MustPrecede
    <3>2. files["policy"] # None
      BY <3>1 DEF ScriptInv, PolicyIsFirst
    <3>3. files["policy"] # "bad" /\ files["policy"] \in Contents
      BY <1>0 DEF ScriptInv, NothingBad
    <3> QED  BY <1>0, <1>1, <2>1, <3>2, <3>3, PutLineKeeps
  <2>2. CASE Line("sudoers") /\ Aborts /\ UNCHANGED files
    BY <1>1, <2>2, FailingKeeps
  <2> QED  BY <1>6, <2>1, <2>2 DEF sudoers
<1>7. CASE elevateEnv
  <2>1. CASE Line("elevateEnv") /\ Goes /\ Put("envElevate", spec.policy)
    <3>1. /\ files' \in [FileNames -> Contents] /\ files'["envElevate"] = spec.policy
          /\ \A g \in FileNames \ {"envElevate"} : files'[g] = files[g]
      BY <1>0, <1>2, <2>1 DEF Put
    <3>2. NothingBad'
      BY <1>2, <3>1 DEF ScriptInv, NothingBad
    <3>3. "elevateEnv" \in ToRun /\ "policyFile" \notin ToRun /\ "sudoers" \notin ToRun
      BY <2>1, LineTaken DEF MustPrecede
    <3>4. files["policy"] # None /\ files["sudoers"] # None
      BY <3>3 DEF ScriptInv, PolicyIsFirst
    <3>5. EnvIsBacked'
      BY <1>0, <3>1, <3>4 DEF ScriptInv, EnvIsBacked
    <3>6. /\ files'["bin"] = files["bin"] /\ files'["ca"] = files["ca"]
          /\ files'["policy"] = files["policy"] /\ files'["sudoers"] = files["sudoers"]
      BY <1>0, <3>1
    <3>7. staged' \in [{"bin", "ca", "noSha", "policy", "guard"} -> Contents] /\ staged'["bin"] = staged["bin"]
      BY <1>0, <1>1
    <3> QED  BY <1>1, <2>1, <3>1, <3>2, <3>5, <3>6, <3>7, GoesKeeps
  <2>2. CASE Line("elevateEnv") /\ Aborts /\ UNCHANGED files
    BY <1>1, <2>2, FailingKeeps
  <2> QED  BY <1>7, <2>1, <2>2 DEF elevateEnv, Passes
<1>8. CASE pub
  <2>1. CASE Line("pub") /\ Goes /\ Put("pub", "pub")
    BY <1>0, <1>1, <2>1, PutLineKeeps
  <2>2. CASE Line("pub") /\ Aborts /\ UNCHANGED files
    BY <1>1, <2>2, FailingKeeps
  <2> QED  BY <1>8, <2>1, <2>2 DEF pub, Passes
<1> QED  BY <1>3, <1>4, <1>5, <1>6, <1>7, <1>8

\* Every line of the three scripts keeps the invariant.
LEMMA LinesKeep == ScriptInv /\ Lines => ScriptInv'
<1> SUFFICES ASSUME ScriptInv, Lines PROVE ScriptInv'
  OBVIOUS
<1>1. CASE copyBin \/ copyCA \/ copyGuard \/ copyPolicy \/ handleJoinBinary \/ stageFiles
  BY <1>1, StagingKeeps
<1>2. CASE binGate \/ hostGuard \/ restart \/ done
  BY <1>2, CheckingKeeps
<1>3. CASE placeFiles \/ wipe
  BY <1>3, PlacingKeeps
<1>4. CASE caGate \/ policyGate \/ policyFile \/ sudoers \/ elevateEnv \/ pub
  BY <1>4, BackingKeeps
<1> QED  BY <1>1, <1>2, <1>3, <1>4 DEF Lines

\* A host that no script has run on satisfies the invariant.
LEMMA ScriptStart == InstallInit => ScriptInv
<1> SUFFICES ASSUME InstallInit PROVE ScriptInv
  OBVIOUS
<1>1. spec \in ScriptSpecs
  BY DEF InstallInit, NoSpec, ScriptSpecs
<1>2. script = <<>> /\ ToRun = {} /\ Ordered(script) /\ script \in Seq(ScriptLines)
  BY DEF InstallInit, ToRun, LinesOf, Ordered
<1>3. \A f \in FileNames : files[f] = None
  BY DEF InstallInit
<1>4. files \in [FileNames -> Contents]
  BY DEF InstallInit, Contents, None
<1>5. staged \in [{"bin", "ca", "noSha", "policy", "guard"} -> Contents]
  BY DEF InstallInit, Contents, None
<1>6. InstallTypes
  BY <1>1, <1>2, <1>4, <1>5 DEF InstallInit, InstallTypes
<1>7. NothingBad /\ EnvIsBacked
  BY <1>3 DEF NothingBad, EnvIsBacked, FileNames, None
<1> QED  BY <1>2, <1>6, <1>7 DEF ScriptInv, BinaryIsGated, CaIsFirst, PolicyIsFirst

\* Wherever an install script stops, the files it placed were verified and
\* agent.env names only what is there (buildInstallScript, the sha256 gates).
THEOREM InstallsAreVerified == InstallSpec => []InstallInv
<1>1. InstallInit => ScriptInv
  BY ScriptStart
<1>2. ScriptInv /\ [InstallNext]_installVars => ScriptInv'
  <2> SUFFICES ASSUME ScriptInv, [InstallNext]_installVars PROVE ScriptInv'
    OBVIOUS
  <2>1. CASE Lines
    BY <2>1, LinesKeep
  <2>2. CASE InstallNext /\ ~ Lines
    BY <2>2, OperatorKeeps DEF InstallNext
  <2>3. CASE UNCHANGED installVars
    BY <2>3, OperatorKeeps
  <2> QED  BY <2>1, <2>2, <2>3
<1>3. ScriptInv => InstallInv
  <2> SUFFICES ASSUME ScriptInv PROVE InstallInv
    OBVIOUS
  <2>1. ASSUME script # <<>>, Head(script) = "guard" PROVE files["bin"] = spec.bin
    <3>1. script \in Seq(ScriptLines) /\ 1 \in DOMAIN script /\ script[1] = "guard"
      BY <2>1 DEF ScriptInv, InstallTypes
    <3>2. \A i \in DOMAIN script : i = 1 \/ 1 < i
      BY <3>1
    <3>3. "guard" \in ToRun
      BY <3>1 DEF ToRun, LinesOf
    <3>4. "binary" \notin ToRun
      BY <3>1, <3>2 DEF ScriptInv, Ordered, MustPrecede, ToRun, LinesOf
    <3> QED  BY <3>3, <3>4 DEF ScriptInv, BinaryIsGated
  <2> QED  BY <2>1 DEF ScriptInv, NothingBad, InstallInv, NothingUnverified
<1> QED  BY <1>1, <1>2, <1>3, PTL DEF InstallSpec

-----------------------------------------------------------------------------
(* Rollouts. *)

-----------------------------------------------------------------------------
(* The inductive invariant. *)

RunStates == {"none", "draft", "pending", "canary", "rolling", "paused_failure"} \cup RunTerminal
RowStates == {"none", "queued"} \cup InFlightHost \cup HostTerminal
Rows      == [Fleet -> RowStates]
Runs      == [status : RunStates, cohort : SUBSET Fleet, params : BOOLEAN]
Drivers   == [pc : {"off", "idle", "step"}, stop : BOOLEAN,
              snap : [status : RunStates, rows : Rows]]

TypeInv ==
  /\ run \in Runs /\ urow \in Rows /\ release \in BOOLEAN
  /\ driver \in [Loops -> Drivers] /\ loops \in Loops \cup {"none"}
  /\ online \subseteq Fleet /\ memq \subseteq Fleet /\ durable \subseteq Fleet
  /\ working \subseteq Fleet /\ restarts \in 0..MaxRestarts /\ wasAborted \in BOOLEAN

Ticking(l) == driver[l].pc = "step"

\* A host with a directive anywhere has left the queue, and none returns to it:
\* a tick's snapshot is never behind the queue.
QueueIsLeft ==
  /\ run.status = "none" => loops = "none" /\ \A l \in Loops : driver[l] = Idle
  /\ run.status = "none" => durable = {} /\ working = {} /\ memq = {} /\ ~wasAborted
  /\ run.status # "none" => \A h \in Fleet : urow[h] # "none"
  /\ \A h \in working \cup memq \cup durable : urow[h] # "queued"
  /\ \A l \in Loops : Ticking(l) =>
       \A h \in Fleet : /\ driver[l].snap.rows[h] # "none"
                        /\ urow[h] = "queued" => driver[l].snap.rows[h] = "queued"

\* Until an operator aborts there is one goroutine, the registered one, and it
\* drives an active run.
OneLoop ==
  /\ \A l \in Loops : ~driver[l].stop /\ (driver[l].pc # "off" <=> loops = l)
  /\ run.status \in {"canary", "rolling"} => loops # "none"

\* A host its snapshot has as verified or skipped is still so; an ended run has
\* no tick in flight.
SnapshotHolds ==
  /\ \A l \in Loops : Ticking(l) =>
       /\ run.status \notin RunTerminal
       /\ \A h \in Fleet : driver[l].snap.rows[h] \in {"verified", "skipped"} =>
            urow[h] = driver[l].snap.rows[h]
  /\ run.status = "completed" => \A h \in Fleet : urow[h] \in {"verified", "skipped"}

Before == {"draft", "pending", "canary"}
Waves  == {"rolling", "paused_failure"}

\* Before the waves no host outside the cohort has left the queue; in them no
\* canary is in it.
CohortFirst ==
  /\ run.status \in Before =>
       /\ \A h \in Fleet \ run.cohort : urow[h] \in {"queued", "skipped"}
       /\ \A l \in Loops : Ticking(l) =>
            /\ driver[l].snap.status \in Before
            /\ \A h \in Fleet \ run.cohort : driver[l].snap.rows[h] \in {"queued", "skipped"}
  /\ run.params /\ run.status \in Waves => \A c \in run.cohort : urow[c] # "queued"
  /\ run.params => \A l \in Loops : Ticking(l) /\ driver[l].snap.status \in Waves =>
       \A c \in run.cohort : driver[l].snap.rows[c] # "queued"

RollInv ==
  /\ TypeInv /\ QueueIsLeft /\ DurableIsInFlight
  /\ wasAborted => \A h \in Fleet : urow[h] # "queued"
  /\ ~wasAborted => OneLoop /\ SnapshotHolds /\ CohortFirst

-----------------------------------------------------------------------------
(* What the steps have in common. *)

\* No tick begins, and the ticks in flight keep their snapshots.
TicksKept ==
  \A l \in Loops : driver'[l].pc = "step" => Ticking(l) /\ driver'[l].snap = driver[l].snap

NoTicks == \A l \in Loops : driver'[l].pc # "step"

\* No host returns to the queue or loses its row.
RowsAdvance ==
  /\ urow' \in Rows
  /\ \A h \in Fleet : /\ urow'[h] = "queued" => urow[h] = "queued"
                      /\ urow[h] # "none" => urow'[h] # "none"

\* A host that is verified or skipped stays so.
SettledKept ==
  \A h \in Fleet : urow[h] \in {"verified", "skipped"} => urow'[h] = urow[h]

OneGoroutine == \A l \in Loops : ~driver[l].stop /\ (driver[l].pc # "off" <=> loops = l)

\* A snapshot of nothing is of its type.
LEMMA IdleType ==
  /\ NoSnapshot \in [status : RunStates, rows : Rows]
  /\ Idle \in Drivers /\ [Idle EXCEPT !.pc = "idle"] \in Drivers
  /\ Idle.pc = "off" /\ Idle.stop = FALSE
  /\ [Idle EXCEPT !.pc = "idle"].pc = "idle" /\ [Idle EXCEPT !.pc = "idle"].stop = FALSE
<1>1. NoSnapshot \in [status : RunStates, rows : Rows]
  BY DEF NoSnapshot, RunStates, Rows, RowStates
<1> QED  BY <1>1 DEF Idle, Drivers

\* The statuses of a set of hosts are replaced.
LEMMA SetRows ==
  ASSUME NEW rows \in Rows, NEW H \in SUBSET Fleet, NEW s \in RowStates
  PROVE  /\ SetUpdateHostStatus(rows, H, s) \in Rows
         /\ \A h \in Fleet : SetUpdateHostStatus(rows, H, s)[h] = IF h \in H THEN s ELSE rows[h]
  BY DEF SetUpdateHostStatus, Rows

\* ensureLoop registers a goroutine, the only one when the others are gone.
LEMMA EnsureLoop ==
  ASSUME TypeInv, ensureLoop
  PROVE  /\ driver' \in [Loops -> Drivers] /\ loops' \in Loops
         /\ TicksKept
         /\ OneGoroutine => OneGoroutine'
<1>1. CASE loops # "none"
  BY <1>1 DEF ensureLoop, TypeInv, TicksKept, Ticking, OneGoroutine
<1>2. CASE loops = "none"
  <2> DEFINE new == [Idle EXCEPT !.pc = "idle"]
  <2>1. PICK l \in Loops : driver' = [driver EXCEPT ![l] = new] /\ loops' = l
    BY <1>2 DEF ensureLoop
  <2>2. new \in Drivers /\ new.pc = "idle" /\ new.stop = FALSE
    BY IdleType
  <2> HIDE DEF new
  <2>3. driver' \in [Loops -> Drivers] /\ loops' \in Loops
    BY <2>1, <2>2 DEF TypeInv
  <2>4. \A k \in Loops : driver'[k] = IF k = l THEN new ELSE driver[k]
    BY <2>1 DEF TypeInv
  <2>5. TicksKept
    BY <2>2, <2>4 DEF TicksKept, Ticking
  <2>6. OneGoroutine => OneGoroutine'
    BY <1>2, <2>1, <2>2, <2>4 DEF OneGoroutine, Loops
  <2> QED  BY <2>3, <2>5, <2>6
<1> QED  BY <1>1, <1>2

\* stopLoop, and the deferred one of a goroutine that returns.
LEMMA StopLoop ==
  ASSUME TypeInv, loops' = "none",
         driver' = Stopped \/ \E l \in Loops : driver' = [Stopped EXCEPT ![l] = Idle]
  PROVE  driver' \in [Loops -> Drivers] /\ TicksKept
<1>1. Stopped \in [Loops -> Drivers]
  BY DEF Stopped, TypeInv, Drivers
<1>2. \A l \in Loops : Stopped[l].pc = driver[l].pc /\ Stopped[l].snap = driver[l].snap
  BY DEF Stopped, TypeInv, Drivers
<1>3. driver' \in [Loops -> Drivers]
  BY <1>1, IdleType
<1>4. \A l \in Loops : driver'[l].pc = "step" => driver'[l] = Stopped[l]
  BY <1>1, IdleType
<1> QED  BY <1>2, <1>3, <1>4 DEF TicksKept, Ticking

\* QueueIsLeft survives a step that begins no tick and queues no host.
LEMMA QueueStep ==
  ASSUME RollInv, TicksKept, RowsAdvance, run.status # "none", run'.status # "none",
         \A h \in working' \cup memq' \cup durable' : urow'[h] # "queued"
  PROVE  QueueIsLeft'
  BY DEF RollInv, TicksKept, RowsAdvance, QueueIsLeft, Ticking

\* SnapshotHolds survives a step that keeps settled hosts, or ends the tick.
LEMMA SnapshotStep ==
  ASSUME RollInv, ~wasAborted, TicksKept, NoTicks \/ SettledKept,
         NoTicks \/ run'.status \notin RunTerminal \/ run'.status = run.status,
         run'.status = "completed" =>
           (run.status = "completed" /\ SettledKept)
             \/ \A h \in Fleet : urow'[h] \in {"verified", "skipped"}
  PROVE  SnapshotHolds'
<1>1. SnapshotHolds
  BY DEF RollInv
<1>2. ASSUME NEW l \in Loops, driver'[l].pc = "step"
      PROVE  /\ run'.status \notin RunTerminal
             /\ \A h \in Fleet : driver'[l].snap.rows[h] \in {"verified", "skipped"} =>
                  urow'[h] = driver'[l].snap.rows[h]
  <2>1. Ticking(l) /\ driver'[l].snap = driver[l].snap /\ SettledKept
    BY <1>2 DEF TicksKept, NoTicks
  <2> QED  BY <1>1, <1>2, <2>1 DEF SnapshotHolds, SettledKept, NoTicks
<1>3. run'.status = "completed" => \A h \in Fleet : urow'[h] \in {"verified", "skipped"}
  BY <1>1 DEF SnapshotHolds, SettledKept
<1> QED  BY <1>2, <1>3 DEF SnapshotHolds, Ticking

\* CohortFirst survives a step that enters the waves with the cohort dispatched
\* and until then leaves the other hosts alone.
LEMMA CohortStep ==
  ASSUME RollInv, ~wasAborted, TicksKept, RowsAdvance,
         run'.cohort = run.cohort, run'.params = run.params,
         run'.status \in Before =>
           /\ run.status \in Before
           /\ \A h \in Fleet \ run.cohort : urow'[h] \in {"queued", "skipped"},
         run.params /\ run'.status \in Waves =>
           run.status \in Waves \/ \A c \in run.cohort : urow[c] # "queued"
  PROVE  CohortFirst'
<1>1. CohortFirst /\ run.cohort \subseteq Fleet
  BY DEF RollInv, TypeInv, Runs
<1>2. run'.status \in Before =>
        /\ \A h \in Fleet \ run'.cohort : urow'[h] \in {"queued", "skipped"}
        /\ \A l \in Loops : driver'[l].pc = "step" =>
             /\ driver'[l].snap.status \in Before
             /\ \A h \in Fleet \ run'.cohort : driver'[l].snap.rows[h] \in {"queued", "skipped"}
  BY <1>1 DEF CohortFirst, TicksKept
<1>3. run'.params /\ run'.status \in Waves => \A c \in run'.cohort : urow'[c] # "queued"
  BY <1>1 DEF CohortFirst, RowsAdvance
<1>4. run'.params => \A l \in Loops : driver'[l].pc = "step" /\ driver'[l].snap.status \in Waves =>
        \A c \in run'.cohort : driver'[l].snap.rows[c] # "queued"
  BY <1>1 DEF CohortFirst, TicksKept
<1> QED  BY <1>2, <1>3, <1>4 DEF CohortFirst, Ticking

-----------------------------------------------------------------------------
(* Streams, results and restarts. *)

\* Nothing of the run, its rows and its goroutines changes.
LEMMA QuietStep ==
  ASSUME RollInv, TypeInv', UNCHANGED <<run, urow, driver, loops, wasAborted>>,
         working' \cup memq' \cup durable' \subseteq working \cup memq \cup durable,
         durable' \subseteq durable, run.status = "none" => durable' = {} /\ working' = {} /\ memq' = {}
  PROVE  RollInv'
<1>1. QueueIsLeft' /\ DurableIsInFlight'
  BY DEF RollInv, QueueIsLeft, DurableIsInFlight, Ticking
<1>2. ~wasAborted' => OneLoop' /\ SnapshotHolds' /\ CohortFirst'
  BY DEF RollInv, OneLoop, SnapshotHolds, CohortFirst, Ticking
<1> QED  BY <1>1, <1>2 DEF RollInv

\* A stream breaks or comes back, a release is deleted, a stutter.
LEMMA StreamStep ==
  ASSUME RollInv,
         DeleteRelease \/ (\E h \in Fleet : Disconnect(h) \/ Reconnect(h)) \/ UNCHANGED rolloutVars
  PROVE  RollInv'
<1>1. TypeInv' /\ UNCHANGED <<run, urow, driver, loops, wasAborted>>
  BY DEF RollInv, TypeInv, DeleteRelease, Disconnect, Reconnect, rolloutVars
<1>2. /\ working' \cup memq' \cup durable' \subseteq working \cup memq \cup durable
      /\ durable' \subseteq durable
  BY DEF DeleteRelease, Disconnect, Reconnect, rolloutVars, deliverPendingUpdate
<1>3. run.status = "none" => durable' = {} /\ working' = {} /\ memq' = {}
  BY <1>2 DEF RollInv, QueueIsLeft
<1> QED  BY <1>1, <1>2, <1>3, QuietStep

\* A result moves the row of a host that is not finished, and retires its
\* durable directive unless the agent is only restarting.
LEMMA ResultStep ==
  ASSUME RollInv, NEW h \in Fleet, NEW phase \in {"failed", "swapped", "verified"},
         NEW lost \in BOOLEAN, OnResult(h, phase, lost)
  PROVE  RollInv'
<1> DEFINE moved == CASE phase = "failed" -> "failed_rollback" [] phase = "swapped" -> "restarting"
                      [] phase = "verified" -> "verified"
           applied == ~lost /\ ActiveUpdateHostFor(h)
<1>1. /\ h \in working
      /\ urow' = IF applied THEN [urow EXCEPT ![h] = moved] ELSE urow
      /\ durable' = IF applied /\ phase # "swapped" THEN durable \ {h} ELSE durable
      /\ working' = IF phase = "swapped" THEN working ELSE working \ {h}
      /\ UNCHANGED <<run, release, driver, loops, online, memq, restarts, wasAborted>>
  BY DEF OnResult
<1>2. /\ moved \in {"failed_rollback", "restarting", "verified"}
      /\ moved = "restarting" <=> phase = "swapped"
  OBVIOUS
<1>3. applied => urow[h] \notin HostTerminal \cup {"none"}
  BY DEF ActiveUpdateHostFor
<1> HIDE DEF moved, applied
<1>4. TypeInv /\ QueueIsLeft /\ DurableIsInFlight
  BY DEF RollInv
<1>5. \A k \in Fleet : urow'[k] = IF applied /\ k = h THEN moved ELSE urow[k]
  BY <1>1, <1>4 DEF TypeInv, Rows
<1>6. TypeInv'
  BY <1>1, <1>2, <1>4 DEF TypeInv, Rows, RowStates, HostTerminal, InFlightHost
<1>7. run.status # "none" /\ run' = run /\ urow[h] # "queued"
  BY <1>1, <1>4 DEF QueueIsLeft
<1>8. RowsAdvance /\ SettledKept /\ TicksKept
  BY <1>1, <1>2, <1>3, <1>5, <1>6, <1>7 DEF RowsAdvance, SettledKept, TicksKept, Ticking, TypeInv, HostTerminal
<1>9. \A k \in working' \cup memq' \cup durable' : urow'[k] # "queued"
  BY <1>1, <1>2, <1>4, <1>5 DEF QueueIsLeft, TypeInv
<1>10. QueueIsLeft'
  BY <1>7, <1>8, <1>9, QueueStep
<1>11. DurableIsInFlight'
  BY <1>1, <1>2, <1>4, <1>5 DEF DurableIsInFlight, InFlightHost, TypeInv
<1>12. wasAborted' => \A k \in Fleet : urow'[k] # "queued"
  BY <1>1, <1>8 DEF RollInv, RowsAdvance
<1>13. ASSUME ~wasAborted PROVE OneLoop' /\ SnapshotHolds' /\ CohortFirst'
  <2>1. OneLoop'
    BY <1>1, <1>13 DEF RollInv, OneLoop
  <2>2. SnapshotHolds'
    BY <1>7, <1>8, <1>13, SnapshotStep
  <2>3. run.status \in Before => \A k \in Fleet \ run.cohort : urow'[k] \in {"queued", "skipped"}
    BY <1>3, <1>5, <1>7, <1>13 DEF RollInv, CohortFirst, HostTerminal
  <2>4. CohortFirst'
    BY <1>7, <1>8, <1>13, <2>3, CohortStep
  <2> QED  BY <2>1, <2>2, <2>4
<1> QED  BY <1>1, <1>6, <1>10, <1>11, <1>12, <1>13 DEF RollInv

\* A new process has no tick in flight and one goroutine for an active run.
LEMMA RestartStep ==
  ASSUME RollInv, ServerRestart
  PROVE  RollInv'
<1>1. /\ UNCHANGED <<run, urow, release, durable, working, wasAborted>>
      /\ memq' = {} /\ online' = {} /\ restarts' = restarts + 1 /\ restarts < MaxRestarts
  BY DEF ServerRestart
<1> DEFINE new == [Idle EXCEPT !.pc = "idle"]
<1>2. \/ /\ run.status \in RunTerminal \cup {"none", "pending"}
         /\ driver' = [l \in Loops |-> Idle] /\ loops' = "none"
      \/ /\ run.status \notin RunTerminal \cup {"none", "pending"}
         /\ driver' = [l \in Loops |-> IF l = "a" THEN new ELSE Idle] /\ loops' = "a"
  BY DEF ServerRestart, ResumeAll
<1>3. /\ Idle \in Drivers /\ Idle.pc = "off" /\ Idle.stop = FALSE
      /\ new \in Drivers /\ new.pc = "idle" /\ new.stop = FALSE
  BY IdleType
<1> HIDE DEF new
<1>4. driver' \in [Loops -> Drivers] /\ loops' \in Loops \cup {"none"} /\ OneGoroutine' /\ NoTicks
  BY <1>2, <1>3 DEF Loops, OneGoroutine, NoTicks
<1>5. TypeInv'
  BY <1>1, <1>4, RolloutAssumption DEF RollInv, TypeInv
<1>6. TicksKept /\ RowsAdvance /\ SettledKept
  BY <1>1, <1>4, <1>5 DEF TicksKept, NoTicks, RowsAdvance, SettledKept, TypeInv
<1>7. QueueIsLeft'
  <2>1. CASE run.status = "none"
    BY <1>1, <1>2, <1>4, <2>1 DEF RollInv, QueueIsLeft, NoTicks, Ticking
  <2>2. CASE run.status # "none"
    BY <1>1, <1>6, <2>2, QueueStep DEF RollInv, QueueIsLeft
  <2> QED  BY <2>1, <2>2
<1>8. DurableIsInFlight'
  BY <1>1 DEF RollInv, DurableIsInFlight
<1>9. ASSUME ~wasAborted PROVE OneLoop' /\ SnapshotHolds' /\ CohortFirst'
  <2>1. OneLoop'
    BY <1>1, <1>2, <1>4 DEF OneLoop, OneGoroutine, RunTerminal
  <2>2. SnapshotHolds'
    BY <1>1, <1>4, <1>6, <1>9, SnapshotStep
  <2>3. CohortFirst'
    BY <1>1, <1>6, <1>9, CohortStep DEF RollInv, CohortFirst
  <2> QED  BY <2>1, <2>2, <2>3
<1> QED  BY <1>1, <1>5, <1>7, <1>8, <1>9 DEF RollInv

-----------------------------------------------------------------------------
(* The operator. *)

\* A step that touches only hosts which are not settled, and either leaves the
\* goroutines alone or ensures one.
LEMMA OperatorStep ==
  ASSUME RollInv, TypeInv', RowsAdvance, SettledKept, TicksKept, DurableIsInFlight',
         run.status # "none", run'.cohort = run.cohort, run'.params = run.params,
         run'.status \notin RunTerminal \cup {"none"}, wasAborted' = wasAborted,
         \A h \in working' \cup memq' \cup durable' : urow'[h] # "queued",
         OneGoroutine => OneGoroutine',
         run'.status \in {"canary", "rolling"} => loops' # "none",
         ~wasAborted /\ run'.status \in Before =>
           /\ run.status \in Before
           /\ \A h \in Fleet \ run.cohort : urow'[h] \in {"queued", "skipped"},
         ~wasAborted /\ run.params /\ run'.status \in Waves =>
           run.status \in Waves \/ \A c \in run.cohort : urow[c] # "queued"
  PROVE  RollInv'
<1>1. QueueIsLeft'
  BY QueueStep
<1>2. wasAborted' => \A h \in Fleet : urow'[h] # "queued"
  BY DEF RollInv, RowsAdvance
<1>3. ASSUME ~wasAborted PROVE OneLoop' /\ SnapshotHolds' /\ CohortFirst'
  <2>1. OneLoop'
    BY <1>3 DEF RollInv, OneLoop, OneGoroutine
  <2>2. SnapshotHolds'
    BY <1>3, SnapshotStep DEF RunTerminal
  <2>3. CohortFirst'
    BY <1>3, CohortStep
  <2> QED  BY <2>1, <2>2, <2>3
<1> QED  BY <1>1, <1>2, <1>3 DEF RollInv

\* Start of a draft: the hosts denied now are skipped.
LEMMA StartStep ==
  ASSUME RollInv, NEW effect \in Effects3, Start(effect)
  PROVE  RollInv'
<1> DEFINE queued == {h \in Fleet : urow[h] = "queued"}
           denied == {h \in queued : effect[h] = "deny"}
           asks == \E h \in queued : effect[h] = "require_approval"
           next == IF asks THEN "pending" ELSE IF run.cohort # {} THEN "canary" ELSE "rolling"
<1>1. /\ run.status = "draft"
      /\ urow' = SetUpdateHostStatus(urow, denied, "skipped")
      /\ durable' = durable \ denied
      /\ run' = [run EXCEPT !.status = next]
      /\ IF asks THEN UNCHANGED <<driver, loops>> ELSE ensureLoop
      /\ UNCHANGED <<release, online, memq, working, restarts, wasAborted>>
  BY DEF Start, clearPending
<1>2. /\ next \in {"pending", "canary", "rolling"} /\ (next = "rolling" => run.cohort = {})
      /\ next \in {"canary", "rolling"} => ~asks
  OBVIOUS
<1>3. denied \subseteq Fleet /\ \A h \in denied : urow[h] = "queued"
  OBVIOUS
<1> HIDE DEF denied, asks, next
<1>4. TypeInv /\ QueueIsLeft /\ DurableIsInFlight
  BY DEF RollInv
<1>5. urow' \in Rows /\ \A h \in Fleet : urow'[h] = IF h \in denied THEN "skipped" ELSE urow[h]
  BY <1>1, <1>3, <1>4, SetRows DEF TypeInv, RowStates, HostTerminal
<1>6. /\ run'.status = next /\ run'.cohort = run.cohort /\ run'.params = run.params
      /\ run' \in Runs
  BY <1>1, <1>2, <1>4 DEF TypeInv, Runs, RunStates
<1>7. /\ driver' \in [Loops -> Drivers] /\ loops' \in Loops \cup {"none"} /\ TicksKept
      /\ OneGoroutine => OneGoroutine'
      /\ ~asks => loops' # "none"
  <2>1. CASE asks
    BY <1>1, <1>4, <2>1 DEF TypeInv, TicksKept, Ticking, OneGoroutine
  <2>2. CASE ~asks
    BY <1>1, <1>4, <2>2, EnsureLoop DEF Loops
  <2> QED  BY <2>1, <2>2
<1>8. TypeInv'
  BY <1>1, <1>4, <1>5, <1>6, <1>7 DEF TypeInv
<1>9. RowsAdvance /\ SettledKept
  BY <1>3, <1>5 DEF RowsAdvance, SettledKept
<1>10. \A h \in working' \cup memq' \cup durable' : urow'[h] # "queued"
  BY <1>1, <1>4, <1>5 DEF QueueIsLeft, TypeInv
<1>11. DurableIsInFlight'
  BY <1>1, <1>4, <1>5 DEF DurableIsInFlight, TypeInv
<1>12. ~wasAborted => \A h \in Fleet \ run.cohort : urow'[h] \in {"queued", "skipped"}
  BY <1>1, <1>5 DEF RollInv, CohortFirst, Before
<1> QED  BY <1>1, <1>2, <1>6, <1>7, <1>8, <1>9, <1>10, <1>11, <1>12, OperatorStep
         DEF RunTerminal, Before, Waves

\* An approved run skips its canary phase only without parameters or cohort.
LEMMA ApprovedStep ==
  ASSUME RollInv, DispatchApprovedRun
  PROVE  RollInv'
<1> DEFINE next == IF run.params /\ run.cohort # {} THEN "canary" ELSE "rolling"
<1>1. /\ run.status = "pending" /\ run' = [run EXCEPT !.status = next] /\ ensureLoop
      /\ UNCHANGED <<urow, release, online, memq, durable, working, restarts, wasAborted>>
  BY DEF DispatchApprovedRun
<1>2. next \in {"canary", "rolling"} /\ (next = "rolling" => ~run.params \/ run.cohort = {})
  OBVIOUS
<1> HIDE DEF next
<1>3. TypeInv /\ QueueIsLeft /\ DurableIsInFlight
  BY DEF RollInv
<1>4. /\ run'.status = next /\ run'.cohort = run.cohort /\ run'.params = run.params
      /\ run' \in Runs
  BY <1>1, <1>2, <1>3 DEF TypeInv, Runs, RunStates
<1>5. /\ driver' \in [Loops -> Drivers] /\ loops' \in Loops /\ TicksKept
      /\ OneGoroutine => OneGoroutine'
  BY <1>1, <1>3, EnsureLoop
<1>6. TypeInv' /\ loops' # "none"
  BY <1>1, <1>3, <1>4, <1>5 DEF TypeInv, Loops
<1>7. RowsAdvance /\ SettledKept /\ DurableIsInFlight'
      /\ \A h \in working' \cup memq' \cup durable' : urow'[h] # "queued"
  BY <1>1, <1>3 DEF RowsAdvance, SettledKept, DurableIsInFlight, QueueIsLeft, TypeInv
<1>8. ~wasAborted => \A h \in Fleet \ run.cohort : urow'[h] \in {"queued", "skipped"}
  BY <1>1 DEF RollInv, CohortFirst, Before
<1> QED  BY <1>1, <1>2, <1>4, <1>5, <1>6, <1>7, <1>8, OperatorStep
         DEF RunTerminal, Before, Waves

\* Retry and Skip move the hosts that failed, which are none but canaries until
\* the waves have begun: the gate cannot be retried away.
LEMMA RetrySkipStep ==
  ASSUME RollInv, Retry \/ Skip
  PROVE  RollInv'
<1> DEFINE failed == {h \in Fleet : urow[h] \in FailedHost}
<1>1. PICK s \in {"dispatching", "skipped"} :
        /\ urow' = SetUpdateHostStatus(urow, failed, s)
        /\ s = "skipped" => durable' = durable \ failed /\ memq' = memq /\ working' = working
        /\ s = "dispatching" => /\ durable' = durable \cup (failed \ online)
                                /\ memq' = memq \cup (failed \ online)
                                /\ working' = working \cup (failed \cap online)
  BY DEF Retry, Skip, dispatchHosts, QueueUpdateDirective, clearPending
<1>2. /\ run' = [run EXCEPT !.status = "rolling"] /\ ensureLoop
      /\ UNCHANGED <<release, online, restarts, wasAborted>>
      /\ run.status \in {"paused_failure", "rolling", "canary"}
      /\ failed # {} /\ (run.status = "canary" => failed \cap run.cohort = {})
  BY DEF Retry, Skip
<1>3. failed \subseteq Fleet /\ \A h \in failed : urow[h] \in {"failed_rollback", "timed_out"}
  BY DEF FailedHost
<1> HIDE DEF failed
<1>4. TypeInv /\ QueueIsLeft /\ DurableIsInFlight
  BY DEF RollInv
<1>5. urow' \in Rows /\ \A h \in Fleet : urow'[h] = IF h \in failed THEN s ELSE urow[h]
  BY <1>1, <1>3, <1>4, SetRows DEF TypeInv, RowStates, HostTerminal, InFlightHost
<1>6. /\ run'.status = "rolling" /\ run'.cohort = run.cohort /\ run'.params = run.params
      /\ run' \in Runs
  BY <1>2, <1>4 DEF TypeInv, Runs, RunStates
<1>7. /\ driver' \in [Loops -> Drivers] /\ loops' \in Loops /\ TicksKept
      /\ OneGoroutine => OneGoroutine'
  BY <1>2, <1>4, EnsureLoop
<1>8. durable' \subseteq Fleet /\ memq' \subseteq Fleet /\ working' \subseteq Fleet
  BY <1>1, <1>3, <1>4 DEF TypeInv
<1>9. TypeInv' /\ loops' # "none"
  BY <1>2, <1>4, <1>5, <1>6, <1>7, <1>8 DEF TypeInv, Loops
<1>10. RowsAdvance /\ SettledKept
  BY <1>3, <1>5 DEF RowsAdvance, SettledKept
<1>11. \A h \in working' \cup memq' \cup durable' :
         h \in failed \/ (h \in working \cup memq \cup durable /\ urow'[h] = urow[h])
  BY <1>1, <1>3, <1>4, <1>5 DEF TypeInv
<1>12. \A h \in working' \cup memq' \cup durable' : urow'[h] # "queued"
  BY <1>3, <1>4, <1>5, <1>11 DEF QueueIsLeft
<1>13. DurableIsInFlight'
  BY <1>1, <1>3, <1>4, <1>5 DEF DurableIsInFlight, InFlightHost, TypeInv
<1>14. ~wasAborted => run.status \in Waves
  BY <1>2, <1>3 DEF RollInv, CohortFirst, Before, Waves
<1> QED  BY <1>2, <1>6, <1>7, <1>9, <1>10, <1>12, <1>13, <1>14, OperatorStep
         DEF RunTerminal, Before

\* Abort takes every open host out of the queue, with its durable directive.
LEMMA AbortStep ==
  ASSUME RollInv, Abort
  PROVE  RollInv'
<1> DEFINE open == {h \in Fleet : urow[h] \notin HostTerminal}
<1>1. /\ run.status # "none" /\ run' = [run EXCEPT !.status = "aborted"]
      /\ urow' = SetUpdateHostStatus(urow, open, "skipped") /\ durable' = durable \ open
      /\ loops' = "none" /\ driver' = Stopped /\ wasAborted' = TRUE
      /\ UNCHANGED <<release, online, memq, working, restarts>>
  BY DEF Abort, clearPending, stopLoop
<1>2. open \subseteq Fleet /\ \A h \in Fleet \ open : urow[h] \in HostTerminal
  OBVIOUS
<1> HIDE DEF open
<1>3. TypeInv /\ QueueIsLeft /\ DurableIsInFlight
  BY DEF RollInv
<1>4. urow' \in Rows /\ \A h \in Fleet : urow'[h] = IF h \in open THEN "skipped" ELSE urow[h]
  BY <1>1, <1>2, <1>3, SetRows DEF TypeInv, RowStates, HostTerminal
<1>5. \A h \in Fleet : urow'[h] \in HostTerminal
  BY <1>2, <1>4 DEF HostTerminal
<1>6. driver' \in [Loops -> Drivers] /\ TicksKept
  BY <1>1, <1>3, StopLoop
<1>7. run' \in Runs /\ run'.status = "aborted"
  BY <1>1, <1>3 DEF TypeInv, Runs, RunStates, RunTerminal
<1>8. TypeInv'
  BY <1>1, <1>3, <1>4, <1>6, <1>7 DEF TypeInv
<1>9. RowsAdvance /\ \A h \in Fleet : urow'[h] # "queued"
  BY <1>4, <1>5 DEF RowsAdvance, HostTerminal
<1>10. QueueIsLeft'
  BY <1>1, <1>3, <1>6, <1>7, <1>8, <1>9, QueueStep DEF TypeInv
<1>11. DurableIsInFlight'
  BY <1>1, <1>2, <1>3 DEF DurableIsInFlight, TypeInv, InFlightHost, HostTerminal
<1> QED  BY <1>1, <1>8, <1>9, <1>10, <1>11 DEF RollInv

-----------------------------------------------------------------------------
(* Creation, and the driver. *)

\* A run is created with its hosts queued, the denied ones skipped.
LEMMA CreateStep ==
  ASSUME RollInv, NEW size \in 0..NumHosts, NEW effect \in Effects3, NEW park \in BOOLEAN,
         StartRun(size, effect, park)
  PROVE  RollInv'
<1> DEFINE cohort == FirstHosts(size)
           status == InitialStatus(cohort, effect, park)
<1>1. /\ run.status = "none" /\ urow' = AddUpdateHosts(effect)
      /\ run' = [status |-> status, cohort |-> cohort, params |-> ~park]
      /\ IF run'.status \in {"canary", "rolling"} THEN ensureLoop ELSE UNCHANGED <<driver, loops>>
      /\ UNCHANGED <<release, online, memq, durable, working, restarts, wasAborted>>
  BY DEF StartRun
<1>2. cohort \subseteq Fleet
  BY DEF FirstHosts
<1>3. status \in {"draft", "pending", "canary", "rolling"} /\ (status = "rolling" => cohort = {})
  BY DEF InitialStatus
<1> HIDE DEF cohort, status
<1>4. run' \in Runs /\ run'.status = status /\ run'.cohort = cohort
  BY <1>1, <1>2, <1>3 DEF Runs, RunStates
<1>5. urow' \in Rows /\ \A h \in Fleet : urow'[h] \in {"queued", "skipped"}
  BY <1>1 DEF AddUpdateHosts, Rows, RowStates, HostTerminal
<1>6. TypeInv /\ QueueIsLeft
  BY DEF RollInv
<1>7. /\ loops = "none" /\ durable = {} /\ working = {} /\ memq = {} /\ ~wasAborted
      /\ \A l \in Loops : driver[l].pc = "off"
  BY <1>1, <1>6, IdleType DEF QueueIsLeft
<1>8. OneGoroutine
  BY <1>7 DEF RollInv, OneLoop, OneGoroutine
<1>9. /\ driver' \in [Loops -> Drivers] /\ loops' \in Loops \cup {"none"} /\ TicksKept
      /\ OneGoroutine'
      /\ status \in {"canary", "rolling"} => loops' # "none"
  <2>1. CASE status \in {"canary", "rolling"}
    BY <1>1, <1>4, <1>6, <1>8, <2>1, EnsureLoop DEF Loops
  <2>2. CASE status \notin {"canary", "rolling"}
    BY <1>1, <1>4, <1>6, <1>8, <2>2 DEF TypeInv, TicksKept, Ticking, OneGoroutine
  <2> QED  BY <2>1, <2>2
<1>10. TypeInv'
  BY <1>1, <1>4, <1>5, <1>6, <1>9 DEF TypeInv
<1>11. NoTicks
  BY <1>7, <1>9 DEF NoTicks, TicksKept, Ticking
<1>12. QueueIsLeft' /\ DurableIsInFlight'
  BY <1>1, <1>3, <1>4, <1>5, <1>7, <1>11 DEF QueueIsLeft, DurableIsInFlight, Ticking, NoTicks
<1>13. OneLoop' /\ SnapshotHolds'
  BY <1>3, <1>4, <1>9, <1>11 DEF OneLoop, OneGoroutine, SnapshotHolds, NoTicks, Ticking
<1>14. CohortFirst'
  BY <1>3, <1>4, <1>5, <1>11 DEF CohortFirst, NoTicks, Ticking, Before, Waves
<1> QED  BY <1>1, <1>7, <1>10, <1>12, <1>13, <1>14 DEF RollInv

\* The read of a tick: its snapshot is what the store holds.
LEMMA ReadStep ==
  ASSUME RollInv, NEW l \in Loops, StepRead(l)
  PROVE  RollInv'
<1> DEFINE snap == [status |-> run.status, rows |-> urow]
<1>1. /\ driver[l].pc = "idle" /\ run.status \notin RunTerminal
      /\ driver' = [driver EXCEPT ![l].pc = "step", ![l].snap = snap]
      /\ UNCHANGED <<run, urow, release, loops, online, memq, durable, working, restarts, wasAborted>>
  BY DEF StepRead
<1>2. TypeInv /\ QueueIsLeft /\ DurableIsInFlight
  BY DEF RollInv
<1>3. snap \in [status : RunStates, rows : Rows] /\ snap.status = run.status /\ snap.rows = urow
  BY <1>2 DEF TypeInv, Runs
<1> HIDE DEF snap
<1>4. /\ driver' \in [Loops -> Drivers]
      /\ driver'[l].pc = "step" /\ driver'[l].snap = snap /\ driver'[l].stop = driver[l].stop
      /\ \A k \in Loops : k # l => driver'[k] = driver[k]
  BY <1>1, <1>2, <1>3 DEF TypeInv, Drivers
<1>5. run.status # "none"
  BY <1>1, <1>2, IdleType DEF QueueIsLeft
<1>6. TypeInv' /\ DurableIsInFlight'
  BY <1>1, <1>2, <1>4 DEF TypeInv, DurableIsInFlight
<1>7. QueueIsLeft'
  <2>1. ASSUME NEW k \in Loops, Ticking(k)', NEW h \in Fleet
        PROVE  /\ driver'[k].snap.rows[h] # "none"
               /\ urow'[h] = "queued" => driver'[k].snap.rows[h] = "queued"
    <3>1. CASE k = l
      BY <1>1, <1>2, <1>3, <1>4, <1>5, <3>1 DEF QueueIsLeft
    <3>2. CASE k # l
      BY <1>1, <1>2, <1>4, <2>1, <3>2 DEF QueueIsLeft, Ticking
    <3> QED  BY <3>1, <3>2
  <2> QED  BY <1>1, <1>2, <1>5, <2>1 DEF QueueIsLeft
<1>8. ASSUME ~wasAborted PROVE OneLoop' /\ SnapshotHolds' /\ CohortFirst'
  <2>1. OneLoop /\ SnapshotHolds /\ CohortFirst
    BY <1>8 DEF RollInv
  <2>2. OneLoop'
    BY <1>1, <1>4, <2>1 DEF OneLoop
  <2>3. \A k \in Loops : Ticking(k)' => k = l
    BY <1>1, <1>4, <2>1 DEF OneLoop, Ticking
  <2>4. SnapshotHolds'
    BY <1>1, <1>3, <1>4, <2>1, <2>3 DEF SnapshotHolds
  <2>5. CohortFirst'
    BY <1>1, <1>3, <1>4, <2>1, <2>3 DEF CohortFirst
  <2> QED  BY <2>2, <2>4, <2>5
<1> QED  BY <1>1, <1>6, <1>7, <1>8 DEF RollInv

\* The two ends of a tick: the goroutine waits for the next, or returns.
LEMMA TickEnds ==
  ASSUME RollInv, NEW l \in Loops, Ticking(l), TickDone(l) \/ LoopReturns(l)
  PROVE  /\ driver' \in [Loops -> Drivers] /\ loops' \in Loops \cup {"none"} /\ TicksKept
         /\ ~wasAborted => NoTicks /\ OneGoroutine'
         /\ TickDone(l) /\ ~wasAborted => loops' # "none"
<1>1. TypeInv
  BY DEF RollInv
<1>2. ~wasAborted => loops = l /\ OneGoroutine /\ loops # "none"
                     /\ \A k \in Loops : k # l => driver[k].pc = "off"
  BY DEF RollInv, OneLoop, OneGoroutine, Ticking, Loops
<1>3. CASE TickDone(l)
  <2>1. /\ driver' = [driver EXCEPT ![l].pc = "idle", ![l].snap = NoSnapshot] /\ loops' = loops
    BY <1>3 DEF TickDone
  <2>2. /\ driver' \in [Loops -> Drivers]
        /\ driver'[l].pc = "idle" /\ driver'[l].stop = driver[l].stop
        /\ \A k \in Loops : k # l => driver'[k] = driver[k]
    BY <1>1, <2>1, IdleType DEF TypeInv, Drivers
  <2>3. TicksKept
    BY <2>2 DEF TicksKept, Ticking
  <2>4. ~wasAborted => NoTicks /\ OneGoroutine'
    BY <1>2, <2>1, <2>2 DEF NoTicks, OneGoroutine
  <2> QED  BY <1>1, <1>2, <2>1, <2>2, <2>3, <2>4 DEF TypeInv
<1>4. CASE LoopReturns(l)
  <2>1. loops' = "none" /\ driver' = [Stopped EXCEPT ![l] = Idle]
    BY <1>4 DEF LoopReturns
  <2>2. driver' \in [Loops -> Drivers] /\ TicksKept
    BY <1>1, <2>1, StopLoop
  <2>3. ~wasAborted => \A k \in Loops : driver'[k] = IF k = l THEN Idle ELSE driver[k]
    BY <1>1, <1>2, <2>1 DEF Stopped, TypeInv
  <2>4. ~wasAborted => NoTicks /\ OneGoroutine'
    BY <1>2, <2>1, <2>3, IdleType DEF NoTicks, OneGoroutine, Loops
  <2>5. TickDone(l) /\ ~wasAborted => loops' # "none"
    BY <1>2, <2>1 DEF TickDone
  <2> QED  BY <2>1, <2>2, <2>4, <2>5
<1> QED  BY <1>3, <1>4

\* A stopped goroutine returns; there is none until an abort.
LEMMA ExitStep ==
  ASSUME RollInv, NEW l \in Loops, LoopExit(l)
  PROVE  RollInv'
<1>1. /\ driver[l].stop /\ loops' = "none" /\ driver' = [Stopped EXCEPT ![l] = Idle]
      /\ driver[l].pc = "idle"
      /\ UNCHANGED <<run, urow, release, online, memq, durable, working, restarts, wasAborted>>
  BY DEF LoopExit, LoopReturns
<1>2. wasAborted /\ TypeInv /\ QueueIsLeft /\ run.status # "none"
  BY <1>1, IdleType DEF RollInv, OneLoop, QueueIsLeft
<1>3. driver' \in [Loops -> Drivers] /\ TicksKept
  BY <1>1, <1>2, StopLoop
<1>4. TypeInv' /\ RowsAdvance
  BY <1>1, <1>2, <1>3 DEF TypeInv, RowsAdvance
<1>5. QueueIsLeft'
  BY <1>1, <1>2, <1>3, <1>4, QueueStep DEF QueueIsLeft
<1> QED  BY <1>1, <1>2, <1>4, <1>5 DEF RollInv, DurableIsInFlight

-----------------------------------------------------------------------------
(* The writes of a tick, decided on its snapshot. *)

SnapRows(l) == driver[l].snap.rows

\* What a tick of goroutine l writes: the silent hosts time out, then the hosts
\* H leave the queue.
TickWrites(l, silent, H) ==
  /\ urow' = SetUpdateHostStatus(SetUpdateHostStatus(urow, silent, "timed_out"), H, "dispatching")
  /\ durable' = (durable \ silent) \cup (H \ online)
  /\ working' = working \cup (H \cap online)
  /\ memq' = memq \cup (H \ online)

\* Outside the cohort a tick dispatches only in the waves, with no host of its
\* snapshot in flight or failed.
TickDispatches(l, H) ==
  \/ H = {}
  \/ driver[l].snap.status = "canary" /\ H \subseteq run.cohort
  \/ /\ driver[l].snap.status = "rolling"
     /\ RowsIn(SnapRows(l), InFlightHost) = {} /\ RowsIn(SnapRows(l), FailedHost) = {}

\* The statuses a tick moves the run to.
TickMoves(l, silent, H) ==
  \/ run' = run /\ TickDone(l)
  \/ SetUpdateRunStatus("failed")
  \/ /\ SetUpdateRunStatus("rolling") /\ TickDone(l) /\ driver[l].snap.status = "canary"
     /\ run.cohort \subseteq RowsIn(SnapRows(l), HostTerminal)
  \/ SetUpdateRunStatus("paused_failure") /\ TickDone(l) /\ driver[l].snap.status = "rolling"
  \/ /\ SetUpdateRunStatus("completed") /\ silent = {} /\ H = {}
     /\ RowsIn(SnapRows(l), InFlightHost) = {} /\ RowsIn(SnapRows(l), FailedHost) = {}
     /\ RowsIn(SnapRows(l), {"queued"}) = {}

\* Every branch of step() is one of these.
LEMMA TickCases ==
  ASSUME RollInv, NEW l \in Loops, NEW silent \in SUBSET Fleet, StepWrite(l, silent)
  PROVE  \E H \in SUBSET RowsIn(SnapRows(l), {"queued"}) :
           TickWrites(l, silent, H) /\ TickDispatches(l, H) /\ TickMoves(l, silent, H)
<1> DEFINE rows == SnapRows(l)
           queued == RowsIn(rows, {"queued"})
           wave == TakeFirst(waveSize(NumHosts, WavePct), queued)
<1>0. TypeInv
  BY DEF RollInv
<1>1. Sweep(silent) => TickWrites(l, silent, {})
  <2> SUFFICES ASSUME Sweep(silent) PROVE TickWrites(l, silent, {})
    OBVIOUS
  <2> DEFINE swept == SetUpdateHostStatus(urow, silent, "timed_out")
  <2>1. /\ urow' = swept /\ durable' = durable \ silent /\ UNCHANGED <<memq, working>>
    BY DEF Sweep, clearPending
  <2>2. swept = [h \in Fleet |-> swept[h]]
    BY DEF SetUpdateHostStatus
  <2> HIDE DEF swept
  <2>3. SetUpdateHostStatus(swept, {}, "dispatching") = swept
    BY <2>2 DEF SetUpdateHostStatus
  <2> QED  BY <2>1, <2>3 DEF TickWrites, swept
<1>2. \A H : SweepAndDispatch(silent, H) => TickWrites(l, silent, H)
  BY DEF SweepAndDispatch, dispatchHosts, QueueUpdateDirective, TickWrites
<1>3. /\ {} \in SUBSET queued /\ (queued \cap run.cohort) \in SUBSET queued
      /\ wave \in SUBSET queued
  BY DEF TakeFirst
<1>4. silent \subseteq RowsIn(rows, InFlightHost)
  BY DEF StepWrite, SnapRows
<1>5. CASE driver[l].snap.status = "canary" /\ CanaryStep(l, rows, silent)
  <2>1. CASE ~release
    <3>1. SetUpdateRunStatus("failed") /\ Sweep(silent)
      BY <1>5, <2>1 DEF CanaryStep, LoopFails
    <3> QED  BY <1>1, <1>3, <3>1 DEF TickDispatches, TickMoves
  <2>2. CASE release
    <3> DEFINE Q == queued \cap run.cohort
    <3>1. PICK H \in {{}, Q} : TickWrites(l, silent, H)
      BY <1>1, <1>2, <1>5, <2>2 DEF CanaryStep
    <3>2. TickMoves(l, silent, H)
      BY <1>5, <2>2 DEF CanaryStep, TickMoves
    <3>3. TickDispatches(l, H)
      BY <1>5 DEF TickDispatches
    <3> QED  BY <1>3, <3>1, <3>2, <3>3
  <2> QED  BY <1>0, <2>1, <2>2 DEF TypeInv
<1>6. CASE driver[l].snap.status = "rolling" /\ RollingStep(l, rows, silent)
  <2> DEFINE active == RowsIn(rows, InFlightHost)
             failed == RowsIn(rows, FailedHost)
  <2>1. CASE active # {} \/ failed # {} \/ queued = {}
    <3>1. Sweep(silent) /\ TickWrites(l, silent, {}) /\ TickDispatches(l, {})
      BY <1>1, <1>6, <2>1 DEF RollingStep, TickDispatches
    <3>2. CASE active # {} \/ failed # {}
      <4>1. TickDone(l) /\ (run' = run \/ SetUpdateRunStatus("paused_failure"))
        BY <1>6, <3>2 DEF RollingStep
      <4>2. TickMoves(l, silent, {})
        BY <1>6, <4>1 DEF TickMoves
      <4> QED  BY <1>3, <3>1, <4>2
    <3>3. CASE active = {} /\ failed = {} /\ queued = {}
      <4>1. SetUpdateRunStatus("completed") /\ silent = {}
        BY <1>4, <1>6, <3>3 DEF RollingStep
      <4>2. TickMoves(l, silent, {})
        BY <3>3, <4>1 DEF TickMoves
      <4> QED  BY <1>3, <3>1, <4>2
    <3> QED  BY <2>1, <3>2, <3>3
  <2>2. CASE active = {} /\ failed = {} /\ queued # {} /\ release
    <3>1. TickDone(l) /\ SweepAndDispatch(silent, wave) /\ run' = run
      BY <1>6, <2>2 DEF RollingStep
    <3>2. TickDispatches(l, wave)
      BY <1>6, <2>2 DEF TickDispatches
    <3> QED  BY <1>2, <1>3, <3>1, <3>2 DEF TickMoves
  <2>3. CASE active = {} /\ failed = {} /\ queued # {} /\ ~release
    <3>1. SetUpdateRunStatus("failed") /\ Sweep(silent)
      BY <1>6, <2>3 DEF RollingStep, LoopFails
    <3> QED  BY <1>1, <1>3, <3>1 DEF TickDispatches, TickMoves
  <2> QED  BY <2>1, <2>2, <2>3
<1>7. CASE TickDone(l) /\ Sweep(silent) /\ run' = run
  BY <1>1, <1>3, <1>7 DEF TickDispatches, TickMoves
<1> QED  BY <1>5, <1>6, <1>7 DEF StepWrite, SnapRows

\* Whatever fell between its read and its writes, a tick keeps the invariant.
LEMMA WriteStep ==
  ASSUME RollInv, NEW l \in Loops, NEW silent \in SUBSET Fleet, StepWrite(l, silent)
  PROVE  RollInv'
<1> DEFINE rows == SnapRows(l)
           status == driver[l].snap.status
<1>1. PICK H \in SUBSET RowsIn(rows, {"queued"}) :
        TickWrites(l, silent, H) /\ TickDispatches(l, H) /\ TickMoves(l, silent, H)
  BY TickCases
<1>2. /\ Ticking(l) /\ silent \subseteq RowsIn(rows, InFlightHost)
      /\ UNCHANGED <<release, online, restarts, wasAborted>>
  BY DEF StepWrite, Ticking, SnapRows
<1>3. TickDone(l) \/ LoopReturns(l)
  BY DEF StepWrite, CanaryStep, RollingStep, LoopFails
<1>4. TypeInv /\ QueueIsLeft /\ DurableIsInFlight
  BY DEF RollInv
<1>5. /\ driver' \in [Loops -> Drivers] /\ loops' \in Loops \cup {"none"} /\ TicksKept
      /\ ~wasAborted => NoTicks /\ OneGoroutine'
      /\ TickDone(l) /\ ~wasAborted => loops' # "none"
  BY <1>2, <1>3, TickEnds
<1>6. H \subseteq Fleet /\ \A h \in H : rows[h] = "queued"
  BY DEF RowsIn
<1>7. /\ urow' \in Rows
      /\ \A h \in Fleet : urow'[h] = IF h \in H THEN "dispatching"
                                     ELSE IF h \in silent THEN "timed_out" ELSE urow[h]
  <2> DEFINE swept == SetUpdateHostStatus(urow, silent, "timed_out")
  <2>1. swept \in Rows /\ \A h \in Fleet : swept[h] = IF h \in silent THEN "timed_out" ELSE urow[h]
    BY <1>4, SetRows DEF TypeInv, RowStates, HostTerminal
  <2>2. urow' = SetUpdateHostStatus(swept, H, "dispatching")
    BY <1>1 DEF TickWrites
  <2> HIDE DEF swept
  <2> QED  BY <1>6, <2>1, <2>2, SetRows DEF RowStates, InFlightHost
<1>8. /\ durable' = (durable \ silent) \cup (H \ online)
      /\ working' = working \cup (H \cap online) /\ memq' = memq \cup (H \ online)
  BY <1>1 DEF TickWrites
<1>9. run.status # "none"
  BY <1>2, <1>4, IdleType DEF QueueIsLeft, Ticking
<1>10. /\ run' \in Runs /\ run'.cohort = run.cohort /\ run'.params = run.params
       /\ run'.status \in {run.status, "failed", "rolling", "paused_failure", "completed"}
  BY <1>1, <1>4 DEF TickMoves, SetUpdateRunStatus, TypeInv, Runs, RunStates, RunTerminal
<1>11. TypeInv'
  BY <1>2, <1>4, <1>5, <1>6, <1>7, <1>8, <1>10 DEF TypeInv
<1>12. RowsAdvance
  BY <1>7 DEF RowsAdvance
<1>13. \A h \in working' \cup memq' \cup durable' : urow'[h] # "queued"
  BY <1>4, <1>6, <1>7, <1>8 DEF QueueIsLeft, TypeInv
<1>14. QueueIsLeft'
  BY <1>5, <1>9, <1>10, <1>12, <1>13, QueueStep
<1>15. DurableIsInFlight'
  BY <1>4, <1>6, <1>7, <1>8 DEF DurableIsInFlight, InFlightHost, TypeInv
<1>16. wasAborted' => \A h \in Fleet : urow'[h] # "queued"
  BY <1>2, <1>12 DEF RollInv, RowsAdvance
<1>17. ASSUME ~wasAborted PROVE OneLoop' /\ SnapshotHolds' /\ CohortFirst'
  <2>1. /\ OneLoop /\ SnapshotHolds /\ CohortFirst /\ run.status \notin RunTerminal
        /\ NoTicks /\ OneGoroutine'
    BY <1>2, <1>5, <1>17 DEF RollInv, SnapshotHolds
  <2>2. OneLoop'
    <3>1. run'.status \in {"canary", "rolling"} => TickDone(l)
      BY <1>1, <1>4 DEF TickMoves, SetUpdateRunStatus, TypeInv, Runs
    <3> QED  BY <1>5, <1>17, <2>1, <3>1 DEF OneLoop, OneGoroutine
  <2>3. run'.status = "completed" => \A h \in Fleet : urow'[h] \in {"verified", "skipped"}
    <3> SUFFICES ASSUME run'.status = "completed", NEW h \in Fleet
                 PROVE  urow'[h] \in {"verified", "skipped"}
      OBVIOUS
    <3>1. /\ silent = {} /\ H = {}
          /\ RowsIn(rows, InFlightHost) = {} /\ RowsIn(rows, FailedHost) = {}
          /\ RowsIn(rows, {"queued"}) = {}
      BY <1>1, <1>4, <2>1 DEF TickMoves, SetUpdateRunStatus, TypeInv, Runs, RunTerminal
    <3>2. rows[h] \notin InFlightHost \cup FailedHost \cup {"queued", "none"}
      BY <1>2, <1>4, <3>1 DEF RowsIn, QueueIsLeft, SnapRows
    <3>3. rows[h] \in RowStates
      BY <1>4 DEF SnapRows, TypeInv, Drivers, Rows
    <3>4. rows[h] \in {"verified", "skipped"}
      BY <3>2, <3>3 DEF RowStates, HostTerminal, FailedHost
    <3> QED  BY <1>2, <1>7, <2>1, <3>1, <3>4 DEF SnapshotHolds, SnapRows
  <2>4. SnapshotHolds'
    BY <1>5, <1>17, <2>1, <2>3, SnapshotStep
  <2>5. run'.status \in Before =>
          /\ run.status \in Before
          /\ \A h \in Fleet \ run.cohort : urow'[h] \in {"queued", "skipped"}
    <3> SUFFICES ASSUME run'.status \in Before
                 PROVE  run.status \in Before
                        /\ \A h \in Fleet \ run.cohort : urow'[h] \in {"queued", "skipped"}
      OBVIOUS
    <3>1. run.status \in Before
      BY <1>10 DEF Before
    <3>2. /\ status \in Before
          /\ \A h \in Fleet \ run.cohort : rows[h] \in {"queued", "skipped"}
      BY <1>2, <2>1, <3>1 DEF CohortFirst, SnapRows
    <3>3. H \subseteq run.cohort
      BY <1>1, <3>2 DEF TickDispatches, Before
    <3>4. silent \cap (Fleet \ run.cohort) = {}
      BY <1>2, <3>2 DEF RowsIn, InFlightHost
    <3> QED  BY <1>7, <2>1, <3>1, <3>3, <3>4 DEF CohortFirst
  <2>6. run.params /\ run'.status \in Waves =>
          run.status \in Waves \/ \A c \in run.cohort : urow[c] # "queued"
    <3> SUFFICES ASSUME run.params, run'.status \in Waves, run.status \notin Waves,
                        NEW c \in run.cohort
                 PROVE  urow[c] # "queued"
      OBVIOUS
    <3>1. \/ run.cohort \subseteq RowsIn(rows, HostTerminal)
          \/ status = "rolling"
      BY <1>1, <1>4 DEF TickMoves, SetUpdateRunStatus, TypeInv, Runs, Waves
    <3>2. rows[c] # "queued"
      BY <1>2, <2>1, <3>1 DEF RowsIn, HostTerminal, CohortFirst, SnapRows, Waves
    <3> QED  BY <1>2, <1>4, <3>2 DEF QueueIsLeft, SnapRows, TypeInv, Runs
  <2>7. CohortFirst'
    BY <1>5, <1>10, <1>12, <1>17, <2>5, <2>6, CohortStep
  <2> QED  BY <2>2, <2>4, <2>7
<1> QED  BY <1>2, <1>11, <1>14, <1>15, <1>16, <1>17 DEF RollInv

-----------------------------------------------------------------------------
(* The theorems. *)

\* A run that does not exist has no row, no goroutine and no directive.
LEMMA RollInit == RolloutInit => RollInv
<1> SUFFICES ASSUME RolloutInit PROVE RollInv
  OBVIOUS
<1>1. TypeInv
  <2>1. run \in Runs
    BY DEF RolloutInit, Runs, RunStates
  <2>2. urow \in Rows
    BY DEF RolloutInit, Rows, RowStates
  <2>3. driver \in [Loops -> Drivers]
    BY IdleType DEF RolloutInit
  <2>4. restarts \in 0..MaxRestarts
    BY RolloutAssumption DEF RolloutInit
  <2>5. release \in BOOLEAN /\ wasAborted \in BOOLEAN
    BY DEF RolloutInit
  <2>6. /\ loops \in Loops \cup {"none"} /\ online \subseteq Fleet /\ memq \subseteq Fleet
        /\ durable \subseteq Fleet /\ working \subseteq Fleet
    BY DEF RolloutInit
  <2> QED  BY <2>1, <2>2, <2>3, <2>4, <2>5, <2>6 DEF TypeInv
<1>2. \A l \in Loops : driver[l] = Idle /\ driver[l].pc = "off" /\ ~driver[l].stop
  BY IdleType DEF RolloutInit
<1>3. QueueIsLeft /\ DurableIsInFlight
  BY <1>2 DEF RolloutInit, QueueIsLeft, DurableIsInFlight, Ticking
<1>4. OneLoop /\ SnapshotHolds /\ CohortFirst
  BY <1>2 DEF RolloutInit, OneLoop, SnapshotHolds, CohortFirst, Ticking, Loops, Before, Waves
<1> QED  BY <1>1, <1>3, <1>4 DEF RolloutInit, RollInv

\* Every operation of the operator, the driver, the agents and the server.
LEMMA RollStep == RollInv /\ [RolloutNext]_rolloutVars => RollInv'
<1> SUFFICES ASSUME RollInv, [RolloutNext]_rolloutVars PROVE RollInv'
  OBVIOUS
<1>1. CASE handleCreateUpdateRun \/ MaybeDraft
  <2>1. CanarySizes \subseteq 0..NumHosts /\ 1 \in 0..NumHosts
    BY RolloutAssumption
  <2>2. PICK size \in 0..NumHosts, effect \in Effects3, park \in BOOLEAN :
          StartRun(size, effect, park)
    BY <1>1, <2>1 DEF handleCreateUpdateRun, MaybeDraft
  <2> QED  BY <2>2, CreateStep
<1>2. CASE handleUpdateRunAction
  BY <1>2, RetrySkipStep, AbortStep, StartStep DEF handleUpdateRunAction
<1>3. CASE DispatchApprovedRun
  BY <1>3, ApprovedStep
<1>4. CASE \E l \in Loops : StepRead(l) \/ LoopExit(l)
  BY <1>4, ReadStep, ExitStep
<1>5. CASE \E l \in Loops, silent \in SUBSET Fleet : StepWrite(l, silent)
  BY <1>5, WriteStep
<1>6. CASE \E h \in Fleet, phase \in {"failed", "swapped", "verified"}, lost \in BOOLEAN :
             OnResult(h, phase, lost)
  BY <1>6, ResultStep
<1>7. CASE DeleteRelease \/ (\E h \in Fleet : Disconnect(h) \/ Reconnect(h)) \/ UNCHANGED rolloutVars
  BY <1>7, StreamStep
<1>8. CASE ServerRestart
  BY <1>8, RestartStep
<1> QED  BY <1>1, <1>2, <1>3, <1>4, <1>5, <1>6, <1>7, <1>8 DEF RolloutNext

\* The run, its hosts, its goroutine and its durable directives agree: no
\* durable directive outlives the update of its host, and until an operator
\* aborts, a completed run has every host verified or skipped and an active run
\* has a goroutine that will take its next step.
THEOREM RunsStayInStep == RolloutSpec => []RolloutInv
<1>1. RolloutInit => RollInv
  BY RollInit
<1>2. RollInv /\ [RolloutNext]_rolloutVars => RollInv'
  BY RollStep
<1>3. RollInv => RolloutInv
  <2> SUFFICES ASSUME RollInv PROVE RolloutInv
    OBVIOUS
  <2>1. RolloutTypeOK
    BY DEF RollInv, TypeInv, RolloutTypeOK, Runs, RunStates, Rows, RowStates, Drivers
  <2>2. CompletedIsSettled
    BY DEF RollInv, SnapshotHolds, CompletedIsSettled
  <2>3. ActiveRunIsDriven
    BY DEF RollInv, TypeInv, OneLoop, ActiveRunIsDriven
  <2> QED  BY <2>1, <2>2, <2>3 DEF RollInv, RolloutInv
<1> QED  BY <1>1, <1>2, <1>3, PTL DEF RolloutSpec

\* The canary gate is hard: a host outside the cohort is first dispatched only
\* when every canary is verified or was skipped, whatever races the ticks.
THEOREM CanaryGateIsHard == RolloutSpec => CanaryGate
<1> DEFINE Gated ==
      \A h \in Fleet \ run.cohort :
        run.params /\ urow[h] = "queued" /\ urow'[h] = "dispatching"
          => \A c \in run.cohort : urow[c] \in {"verified", "skipped"}
<1>1. RolloutInit => RollInv
  BY RollInit
<1>2. RollInv /\ [RolloutNext]_rolloutVars => RollInv'
  BY RollStep
<1>3. RollInv /\ [RolloutNext]_rolloutVars => [Gated]_rolloutVars
  <2> SUFFICES ASSUME RollInv, RolloutNext, NEW h \in Fleet \ run.cohort, run.params,
                      urow[h] = "queued", urow'[h] = "dispatching", NEW c \in run.cohort
               PROVE  urow[c] \in {"verified", "skipped"}
    BY DEF rolloutVars
  <2>1. TypeInv /\ QueueIsLeft /\ ~wasAborted /\ h \notin working
    BY DEF RollInv, QueueIsLeft
  <2>2. OneLoop /\ SnapshotHolds /\ CohortFirst
    BY <2>1 DEF RollInv
  <2>3. \E l \in Loops, silent \in SUBSET Fleet : StepWrite(l, silent)
    <3>1. ASSUME NEW size, NEW effect \in Effects3, NEW park, StartRun(size, effect, park) PROVE FALSE
      BY <3>1 DEF StartRun, AddUpdateHosts
    <3>2. ASSUME NEW effect \in Effects3, Start(effect) PROVE FALSE
      BY <3>2, <2>1 DEF Start, SetUpdateHostStatus
    <3>3. CASE Retry \/ Skip \/ Abort
      BY <3>3, <2>1 DEF Retry, Skip, Abort, dispatchHosts, SetUpdateHostStatus, FailedHost
    <3>4. ASSUME NEW k \in Fleet, NEW phase \in {"failed", "swapped", "verified"},
                 NEW lost \in BOOLEAN, OnResult(k, phase, lost)
          PROVE  FALSE
      BY <3>4, <2>1 DEF OnResult, TypeInv, Rows
    <3>5. urow' # urow
      OBVIOUS
    <3> QED  BY <3>1, <3>2, <3>3, <3>4, <3>5
             DEF RolloutNext, handleCreateUpdateRun, MaybeDraft, handleUpdateRunAction,
                 DispatchApprovedRun, DeleteRelease, StepRead, LoopExit, Disconnect, Reconnect,
                 ServerRestart
  <2>4. PICK l \in Loops, silent \in SUBSET Fleet : StepWrite(l, silent)
    BY <2>3
  <2>5. PICK H \in SUBSET RowsIn(SnapRows(l), {"queued"}) :
          TickWrites(l, silent, H) /\ TickDispatches(l, H)
    BY <2>4, TickCases
  <2>6. h \in H
    BY <2>5 DEF TickWrites, SetUpdateHostStatus
  <2>7. /\ driver[l].snap.status = "rolling"
        /\ RowsIn(SnapRows(l), InFlightHost) = {} /\ RowsIn(SnapRows(l), FailedHost) = {}
    BY <2>5, <2>6 DEF TickDispatches
  <2>8. Ticking(l) /\ c \in Fleet
    BY <2>1, <2>4 DEF StepWrite, Ticking, TypeInv, Runs
  <2>9. SnapRows(l)[c] \notin InFlightHost \cup FailedHost \cup {"queued", "none"}
    BY <2>1, <2>2, <2>7, <2>8 DEF RowsIn, QueueIsLeft, CohortFirst, SnapRows, Waves
  <2>10. SnapRows(l)[c] \in RowStates
    BY <2>1, <2>8 DEF SnapRows, TypeInv, Drivers, Rows
  <2>11. SnapRows(l)[c] \in {"verified", "skipped"}
    BY <2>9, <2>10 DEF RowStates, HostTerminal, FailedHost
  <2> QED  BY <2>2, <2>8, <2>11 DEF SnapshotHolds, SnapRows
<1> QED  BY <1>1, <1>2, <1>3, PTL DEF RolloutSpec, CanaryGate
=============================================================================
