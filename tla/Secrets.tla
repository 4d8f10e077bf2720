------------------------------ MODULE Secrets ------------------------------
(***************************************************************************)
(* Secrets: the master key and its bootstrap, the versioned store of one   *)
(* secret, its delivery to a host before a run that declares it, and the   *)
(* agent's cache.  A value is the number of the write that stored it (0 is *)
(* the empty value), a master key the number of the bootstrap that made    *)
(* it, a sealed value the value: only the enrolled agent opens it.         *)
(***************************************************************************)
EXTENDS Integers, Sequences, FiniteSets

CONSTANTS SecretRuns,       \* task or job runs that declare the secret
          Bootstraps,       \* concurrent POST /secrets/bootstrap
          OfflineTTL,       \* a cache window, in ticks
          MaxSecretWrites, MaxSecretFaults, MaxSecretTime

ASSUME SecretsAssumption ==
  /\ OfflineTTL \in Nat \ {0} /\ Bootstraps \subseteq Nat \ {0}
  /\ MaxSecretWrites \in Nat /\ MaxSecretFaults \in Nat /\ MaxSecretTime \in Nat

VARIABLES keyFile,              \* the data-dir key: -1 none, 0 created and not yet written
          apiKey, runKey,       \* the key of the API's and of the dispatchers' manager; 0: no manager
          boots,                \* where each bootstrap is
          secretRow, versions,  \* the secret and its versions
          revoking,             \* the secret and the version a revoke has read
          bindings,             \* <<run, value>> recorded
          secretRuns,           \* each run's progress
          secretLink,           \* the host's stream: [on, n]
          secretWire,           \* envelopes on it
          mem, sealed,          \* the agent's cache, in memory and on disk
          windows,              \* when the window of each delivered value ends; 0: it has none
          lastGet,              \* the last lookup: <<run, value, time>>
          secretWrites, secretFaults, secretTime

keyVars == <<keyFile, apiKey, runKey, boots>>
vaultVars == <<secretRow, versions, revoking, bindings, secretWrites>>
cacheVars == <<mem, sealed, windows, lastGet>>
linkVars == <<secretLink, secretWire>>
secretsVars == <<keyVars, vaultVars, secretRuns, cacheVars, linkVars, secretFaults, secretTime>>

NoSecret == [id |-> 0, bound |-> FALSE, ttl |-> 0]
NoRevoke == [id |-> 0, version |-> 0]
NoEntry == [value |-> -1, expires |-> 0]
NewSecretRun == [state |-> "new", value |-> -1, ttl |-> 0, on |-> 0]

SecretsInit ==
  /\ keyFile = -1 /\ apiKey = 0 /\ runKey = 0 /\ boots = [b \in Bootstraps |-> "idle"]
  /\ secretRow = NoSecret /\ versions = <<>> /\ revoking = NoRevoke /\ bindings = {}
  /\ secretRuns = [r \in SecretRuns |-> NewSecretRun]
  /\ secretLink = [on |-> TRUE, n |-> 1] /\ secretWire = <<>>
  /\ mem = NoEntry /\ sealed = NoEntry /\ windows = [v \in 0..MaxSecretWrites |-> 0]
  /\ lastGet = <<"none", -1, 0>>
  /\ secretWrites = 0 /\ secretFaults = 0 /\ secretTime = 0

-----------------------------------------------------------------------------
(* The master key. *)

\* A missing file is not an error of bootstrap; an empty one is no key.
loadKeyFile == IF keyFile > 0 THEN keyFile ELSE 0

\* 409 once a manager is installed.
secretBootstrap(b) ==
  /\ boots[b] = "idle" /\ apiKey = 0
  /\ boots' = [boots EXCEPT ![b] = "begun"]
  /\ UNCHANGED <<keyFile, apiKey, runKey>>

\* The manager of the API is installed; the dispatchers keep the one they started with.
Install(b, key) == apiKey' = key /\ boots' = [boots EXCEPT ![b] = "idle"] /\ UNCHANGED <<keyFile, runKey>>

\* An existing key is adopted, an unreadable one is an error, else one is made.
BootstrapKey(b) ==
  /\ boots[b] = "begun"
  /\ IF keyFile = -1 THEN boots' = [boots EXCEPT ![b] = "made"] /\ UNCHANGED <<keyFile, apiKey, runKey>>
     ELSE IF loadKeyFile # 0 THEN Install(b, loadKeyFile)
     ELSE boots' = [boots EXCEPT ![b] = "idle"] /\ UNCHANGED <<keyFile, apiKey, runKey>>

\* Bug: the file is truncated when it exists.
CreateKeyFileTruncates(b) ==
  /\ boots[b] = "made" /\ keyFile' = 0 /\ boots' = [boots EXCEPT ![b] = "created"]
  /\ UNCHANGED <<apiKey, runKey>>

\* O_EXCL: whoever comes second loads the winner's key, if it is written yet.
CreateKeyFile(b) ==
  /\ boots[b] = "made"
  /\ IF keyFile = -1 THEN keyFile' = 0 /\ boots' = [boots EXCEPT ![b] = "created"] /\ UNCHANGED <<apiKey, runKey>>
     ELSE IF loadKeyFile # 0 THEN Install(b, loadKeyFile)
     ELSE boots' = [boots EXCEPT ![b] = "idle"] /\ UNCHANGED <<keyFile, apiKey, runKey>>

WriteKeyFile(b) ==
  /\ boots[b] = "created" /\ keyFile' = b /\ apiKey' = b
  /\ boots' = [boots EXCEPT ![b] = "idle"] /\ UNCHANGED runKey

KeyStep ==
  /\ \E b \in Bootstraps : secretBootstrap(b) \/ BootstrapKey(b) \/ CreateKeyFile(b) \/ WriteKeyFile(b)
  /\ UNCHANGED <<vaultVars, secretRuns, cacheVars, linkVars, secretFaults, secretTime>>

\* At start every part gets the manager of the key that is configured.
LoadMasterKeyWithDefault == loadKeyFile

\* The server restarts.  A key file that cannot be read keeps it from starting.
SecretServerRestart ==
  /\ secretFaults < MaxSecretFaults /\ secretFaults' = secretFaults + 1
  /\ keyFile # 0
  /\ apiKey' = LoadMasterKeyWithDefault /\ runKey' = LoadMasterKeyWithDefault
  /\ boots' = [b \in Bootstraps |-> "idle"] /\ revoking' = NoRevoke
  /\ secretRuns' = [r \in SecretRuns |-> IF secretRuns[r].state \in {"read", "warm"}
                                         THEN [secretRuns[r] EXCEPT !.state = "failed"] ELSE secretRuns[r]]
  /\ secretLink' = [secretLink EXCEPT !.on = FALSE] /\ secretWire' = <<>>
  /\ UNCHANGED <<keyFile, secretRow, versions, bindings, secretWrites, cacheVars, secretTime>>

-----------------------------------------------------------------------------
(* The store and the API's writes. *)

\* Every version of the secret is numbered by its place.
Version(value) == [value |-> value, key |-> apiKey, revoked |-> FALSE]

StoreCreateSecret(value, ttl) ==
  secretRow' = [id |-> secretWrites + 1, bound |-> TRUE, ttl |-> ttl] /\ versions' = <<Version(value)>>

\* One transaction: the new version, and every older one revoked.
StoreRotateSecret(value) ==
  versions' = Append([i \in DOMAIN versions |-> [versions[i] EXCEPT !.revoked = TRUE]], Version(value))

\* The newest active version; 0 when all are revoked.
GetLatestSecretVersion ==
  LET active == {i \in DOMAIN versions : ~ versions[i].revoked}
  IN  IF active = {} THEN 0 ELSE CHOOSE i \in active : \A j \in active : j <= i

GetSecret == secretRow.id # 0

SecretWrite ==
  /\ apiKey # 0
  /\ UNCHANGED <<keyVars, secretRuns, cacheVars, linkVars, secretFaults, secretTime>>

NewValue == secretWrites < MaxSecretWrites /\ secretWrites' = secretWrites + 1

CreateSecret(value, ttl) ==
  /\ NewValue /\ ~ GetSecret /\ StoreCreateSecret(value, ttl) /\ UNCHANGED <<revoking, bindings>>

RotateSecret(value) ==
  /\ NewValue /\ GetSecret /\ StoreRotateSecret(value) /\ UNCHANGED <<secretRow, revoking, bindings>>

\* An empty value is answered 400 and stored all the same.
Answer(value) == IF value = 0 THEN "bad_request" ELSE "ok"

secretCreate(value, ttl) == SecretWrite /\ CreateSecret(value, ttl)
secretRotate(value) == SecretWrite /\ RotateSecret(value)

\* The versions and the bindings go with the row.
StoreDeleteSecret == secretRow' = NoSecret /\ versions' = <<>> /\ bindings' = {}

DeleteSecret == GetSecret /\ StoreDeleteSecret /\ UNCHANGED <<revoking, secretWrites>>

secretDelete == SecretWrite /\ DeleteSecret

\* A revoke reads the current version first and revokes that one.
RevokeSecret ==
  /\ GetSecret /\ revoking = NoRevoke /\ GetLatestSecretVersion # 0
  /\ revoking' = [id |-> secretRow.id, version |-> GetLatestSecretVersion]
  /\ UNCHANGED <<secretRow, versions, bindings, secretWrites>>

secretRevoke == SecretWrite /\ RevokeSecret

RevokesStored == secretRow.id = revoking.id /\ revoking.version \in DOMAIN versions

RevokeSecretVersion ==
  /\ revoking # NoRevoke /\ revoking' = NoRevoke
  /\ IF RevokesStored /\ ~ versions[revoking.version].revoked
     THEN versions' = [versions EXCEPT ![revoking.version].revoked = TRUE]
     ELSE UNCHANGED versions
  /\ UNCHANGED <<keyVars, secretRow, bindings, secretWrites, secretRuns, cacheVars, linkVars, secretFaults, secretTime>>

VaultStep ==
  \/ \E value \in {0, secretWrites + 1} :
       \/ secretRotate(value)
       \/ \E ttl \in {0, OfflineTTL} : secretCreate(value, ttl)
  \/ secretDelete \/ secretRevoke \/ RevokeSecretVersion

-----------------------------------------------------------------------------
(* Before the envelope of a run, its secrets. *)

Progress(r, run) == secretRuns' = [secretRuns EXCEPT ![r] = run]

\* The hosts of the secret's selector, among them this one.
resolve == secretRow.bound

\* The row, the selector, the current version and the key are checked.
Materialize(r) ==
  LET v == GetLatestSecretVersion
  IN  IF GetSecret /\ resolve /\ v # 0 /\ versions[v].key = runKey
      THEN Progress(r, [state |-> "read", value |-> versions[v].value, ttl |-> secretRow.ttl, on |-> 0])
      ELSE Progress(r, [NewSecretRun EXCEPT !.state = "failed"])

\* No manager, no run.
MaterializeForRun(r) ==
  /\ secretRuns[r].state = "new"
  /\ IF runKey = 0 THEN Progress(r, [NewSecretRun EXCEPT !.state = "failed"]) ELSE Materialize(r)
  /\ UNCHANGED <<bindings, secretWire>>

RecordSecretBinding(r) == bindings' = bindings \cup {<<r, secretRuns[r].value>>}

\* Sent on the stream of the moment, then recorded.
SendSecretMaterialize(r) ==
  /\ secretRuns[r].state = "read"
  /\ IF secretLink.on
     THEN /\ secretWire' = Append(secretWire, [run |-> r, value |-> secretRuns[r].value, ttl |-> secretRuns[r].ttl])
          /\ RecordSecretBinding(r)
          /\ Progress(r, [secretRuns[r] EXCEPT !.state = "warm", !.on = secretLink.n])
     ELSE Progress(r, [secretRuns[r] EXCEPT !.state = "failed"]) /\ UNCHANGED <<secretWire, bindings>>

\* The envelope of the run follows, on whatever stream is there.
SendRun(r) ==
  /\ secretRuns[r].state = "warm"
  /\ IF secretLink.on
     THEN /\ secretWire' = Append(secretWire, [run |-> r, value |-> -1, ttl |-> 0])
          /\ Progress(r, [secretRuns[r] EXCEPT !.state = "sent"])
     ELSE Progress(r, [secretRuns[r] EXCEPT !.state = "failed"]) /\ UNCHANGED secretWire
  /\ UNCHANGED bindings

DispatchStep ==
  /\ \E r \in SecretRuns : MaterializeForRun(r) \/ SendSecretMaterialize(r) \/ SendRun(r)
  /\ UNCHANGED <<keyVars, secretRow, versions, revoking, secretWrites, cacheVars,
                 secretLink, secretFaults, secretTime>>

-----------------------------------------------------------------------------
(* The agent's cache. *)

Expired(e) == e.expires # 0 /\ secretTime > e.expires

\* Without a window the value stays in memory, and the disk keeps what it has.
Handle(m) ==
  LET e == [value |-> m.value, expires |-> IF m.ttl = 0 THEN 0 ELSE secretTime + m.ttl]
  IN  /\ mem' = e /\ sealed' = IF m.ttl = 0 THEN sealed ELSE e
      /\ windows' = [windows EXCEPT ![m.value] = e.expires]
      /\ UNCHANGED <<secretRuns, lastGet>>

AgentTakesSecret ==
  /\ secretWire # <<>> /\ secretWire' = Tail(secretWire)
  /\ LET m == Head(secretWire)
     IN  IF m.value # -1 THEN Handle(m)
         ELSE Progress(m.run, [secretRuns[m.run] EXCEPT !.state = "running"]) /\ UNCHANGED cacheVars
  /\ UNCHANGED <<keyVars, vaultVars, secretLink, secretFaults, secretTime>>

Got(r, value) == lastGet' = <<r, value, secretTime>>

\* Bug: a value that is promoted from the disk stays.
PromoteForGood(e) == [e EXCEPT !.expires = 0]

Promote(e) == e

\* Memory first, then the sealed copy, which is promoted or, expired, removed.
Get(r) ==
  IF mem # NoEntry
  THEN Got(r, IF Expired(mem) THEN -1 ELSE mem.value) /\ UNCHANGED <<mem, sealed>>
  ELSE IF sealed = NoEntry THEN Got(r, -1) /\ UNCHANGED <<mem, sealed>>
  ELSE IF Expired(sealed) THEN Got(r, -1) /\ sealed' = NoEntry /\ UNCHANGED mem
  ELSE Got(r, sealed.value) /\ mem' = Promote(sealed) /\ UNCHANGED sealed

\* A step of the run asks for the value and the run ends.
StepGets(r) ==
  /\ secretRuns[r].state = "running" /\ Get(r)
  /\ Progress(r, [secretRuns[r] EXCEPT !.state = "done"])
  /\ UNCHANGED <<keyVars, vaultVars, windows, linkVars, secretFaults, secretTime>>

\* So does a step of a job the agent fires by itself, with or without a server.
FireGets ==
  /\ Get("fire")
  /\ UNCHANGED <<keyVars, vaultVars, windows, secretRuns, linkVars, secretFaults, secretTime>>

AgentLosesRuns == [r \in SecretRuns |-> IF secretRuns[r].state = "running"
                                        THEN [secretRuns[r] EXCEPT !.state = "failed"] ELSE secretRuns[r]]

load == IF Expired(sealed) THEN NoEntry ELSE sealed

\* The agent restarts: load reads the disk and prunes it.
AgentRestarts ==
  /\ secretFaults < MaxSecretFaults /\ secretFaults' = secretFaults + 1
  /\ mem' = NoEntry /\ sealed' = load
  /\ secretRuns' = AgentLosesRuns
  /\ secretLink' = [secretLink EXCEPT !.on = FALSE] /\ secretWire' = <<>>
  /\ UNCHANGED <<keyVars, vaultVars, windows, lastGet, secretTime>>

SecretStreamEnds ==
  /\ secretLink.on /\ secretFaults < MaxSecretFaults /\ secretFaults' = secretFaults + 1
  /\ secretLink' = [secretLink EXCEPT !.on = FALSE] /\ secretWire' = <<>>
  /\ UNCHANGED <<keyVars, vaultVars, secretRuns, cacheVars, secretTime>>

SecretStreamReturns ==
  /\ ~ secretLink.on /\ secretLink' = [on |-> TRUE, n |-> secretLink.n + 1]
  /\ UNCHANGED <<keyVars, vaultVars, secretRuns, cacheVars, secretWire, secretFaults, secretTime>>

\* A host gains or loses the label the selector asks for.
BindingChanges ==
  /\ secretRow.id # 0 /\ secretFaults < MaxSecretFaults /\ secretFaults' = secretFaults + 1
  /\ secretRow' = [secretRow EXCEPT !.bound = ~ @]
  /\ UNCHANGED <<keyVars, versions, revoking, bindings, secretWrites, secretRuns, cacheVars, linkVars, secretTime>>

SecretTick ==
  /\ secretTime < MaxSecretTime /\ secretTime' = secretTime + 1
  /\ UNCHANGED <<keyVars, vaultVars, secretRuns, cacheVars, linkVars, secretFaults>>

SecretsNext ==
  \/ KeyStep \/ SecretServerRestart \/ VaultStep \/ DispatchStep
  \/ AgentTakesSecret \/ FireGets \/ (\E r \in SecretRuns : StepGets(r))
  \/ AgentRestarts \/ SecretStreamEnds \/ SecretStreamReturns \/ BindingChanges \/ SecretTick

SecretsSpec == SecretsInit /\ [][SecretsNext]_secretsVars

-----------------------------------------------------------------------------
(* Properties. *)

(* Whatever is stored can be opened after a restart: bootstraps that race  *)
(* never leave a file with another key than the one that sealed data       *)
(* (BootstrapKey adopts, and creates with O_EXCL).                         *)
SecretsStayReadable == \A i \in DOMAIN versions : versions[i].key = keyFile

WindowOver(v) == windows[v] # 0 /\ secretTime > windows[v]

(* The secret a run was sent with is there when the run's step asks for    *)
(* it, if both went down one stream and no window is over: the cache is    *)
(* warm (MaterializeForRun before SendTaskRun, Handle before Get).         *)
RunFindsSecret ==
  [][\A r \in SecretRuns : StepGets(r) /\ secretRuns[r].on = secretLink.n /\ ~ Expired(mem)
       => lastGet'[2] # -1]_secretsVars

(* A value with a window is served inside the window only, counted from    *)
(* its last delivery, however often the agent restarts (expires in Handle, *)
(* load and Get).                                                          *)
ServedInWindow ==
  [][lastGet' # lastGet /\ lastGet'[2] # -1 => ~ WindowOver(lastGet'[2])]_secretsVars

(* A revoke that others overtake hits the version it was asked for or      *)
(* none: never the first version of a secret that was deleted and created  *)
(* again under the name, never a newer version (RevokeSecret keeps id and  *)
(* version).                                                               *)
RevokeHitsItsVersion ==
  [][\A i \in DOMAIN versions : RevokeSecretVersion /\ versions' # versions /\ versions'[i] # versions[i]
       => secretRow.id = revoking.id /\ i = revoking.version /\ i = Len(versions)]_secretsVars

(* A step gets the value it may have, when it may have it, and a revoke    *)
(* takes the one it names: the three parts above.                          *)
SecretsServed == RunFindsSecret /\ ServedInWindow /\ RevokeHitsItsVersion

(* A write that is answered 400 "value required" changes nothing.          *)
RefusedWriteIsNoWrite ==
  [][\A value \in 0..MaxSecretWrites : secretRotate(value) /\ Answer(value) = "bad_request" => versions' = versions]_secretsVars

(* A secret without an offline window is "never cached": a step gets it    *)
(* only in a run it was delivered for.                                     *)
NeverCachedByDefault == [][lastGet' # lastGet /\ lastGet'[1] = "fire" /\ lastGet'[2] # -1 => windows[lastGet'[2]] # 0]_secretsVars

(* The version a run used is the version recorded for it.                  *)
RecordedVersionIsUsed ==
  [][lastGet' # lastGet /\ lastGet'[1] \in SecretRuns /\ lastGet'[2] # -1 => <<lastGet'[1], lastGet'[2]>> \in bindings]_secretsVars

(* The bootstrap enables the secrets of tasks and jobs.                    *)
BootstrapEnablesRuns == [][\A r \in SecretRuns : apiKey # 0 /\ MaterializeForRun(r) => runKey # 0]_secretsVars
=============================================================================
