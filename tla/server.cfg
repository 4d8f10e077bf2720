SPECIFICATION ServerSpec
CONSTANTS
  NumHosts = 2
  CanarySizes = {1}
  WavePct = 25
  Flaky = {2}
  MaxRestarts = 1
  AlertHosts = {"h1", "h2"}
  AlertKinds = {"service_failed", "service_restarting", "cert_expiring", "config_invalid", "config_drift", "elevation_drift", "security_updates", "host_offline", "update_drift", "update_run"}
  FailedTicks = 1
  QuietTicks = 2
  RateLimit = 1
  MaxTicks = 3
  MaxAlertChanges = 3
  SecretRuns = {"r1"}
  Bootstraps = {1, 2}
  OfflineTTL = 1
  MaxSecretWrites = 2
  MaxSecretFaults = 2
  MaxSecretTime = 2
  MaxScripts = 2
  Binaries = {"b1"}
  InstPolicies = {"p1"}
  UpdateVersions = {"n", "n1"}
  InstalledVersion = "n"
  MaxUpdateCommands = 3
  RelVersions = {"1", "v1"}
  RelArchs = {"amd64", "arm64"}
  HostArch = "amd64"
  RelBytes = {"b1", "b2"}
  MaxUploads = 1
  MaxGrants = 2
INVARIANTS
  RolloutInv
  
  InstallInv
  ReleaseInv
PROPERTIES
  CanaryGate
  AlertsFollowTheRule
  SecretsServed
  
CHECK_DEADLOCK FALSE
