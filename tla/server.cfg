SPECIFICATION ServerFairSpec
CONSTANTS
  MaxInputTokens = 1000
  IncrementalRefresh = FALSE
  IncrementalMinPriorEmails = 1
  ProviderReadsPrior = TRUE
  c1 = c1
  f1 = f1
  clerk = clerk
  Clients = {c1}
  Readers = {r1}
  Refreshers = {p1}
  Bodies = {40}
  MaxEmails = 1
  MaxRefreshes = 1
  MaxRotations = 0
  RedisFaults = TRUE
  RequestFaults = TRUE
  Restarts = TRUE
  NoRow = NoRow
  NoBlob = NoBlob
  Firms = {f1}
  FirmOf <- ClientFirms
  Accounts = {clerk}
  RoleOf <- Roles
  AccountFirm <- AccountFirms
  NoFirm = NoFirm
  Null = Null
  PoolSize = 1
  Callers = {p1}
  MaxRetries = 1
  SdkRetries = 1
  Deployments <- DeploymentsTried
INVARIANTS
  StatusTellsOutcome
  CallsAwaited
  ConnectionsAccounted
  CallsBounded
  PermanentErrorEnds
PROPERTIES
  ServiceFairness
  EveryRequestEnds
  PoolRecovers
  RequestsFinish
  CacheConverges
