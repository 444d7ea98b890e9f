SPECIFICATION Spec
CONSTANTS
  MaxInputTokens = 50
  IncrementalRefresh = TRUE
  IncrementalMinPriorEmails = 1
  ProviderReadsPrior = TRUE
  Clients = {c1}
  Readers = {r1}
  Refreshers = {p1, p2}
  Bodies = {40}
  MaxEmails = 2
  MaxRefreshes = 3
  MaxRotations = 0
  RedisFaults = TRUE
  RequestFaults = TRUE
  Restarts = FALSE
  NoRow = NoRow
  NoBlob = NoBlob
INVARIANTS
  TypeOK
  CacheHoldsCommittedRow
  RowWithinInbox
  MissSeesAcknowledgedRefresh
PROPERTIES
  DisjointUpsertsKeepCounts
  UnovertakenCountsGrow
