SPECIFICATION Spec
CONSTANTS
  MaxInputTokens = 1000
  IncrementalRefresh = TRUE
  IncrementalMinPriorEmails = 1
  ProviderReadsPrior = TRUE
  Clients = {c1}
  Readers = {r1}
  Refreshers = {p1}
  Bodies = {40}
  MaxEmails = 1
  MaxRefreshes = 1
  MaxRotations = 0
  RedisFaults = FALSE
  RequestFaults = FALSE
  Restarts = FALSE
  NoRow = NoRow
  NoBlob = NoBlob
INVARIANTS
  ReadYourRefresh
