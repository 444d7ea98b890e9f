SPECIFICATION Spec
CONSTANTS
  MaxInputTokens = 150
  IncrementalRefresh = TRUE
  IncrementalMinPriorEmails = 2
  ProviderReadsPrior = TRUE
  Clients = {c1}
  Readers = {r1}
  Refreshers = {p1}
  Bodies = {40, 400}
  MaxEmails = 3
  MaxRefreshes = 3
  MaxRotations = 1
  RedisFaults = TRUE
  RequestFaults = TRUE
  Restarts = TRUE
  NoRow = NoRow
  NoBlob = NoBlob
INVARIANTS
  AmpleBudgetReflectsAll
  CountMatchesPayload
  FreshAnswerHidesNothing
PROPERTIES
  KeepsPromise
  UnreadableRowsKept
