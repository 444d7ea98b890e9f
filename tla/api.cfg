SPECIFICATION ApiSpec
CONSTANTS
  MaxInputTokens = 1000
  IncrementalRefresh = TRUE
  IncrementalMinPriorEmails = 1
  ProviderReadsPrior = TRUE
  c1 = c1
  c2 = c2
  f1 = f1
  f2 = f2
  f3 = f3
  clerk = clerk
  admin = admin
  super = super
  Clients = {c1, c2}
  Readers = {r1}
  Refreshers = {p1}
  Bodies = {40}
  MaxEmails = 2
  MaxRefreshes = 2
  MaxRotations = 0
  RedisFaults = FALSE
  RequestFaults = FALSE
  Restarts = FALSE
  NoRow = NoRow
  NoBlob = NoBlob
  Firms = {f1, f2, f3}
  FirmOf <- ClientFirms
  Accounts = {clerk, admin, super}
  RoleOf <- Roles
  AccountFirm <- AccountFirms
  NoFirm = NoFirm
  Null = Null
INVARIANTS
  RollupMatchesFirmReports
  ReportMatchesEndpoint
  AnswerNoFresherThanReport
PROPERTIES
  QuietFillsReadYourRefresh
\* Once every account is deleted and the inboxes are full nobody can do anything.
CHECK_DEADLOCK FALSE
