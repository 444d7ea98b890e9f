SPECIFICATION FairSpec
CONSTANTS
  fresh = fresh
  stale = stale
  none = none
  Clients = {fresh, stale, none}
  Base <- BaseEmails
  Late <- LateEmails
  Pregenerate = {fresh, stale}
  Users = {u1}
  Seeder = Seeder
  MaxRuns = 2
INVARIANTS
  DoneShowsEveryState
PROPERTIES
  WipedWhole
  RefreshesEnd
\* A script that dies after reset, on its last run, leaves nothing to refresh.
CHECK_DEADLOCK FALSE
