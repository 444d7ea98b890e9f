SPECIFICATION FairSpec
CONSTANTS
  admin = admin
  accountant = accountant
  Tabs = {t1}
  Users = {admin, accountant}
  NetworkPages = {}
  FirmPages = {"firm"}
  ClientPages = {"client", "other"}
  DefaultPage <- LandingPages
  MaxCalls = 2
  MaxLogins = 2
  NoUser = NoUser
  NoPage = NoPage
INVARIANTS
  TypeOK
  ShellMatchesToken
  ButtonWaitsForItsCall
PROPERTIES
  PunctualScreensMatch
  PunctualRegenerations
  SignInEnds
  ButtonComesBack
