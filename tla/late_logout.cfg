SPECIFICATION Spec
CONSTANTS
  admin = admin
  accountant = accountant
  Tabs = {t1, t2}
  Users = {admin, accountant}
  NetworkPages = {}
  FirmPages = {"firm"}
  ClientPages = {"client"}
  DefaultPage <- LandingPages
  MaxCalls = 2
  MaxLogins = 1
  NoUser = NoUser
  NoPage = NoPage
PROPERTIES
  BouncedToLogin
