\* Two machines of one account, connected at once; saves that may be torn or fail.
CONSTANTS
  m1 = m1  m2 = m2  m3 = m3  alice = alice  bob = bob
  own = own  other = other
  Machines = {m1, m2}
  Accounts = {alice}
  AccountOf <- MCAccountOf
  Filenames = {own, other}
  SentryName = own
  MaxSentries = 2
  MaxQueue = 2
  MaxLive = 2
  SaveFaults = {"torn", "skipped"}
  Torn = torn
  None = none
SPECIFICATION Spec
INVARIANTS
  TypeOK
  DataMatchesSha
CHECK_DEADLOCK FALSE
