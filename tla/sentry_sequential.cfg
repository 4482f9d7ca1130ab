\* One connection at a time, restarts at any time, saves that complete.
CONSTANTS
  m1 = m1  m2 = m2  m3 = m3  alice = alice  bob = bob
  own = own  other = other
  Machines = {m1, m2, m3}
  Accounts = {alice, bob}
  AccountOf <- MCAccountOf
  Filenames = {own, other}
  SentryName = own
  MaxSentries = 4
  MaxQueue = 2
  MaxLive = 1
  SaveFaults = {}
  Torn = torn
  None = none
SPECIFICATION Spec
INVARIANTS
  ViewIsDisk
PROPERTIES
  StoreKeeps
  NoNeedlessPush
CHECK_DEADLOCK FALSE
