\* Two connections at a time, saves that complete.
CONSTANTS
  m1 = m1  m2 = m2  m3 = m3  alice = alice  bob = bob
  own = own  other = other
  Machines = {m1, m2, m3}
  Accounts = {alice, bob}
  AccountOf <- MCAccountOf
  Filenames = {own, other}
  SentryName = own
  MaxSentries = 3
  MaxQueue = 1
  MaxLive = 2
  SaveFaults = {}
  Torn = torn
  None = none
SPECIFICATION Spec
PROPERTIES
  NoNeedlessPush
CHECK_DEADLOCK FALSE
