\* One connection at a time, and a save that a kill may interrupt.
CONSTANTS
  m1 = m1  m2 = m2  m3 = m3  alice = alice  bob = bob
  own = own  other = other
  Machines = {m1, m2, m3}
  Accounts = {alice, bob}
  AccountOf <- MCAccountOf
  Filenames = {own, other}
  SentryName = own
  MaxSentries = 3
  MaxQueue = 1
  MaxLive = 1
  SaveFaults = {"torn"}
  Torn = torn
  None = none
SPECIFICATION Spec
PROPERTIES
  StoreKeeps
CHECK_DEADLOCK FALSE
