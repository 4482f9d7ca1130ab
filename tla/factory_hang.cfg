\* The package is installed and the class is as it is written.
CONSTANTS
  c1 = c1  c2 = c2  c3 = c3  boot = boot  alice = alice  bob = bob
  Conns = {c1, c2, c3}
  Sessions = {c1, c2, c3, boot}
  BootSession = boot
  Accounts = {alice, bob}
  BootAccount = alice
  Closer = closer
  None = none
  RunPaths = {"no_handler"}
SPECIFICATION FairSpec
PROPERTIES
  QueuedGetsTurn
CHECK_DEADLOCK FALSE
