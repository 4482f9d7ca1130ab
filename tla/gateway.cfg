\* The whole process with the steam package installed, signals at any time.
CONSTANTS
  c1 = c1  c2 = c2  boot = boot  alice = alice  bob = bob
  Conns = {c1, c2}
  Sessions = {c1, c2, boot}
  BootSession = boot
  Accounts = {alice, bob}
  BootAccount = alice
  Closer = closer
  None = none
  RunPaths = {"no_handler", "login"}
SPECIFICATION GatewaySpec
CONSTRAINT
  AcceptedInOrder
INVARIANTS
  GatewayTypeOK
  ExitStopsSessions
  OthersOnlyAfterFailedBoot
PROPERTIES
  AnsweredUnlessStuck
  ShutdownEnds
\* A process that has ended, or one that nobody uses or stops, is at rest.
CHECK_DEADLOCK FALSE
