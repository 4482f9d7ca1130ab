\* Every way a session can go, with and without a preset, and close() at any time.
CONSTANTS
  c1 = c1  c2 = c2  c3 = c3  boot = boot  alice = alice  bob = bob
  Conns = {c1, c2, c3}
  Sessions = {c1, c2, c3, boot}
  BootSession = boot
  Accounts = {alice, bob}
  BootAccount = alice
  Closer = closer
  None = none
  RunPaths = {"no_steam", "no_handler", "login"}
SPECIFICATION Spec
SYMMETRY Symmetry
INVARIANTS
  TypeOK
  OneLoginPerAccount
  RidesOwnAccount
  PoolHoldsReadySessions
  ReadyMeansLoggedOn
  LogonNotLost
PROPERTIES
  CloseStopsAllInUse
  KeepsPromise
\* Once every connection has been answered and close() has ended, nothing is left to do.
CHECK_DEADLOCK FALSE
