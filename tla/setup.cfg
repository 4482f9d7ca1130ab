\* Five commands on the client's binary, or on the hosts file, or some of each,
\* with two of them interrupted.
CONSTANTS
  Absent = absent
  MaxKills = 2
  valve = valve
  lan = lan
  short = short
  long = long
  public = public
  beta = beta
  Gateways = {short, long}
  Pristine <- MCPristine
  Addresses = {valve, lan, short, long}
  Chars <- MCChars
  ValveKey = public
  OtherKeys = {beta}
  BridgeKeys = {k1, k2}
  UserLines = {u1, u2}
  MaxPairs = 6
  Budgets <- MCBudgets
SPECIFICATION Spec
INVARIANTS
  TypeOK
  BackupsAreFromBefore
  VerifiedKeyIsTheOnlyOne
  UserLinesKept
  OneBlock
  CertificatesMatch
\* The commands are used up.
CHECK_DEADLOCK FALSE
