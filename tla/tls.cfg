\* One connection, both listeners, every kind of route.
CONSTANTS
  Pieces <- MCPieces
  Hosts = {"missing", "dropped", "content", "cacheN", "valve", "unlisted"}
SPECIFICATION Spec
INVARIANTS
  TypeOK
  InOrder
  WholeResponse
  NothingLeftOpen
PROPERTIES
  ConnectionEnds
\* The handler returns.
CHECK_DEADLOCK FALSE
