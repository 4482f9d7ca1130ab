\* A client that packs two messages into one Multi.
CONSTANTS
  Clients = {"plain"}
  MaxSends = 2
  MaxBatch = 2
SPECIFICATION Spec
INVARIANTS
  JobsConserved
CHECK_DEADLOCK FALSE
