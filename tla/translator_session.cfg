\* Every kind of client, three messages out of turn, no batches.
CONSTANTS
  Clients = {"plain", "keyed", "foreign"}
  MaxSends = 3
  MaxBatch = 1
  Group = 3
  Width = 8
  FixedBytes = 2
  Raises = raises
  NotThere = notThere
SPECIFICATION FairSpec
INVARIANTS
  TypeOK
  FiltersAgree
  JobsConserved
  CodecKeepsMeaning
PROPERTIES
  LogonAnswered
  KeepsToScript
\* A connection that is closed stays closed.
CHECK_DEADLOCK FALSE
