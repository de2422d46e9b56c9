SPECIFICATION Spec
ACTION_CONSTRAINT Reduced
CONSTANTS
  Nodes = {1, 2, 3}
  Versions <- V
  Supports <- SupportsOf
  MaxJoins = 3
  MaxGone = 1
INVARIANTS
  TypeOK
  FoundersAgree
  NoFounderExcluded
PROPERTIES
  Negotiated
\* the daemons may all be settled
CHECK_DEADLOCK FALSE
