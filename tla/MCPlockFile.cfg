SPECIFICATION MCSpec
CONSTANTS
  Nodes = {1, 2, 3}
  Owners = {1}
  MaxOffset = 2
INVARIANTS
  TypeOK
  LocksSound
  NoLostWakeup
PROPERTIES
  ImplementsPosixLocks
