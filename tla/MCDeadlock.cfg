SPECIFICATION MCSpec
CONSTANTS
  Nodes = {1, 2, 3}
  Founders = {2, 3}
  Rsbs = {"r1", "r2"}
  Home <- HomeOf
  Master <- MasterOf
  Tables <- AllTables
  JoinInCycle = FALSE
  MaxStarts = 2
  MaxOps = 1
  MaxGone = 1
INVARIANTS
  TypeOK
  NoDeadlockMissed
  NoFalseDeadlock
  CleanBetweenCycles
  EndsOnce
PROPERTIES
  CycleEnds
\* without requests there is nothing to do
CHECK_DEADLOCK FALSE
