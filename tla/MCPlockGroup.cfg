SPECIFICATION MCSpec
ACTION_CONSTRAINT Lighter
CONSTANTS
  Ownership = {FALSE, TRUE}
  Founders = {1, 2}
  Joiners = {3}
  Owners = {1, 2}
  Ops <- GetOps
  Junk = {FALSE, TRUE}
  MaxOps = 4
  MaxDrops = 2
  MaxFails = 1
INVARIANTS
  MutualExclusion
  Agreement
  NothingStuck
  NothingUnexpected
CHECK_DEADLOCK FALSE
