SPECIFICATION Spec
CONSTANTS
  Ownership = {TRUE}
  Founders = {1, 2}
  Joiners = {}
  Owners = {1}
  Ops <- GetOps
  Junk = {FALSE}
  MaxOps = 4
  MaxDrops = 2
  MaxFails = 0
INVARIANTS
  UnownedIsReplicated
CHECK_DEADLOCK FALSE
