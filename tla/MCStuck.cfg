SPECIFICATION FairSpec
CONSTANTS
  Nodes = {1, 2}
  EnableFencing = FALSE
  EnableQuorum = FALSE
  EnablePlock = TRUE
  CountMod = 2
  Allowed = {"leave", "rejoin"}
  MaxViews = 4
  MaxTime = 1
  FsRegister = FALSE
  Formed = 0
PROPERTIES
  Progress
\* a cluster without pending membership changes is at rest
CHECK_DEADLOCK FALSE
