SPECIFICATION Spec
ACTION_CONSTRAINT FormationFirst
CONSTANTS
  Nodes = {1, 2, 3}
  EnableFencing = TRUE
  EnableQuorum = TRUE
  EnablePlock = TRUE
  CountMod = 2
  Allowed = {"partition", "rejoin"}
  MaxViews = 7
  MaxTime = 2
  FsRegister = FALSE
  Formed = 3
INVARIANTS
  NoSplitBrain
  NoFailureOutstanding
  SameChange
\* a cluster without pending membership changes is at rest
CHECK_DEADLOCK FALSE
