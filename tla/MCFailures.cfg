SPECIFICATION FairSpec
ACTION_CONSTRAINT FormationFirst
CONSTANTS
  Nodes = {1, 2, 3}
  EnableFencing = FALSE
  EnableQuorum = TRUE
  EnablePlock = TRUE
  CountMod = 2
  Allowed = {"leave", "crash"}
  MaxViews = 5
  MaxTime = 1
  FsRegister = TRUE
  Formed = 3
INVARIANTS
  NoFailureOutstanding
  CkptAgreement
PROPERTIES
  Progress
\* a cluster without pending membership changes is at rest
CHECK_DEADLOCK FALSE
