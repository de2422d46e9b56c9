SPECIFICATION Spec
CONSTANTS
  Nodes = {1, 2}
  EnableFencing = FALSE
  EnableQuorum = FALSE
  EnablePlock = TRUE
  CountMod = 2
  Allowed = {"leave", "crash", "rejoin", "partition", "loss"}
  MaxViews = 5
  MaxTime = 1
  FsRegister = TRUE
  Formed = 0
INVARIANTS
  TypeOK
  FailuresAcked
  RunsOnNewestChange
  ConfigfsMatches
  SameChange
  NoReadmission
  CkptAgreement
  PlockSource
\* a cluster without pending membership changes is at rest
CHECK_DEADLOCK FALSE
