CONSTANTS
  s1 = s1
  r1 = r1
  r2 = r2
  Sites = {s1}
  SharedSites = {s1}
  Runs = {r1}
  MaxInstances = 1
  MaxConcurrent = 1
  Threshold = 2
  FailCap = 2
  ConfirmDown = TRUE
  Expiries = {"ssl"}
  PrefChoices <- DownOnOff
  DbErrors = FALSE
  MaxCrashes = 0
SPECIFICATION FairSpec
PROPERTIES
  OutageAlerted
  RecoveryCloses
