CONSTANTS
  s1 = s1
  r1 = r1
  r2 = r2
  Sites = {s1}
  SharedSites = {}
  Runs = {r1, r2}
  MaxInstances = 2
  MaxConcurrent = 1
  Threshold = 2
  FailCap = 2
  ConfirmDown = TRUE
  Expiries = {}
  PrefChoices <- OutagePrefs
  DbErrors = TRUE
  MaxCrashes = 1
SYMMETRY RunSymmetry
VIEW SoundHistory
SPECIFICATION Spec
INVARIANTS
  TypeOK
  DownAfterThreshold
  RecoveryOnlyAfterDown
  OneAlertPerIncident
  IncidentViewsAgree
PROPERTY ImplementsLifecycle
