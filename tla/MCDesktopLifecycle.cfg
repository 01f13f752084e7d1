SPECIFICATION OldestSpec
CONSTANTS
  Versions = {1, 2}
  Signed = {2}
  Checks = 2
  None = None
INVARIANT LifecycleTypeOK
INVARIANT RecordsAreTruthful
PROPERTY InstallsWhatWasVerified
PROPERTY QuitEnds
