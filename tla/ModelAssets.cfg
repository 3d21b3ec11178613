CONSTANTS
  c1 = c1
  c2 = c2
  c3 = c3
  Commands = {c1, c2, c3}
  Manifests <- MCManifests
  None = none
  Torn = torn
  MaxCuts = 1
SPECIFICATION AssetsSpec
INVARIANTS ReconciledIsFound IncompleteIsReported ReportStands
SYMMETRY Interchangeable
CHECK_DEADLOCK FALSE
