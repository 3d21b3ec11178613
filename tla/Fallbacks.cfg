CONSTANTS
  NumGpus = 2
  NumVolumes = 2
  MaxPasses = 2
SPECIFICATION Spec
INVARIANTS ExhaustedIsHonest
PROPERTIES KeepsCustody
CHECK_DEADLOCK FALSE
