CONSTANTS
  Patience = 3
  Interval = 2
  CallTime = 1
  MaxEndpoints = 3
  Threshold = 2
SPECIFICATION Spec
INVARIANTS OperationBounded DeadStaysDead AtMostOneLateStart IdleIsUnused
PROPERTIES OperationEnds
