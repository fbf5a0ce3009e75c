\* Sessions lost while handlers hold their deliveries.
SPECIFICATION Spec
CONSTANTS
  Count = 3
  Window = 2
  Capacity = 2
  MaxLosses = 2
  Overtakes = TRUE
INVARIANTS
  AckedMeansSettled
CHECK_DEADLOCK FALSE
