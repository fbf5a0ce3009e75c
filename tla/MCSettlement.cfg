\* Sessions that are resumed with deliveries in hand, or lost with none.
SPECIFICATION FairSpec
CONSTANTS
  Count = 3
  Window = 2
  Capacity = 2
  MaxLosses = 2
  Overtakes = FALSE
INVARIANTS
  AckedMeansSettled
PROPERTIES
  MessagesLeave
  UnackedComeBack
CHECK_DEADLOCK FALSE
