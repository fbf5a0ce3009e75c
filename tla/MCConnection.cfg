SPECIFICATION Spec
CONSTANTS
  narrow = narrow
  wide = wide
  sharedTopic = sharedTopic
  wideTopic = wideTopic
  first = first
  second = second
  third = third
  Filters <- MCFilters
  Topics <- MCTopics
  Matching <- MCMatching
  Derived <- MCDerived
  MaxIdentifier = 3
  TurnRange = 2
  MaxMember = 3
  Offers = {TRUE, FALSE}
  Answers = {TRUE}
  Opens <- MCOpens
  FilterOf <- MCFilterOf
  QosOf <- MCQosOf
  Keeps = {second}
  Cancels = TRUE
  Accepts = {TRUE}
  Resumable <- FreshOnly
  Merges = {TRUE, FALSE}
  Capacity = 8
  HeldCapacity = 2
  MaxPublishes = 2
CHECK_DEADLOCK FALSE
INVARIANT TypeOK
INVARIANT ServerHoldsWires
INVARIANT DeliveredOnceInTurn
INVARIANT IdentifiersAgree
INVARIANT QosServedInTurn
INVARIANT InOrder
INVARIANT MeetingIdentified
 
INVARIANT AckedOnce
