SPECIFICATION Spec
CONSTANTS
  narrow = narrow
  wide = wide
  sharedTopic = sharedTopic
  wideTopic = wideTopic
  first = first
  second = second
  third = third
  Filters <- MCFilters
  Topics <- MCTopics
  Matching <- MCMatching
  Derived <- MCDerived
  MaxIdentifier = 3
  TurnRange = 2
  MaxMember = 3
  Offers = {TRUE}
  Answers = {TRUE}
  Opens <- MCPair
  FilterOf <- MCPairFilterOf
  QosOf <- MCPairQosOf
  Keeps = {}
  Cancels = FALSE
  Accepts = {TRUE}
  Resumable <- FreshOnly
  Merges = {FALSE}
  Capacity = 8
  HeldCapacity = 2
  MaxPublishes = 1
CHECK_DEADLOCK FALSE
INVARIANT DeliveredOnce
