SPECIFICATION FairSpec
CONSTANTS
  narrow = narrow
  wide = wide
  sharedTopic = sharedTopic
  wideTopic = wideTopic
  first = first
  second = second
  third = third
  Filters <- MCFilters
  Topics <- MCTopics
  Matching <- MCMatching
  Derived <- MCDerived
  MaxIdentifier = 3
  TurnRange = 2
  MaxMember = 3
  Offers = {TRUE}
  Answers = {TRUE}
  Opens <- MCPair
  FilterOf <- MCPairFilterOf
  QosOf <- MCPairQosOf
  Keeps = {second}
  Cancels = TRUE
  Accepts = {TRUE, FALSE}
  Resumable <- OwnSessions
  Merges = {FALSE}
  Capacity = 1
  HeldCapacity = 1
  MaxPublishes = 2
CHECK_DEADLOCK FALSE
PROPERTY OpensReturn
INVARIANT PacketHome
