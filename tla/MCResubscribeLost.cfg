SPECIFICATION Spec
CONSTANTS
  narrow = narrow
  wide = wide
  sharedTopic = sharedTopic
  first = first
  second = second
  once = once
  twice = twice
  Filters <- MCFilters
  Topics <- MCTopics
  Matching <- MCMatching
  Derived <- MCDerived
  MaxIdentifier = 2
  TurnRange = 2
  MaxMember = 2
  Offers = {TRUE}
  Answers = {TRUE}
  Opens = {first}
  FilterOf <- MCFilterOf
  QosOf <- MCQosOf
  Messages = {}
  LevelOf <- MCLevelOf
  Capacity = 8
  Accepts = {TRUE}
  Sessions = {TRUE, FALSE}
  Policies = {"automatic"}
  Attempts = 0
  MaxLosses = 2
  MaxCalls = 2
CHECK_DEADLOCK FALSE
INVARIANT OpenFiltersHeld
