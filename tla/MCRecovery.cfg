SPECIFICATION FairRecoverySpec
CONSTANTS
  one = one
  other = other
  topic = topic
  first = first
  second = second
  once = once
  Filters <- MCFilters
  Topics <- MCTopics
  Matching <- MCMatching
  Derived <- MCDerived
  MaxIdentifier = 2
  TurnRange = 2
  MaxMember = 2
  Offers = {TRUE}
  Answers = {TRUE}
  Opens = {first, second}
  FilterOf <- MCFilterOf
  QosOf <- MCQosOf
  Messages = {once}
  LevelOf <- MCLevelOf
  Capacity = 1
  Accepts = {TRUE, FALSE}
  Sessions = {FALSE}
  Policies = {"custom"}
  Attempts = 0
  MaxLosses = 2
  MaxCalls = 2
CHECK_DEADLOCK FALSE
INVARIANT FirstRecoveryRestores
PROPERTY RecoveriesEnd
