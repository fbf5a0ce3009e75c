SPECIFICATION RegistrySpec
CONSTANTS
  left = left
  right = right
  both = both
  leftTopic = leftTopic
  rightTopic = rightTopic
  Filters <- MCFilters
  Topics <- MCTopics
  Matching <- MCMatching
  Derived <- MCDerived
  MaxIdentifier = 3
  TurnRange = 2
  MaxMember = 3
  Offers = {TRUE, FALSE}
  Answers = {TRUE, FALSE}
INVARIANT RegistryTypeOK
INVARIANT OneWirePerFilter
INVARIANT OneSeatPerMember
INVARIANT QosOfMembers
INVARIANT DistinctIdentifiers
