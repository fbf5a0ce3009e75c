\* The same, with one of them on the plain filter closed before others under the name.
SPECIFICATION MCSpec
CONSTANTS
  a = a
  b = b
  sys = sys
  group = group
  first = first
  second = second
  third = third
  main = main
  other = other
  One = One
  Rest = Rest
  Share = Share
  Plain <- MCPlain
  Dollar = {sys, Share}
  Strip <- MCStrip
  Groups = {group}
  FilterSet <- MCFilterSet
  TopicSet <- MCTopicSet
  Filters <- MCFilters
  Topics <- MCTopics
  Matching <- MCClient
  ServerMatching <- MCServer
  ShareFilters <- MCShareFilters
  NameOf <- MCNameOf
  Derived <- MCDerived
  MaxIdentifier = 3
  TurnRange = 2
  MaxMember = 3
  Offers = {TRUE}
  Answers = {TRUE}
  Opens <- MCOpens
  FilterOf <- MCFilterOf
  QosOf <- MCQosOf
  Keeps = {second}
  Reads = {first}
  Threads = {main, other}
  Script <- MCScript
  MaxMessages = 0
  HeldCapacity = 1
INVARIANTS
  RoutesTold
CHECK_DEADLOCK FALSE
