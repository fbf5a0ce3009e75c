\* Three subscriptions that open, side by side, and are dropped while two threads publish.
SPECIFICATION MCSpec
CONSTANTS
  a = a
  b = b
  sys = sys
  group = group
  first = first
  second = second
  third = third
  main = main
  other = other
  One = One
  Rest = Rest
  Share = Share
  Plain <- MCPlain
  Dollar = {sys, Share}
  Strip <- MCStrip
  Groups = {group}
  FilterSet <- MCFilterSet
  TopicSet <- MCTopicSet
  Filters <- MCFilters
  Topics <- MCTopics
  Matching <- MCClient
  ServerMatching <- MCServer
  ShareFilters <- MCShareFilters
  NameOf <- MCNameOf
  Derived <- MCDerived
  MaxIdentifier = 3
  TurnRange = 2
  MaxMember = 3
  Offers = {TRUE}
  Answers = {TRUE}
  Opens <- MCOpens
  FilterOf <- MCFilterOf
  QosOf <- MCQosOf
  Keeps = {second}
  Reads = {first}
  Threads = {main, other}
  Script <- MCScript
  MaxMessages = 2
  HeldCapacity = 1
INVARIANTS
  InFlightCounts
  OpenIsServed
  PacketReaches
  RoutesToldLastClosed
  OverlapIsMeeting
  ServerDelivers
  NeverOlder
CHECK_DEADLOCK FALSE
