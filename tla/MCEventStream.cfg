\* Two connections of a tab, a channel of one, two incidents of any kind.
CONSTANTS
  Capacity = 1
  MaxConnections = 2
  MaxIncidents = 2
SPECIFICATION FairSpec
INVARIANTS TypeOK NoMissedChange OnlineFollowsViewers
PROPERTIES CacheCatchesUp StreamsEnd
