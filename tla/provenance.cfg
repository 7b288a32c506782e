SPECIFICATION ProvenanceSpec
CONSTANTS
  Jobs <- MCJobs
  Together <- MCTogether
  Listings <- MCListings
  PoolSize = 2
  Readings <- MCReadings
  NoNet = "none"
  MaxLost = 1
  MaxChanges = 1
INVARIANTS CitationsAreLinked
PROPERTIES PoolIsKept
CHECK_DEADLOCK FALSE
