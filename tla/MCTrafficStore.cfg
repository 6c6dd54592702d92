\* Two kept records, three requests, up to three tasks that overlap, one reader.
SPECIFICATION RSpec
CONSTANTS
  r1 = r1
  r2 = r2
  r3 = r3
  Requests <- ThreeRequests
  MaxRecords = 2
  MaxActive = 3
  Kindings <- FewMisses
  Queries <- Searches
  None = None
SYMMETRY Symmetry
INVARIANT IndexNamesRecords
INVARIANT LastEventRecorded
INVARIANT ListingComplete
PROPERTY ImplementsLog
CHECK_DEADLOCK FALSE
