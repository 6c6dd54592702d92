\* Three records over the window and one instant more.
SPECIFICATION SSpec
CONSTANTS
  Sources <- ThreeSources
  Codes = {200, 500}
  MaxRecords = 3
  TopLimit = 1
  Percent = 60
  RateWindow = 1
  Window = 4
  Bucket = 2
  MaxTime = 5
  Absent = Absent
INVARIANT StatisticsAddUp
INVARIANT ChartsAddUp
