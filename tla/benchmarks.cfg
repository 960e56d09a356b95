SPECIFICATION FairSpec
CONSTANTS
  MaxBenchmark = 2
  MaxFaults = 3
  Missing = Missing
  Null = Null
INVARIANTS
  BenchmarksTypeOK
  ResultIsOwn
  ResultNotLost
  NeverPostsOlderData
PROPERTIES
  ImplementsResults
  FinishedIsShown
