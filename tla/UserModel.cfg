SPECIFICATION FairSpec
CONSTANTS
  Trace <- MCTrace
  StartTimes <- MCStartTimes
  Durations <- MCDurations
INVARIANTS StreamsInOrder StreamsComplete
PROPERTIES ModelBuilt
