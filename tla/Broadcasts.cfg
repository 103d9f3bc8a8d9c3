CONSTANTS
  Worker = {w1, w2}
  LastUser = 3
  BatchSize = 2
  MaxSlow = 1
  MaxAccidents = 1
  MaxChanges = 1
SPECIFICATION LiveSpec
INVARIANTS
  OneBatchAtATime CopiesBounded CompletedReachesAll
PROPERTY BroadcastEnds
CHECK_DEADLOCK FALSE
