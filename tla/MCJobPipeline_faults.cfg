SPECIFICATION FairSpec
CONSTANTS
  i1 = i1
  Job = {j1, j2}
  Input = {i1}
  InputOf <- SharedInput
  Worker = {w1, w2}
  MaxAttempts = 2
  MaxStalls = 1
  Faulty <- TryBlock
  MaxFaults = 1
  MaxCrashes = 1
  MaxPauses = 0
  MaxOutages = 0
  MaxRefusals = 1
  MaxExpired = 0
INVARIANTS
  RecordMatchesQueue
  DeletionsAudited
PROPERTIES
  DoneIsFinal
  RecordSettles
CHECK_DEADLOCK FALSE
