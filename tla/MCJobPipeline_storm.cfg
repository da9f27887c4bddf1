SPECIFICATION FairSpec
CONSTANTS
  i1 = i1
  Job = {j1}
  Input = {i1}
  InputOf <- SharedInput
  Worker = {w1, w2}
  MaxAttempts = 2
  MaxStalls = 1
  Faulty <- AnyStep
  MaxFaults = 1
  MaxCrashes = 2
  MaxPauses = 1
  MaxOutages = 1
  MaxRefusals = 1
  MaxExpired = 1
INVARIANTS
  TypeOK
  DoneHasOutput
  InputOutlivesFailure
PROPERTIES
  QueueSettles
CHECK_DEADLOCK FALSE
