SPECIFICATION Spec
CONSTANTS
  i1 = i1
  Job = {j1}
  Input = {i1}
  InputOf <- SharedInput
  Worker = {w1, w2}
  MaxAttempts = 2
  MaxStalls = 1
  Faulty <- Processing
  MaxFaults = 2
  MaxCrashes = 0
  MaxPauses = 0
  MaxOutages = 0
  MaxRefusals = 0
  MaxExpired = 0
PROPERTIES
  RetryRequeues
CHECK_DEADLOCK FALSE
