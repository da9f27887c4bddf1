SPECIFICATION ServicesSpec
CONSTANTS
  Slot = {1, 2}
  MaxSessions = 1
  MaxRequests = 2
  MaxDeaths = 1
  Job = {j1}
  MaxAttempts = 2
  IntervalMs = 1500
  TickMs = 500
  DelayMs = 1000
  MaxFaults = 2
  Visit = {v1, v2, v3}
  Dependency = {"queue", "jobRepo"}
INVARIANTS
  ServicesTypeOK
  PlanHasSource
  RecordedMeansApplied
  PaidStaysPaid
  DrainsBeforeClosing
  HeartbeatHolds
PROPERTIES
  PaymentIsGranted
  ShutdownEnds
CHECK_DEADLOCK FALSE
