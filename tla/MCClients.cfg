SPECIFICATION ClientsSpec
CONSTANTS
  t1 = t1
  o1 = o1
  o2 = o2
  MaxCalls = 3
  RefreshTtl = 1
  LastTick = 1
  Tab = {t1}
  Fetch = {1, 2}
  TabOf <- OneTab
  Opening = 2
  Object = {o1, o2}
  IdemKey = {"k1"}
  MaxCleans = 2
  MaxUploads = 1
  MaxMishaps = 2
  Submission <- Submitted
  MaxSteps = 2
  Enabled = TRUE
  MaxAttempts = 2
  Removal = {b1, b2, b3}
  MaxRetries = 1
  Volume = 2
  WindowMs = 2
  Quota = 2
  LastMs = 5
  Request = {r1, r2, r3}
  Plan = {"free", "pro"}
  Limit <- TwoLimits
  Hours <- TwoHours
  Time <- Instants
  MaxErrors = 1
  RecordKey = {"profile", "job", "session", "checkout", "idempotency", "event", "audit",
               "completion", "dedup"}
  KindOf <- OneOfEach
  Caller = {p1, p2}
  Twin = {w1, w2}
  Second = 2
  Horizon = 4
  TtlOf <- OneSecond
  MaxAsked = 3
  MaxEdits = 1
  Migrator = {m1, m2}
  MaxCommands = 4
  File = {f1, f2}
  NoFile = NoFile
  MaxPicks = 2
  MaxRuns = 2
  MaxCleanups = 2
INVARIANTS
  ClientsTypeOK
  SpentTokenRefused
  StaysSignedIn
  NobodyStranded
  AnswerIsAudited
  AnsweredKeyGuards
  ProviderSpared
  BurstBounded
  CleansOneRun
  JobMeansTheSame
  JournalIsTrue
PROPERTIES
  ImplementsQuotaLedger
  ImplementsRepository
SYMMETRY CallerSymmetry
CHECK_DEADLOCK FALSE
