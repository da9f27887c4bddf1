SPECIFICATION Spec
CONSTANTS
  r1 = r1
  r2 = r2
  k1 = k1
  k2 = k2
  c1 = c1
  c2 = c2
  exif = exif
  bare = bare
  junk = junk
  Request = {r1, r2, r3}
  Key = {k1, k2}
  KeyOf <- Again
  Subject = {"seller"}
  SubjectOf <- OneSubject
  Content = {exif, bare, junk}
  Declared <- Picture
  Strip <- WithoutExif
  Unsupported = {junk}
  FailClosed = TRUE
  Conn = {c1, c2}
  ConnOf <- TwoProcesses
  MaxTries = 2
  MaxStorage = 1
  MaxScans = 1
  MaxCrashes = 1
  MaxRemoved = 1
INVARIANTS
  TypeOK
  AcceptedHasObject
  RecordedBytesStored
  IndexedUnlessCrowded
CHECK_DEADLOCK FALSE
