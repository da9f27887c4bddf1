SPECIFICATION Spec
CONSTANTS
  r1 = r1
  r2 = r2
  k1 = k1
  k2 = k2
  c1 = c1
  c2 = c2
  exif = exif
  bare = bare
  junk = junk
  Request = {r1, r3}
  Key = {k1, k2}
  KeyOf <- Again
  Subject = {"seller"}
  SubjectOf <- OneSubject
  Content = {exif, bare, junk}
  Declared <- Picture
  Strip <- WithoutExif
  Unsupported = {junk}
  FailClosed = TRUE
  Conn = {c1}
  ConnOf <- OneProcess
  MaxTries = 2
  MaxStorage = 0
  MaxScans = 1
  MaxCrashes = 0
  MaxRemoved = 0
INVARIANT MismatchMeansDamage
CHECK_DEADLOCK FALSE
