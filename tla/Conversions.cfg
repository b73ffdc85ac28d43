\* The conversions, on every input up to a bound.
CONSTANTS
  None = None
  Panics = Panics
  DigestSize = 1
  AccWidth = 16
  Alphabet <- MCAlphabet
  Longest <- MCLongest
  LastYear = 2405
SPECIFICATION ConvSpec
INVARIANTS
  HexMeansBytes
  NormalizedIsCanonical
  IdIsOneSegment
  Base64Agrees
  DecimalAgrees
  CalendarAgrees
  BundleRoundTrips
\* The longest input is the end of a behaviour.
CHECK_DEADLOCK FALSE
