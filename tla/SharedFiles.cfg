\* Commands and editors on the same files.
CONSTANTS
  Unset = Unset
  Empty = Empty
  DefaultUrl = DefaultUrl
  Anchors = {"anchor1", "anchor2"}
  Verifies = {"verify"}
  Hashes = {"hash"}
  Casts <- MCCasts
  Size <- MCSize
  Contents <- MCContents
  Lines <- MCLines
  Chunk = 2
  Blocks = {"a", "b"}
SPECIFICATION SharedSpec
INVARIANTS
  SharedTypeOK
  SavedIsWhole
  SentWhereMeant
PROPERTIES
  HashOfAFile
  VerdictsEarned
  SharedEnds
\* The commands have ended.
CHECK_DEADLOCK FALSE
