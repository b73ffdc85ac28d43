\* The verification of bundles made of honest and of odd parts.
CONSTANTS
  Hash <- MCHash
  Zero <- MCZero
  One <- MCOne
  None = None
  BadHex = BadHex
  SplitChar = SplitChar
  Block <- MCBlock
  Missing = Missing
  Broken = Broken
  NoFile = NoFile
  Unreadable = Unreadable
  NotBase64 = NotBase64
  Batches <- MCBatches
  Authorities <- MCAuthorities
  InfoOf <- MCInfoOf
  Files <- MCFiles
  Proofs <- MCBundles
SPECIFICATION VerifySpec
INVARIANTS
  VerifyTypeOK
  ChecksMean
  ExitCodesApart
  ValidMeansAnchored
  HonestIsValid
  TokenTypeOK
  SupportedIsValid
  ValidIsSigned
PROPERTY VerifyEnds
\* The command has exited.
CHECK_DEADLOCK FALSE
