\* Bundles whose hash is no hex.
CONSTANTS
  Hash <- MCHash
  Zero <- MCZero
  One <- MCOne
  None = None
  BadHex = BadHex
  SplitChar = SplitChar
  Block <- MCBlock
  Missing = Missing
  Broken = Broken
  NoFile = NoFile
  Unreadable = Unreadable
  NotBase64 = NotBase64
  Batches <- MCBatches
  Authorities <- MCAuthorities
  InfoOf <- MCInfoOf
  Files <- MCFiles
  Proofs <- OddBundles
SPECIFICATION VerifySpec
INVARIANT ExitCodesDocumented
\* The command has exited.
CHECK_DEADLOCK FALSE
