\* Tokens of unsupported kinds.
CONSTANTS
  Hash <- MCHash
  Zero <- MCZero
  One <- MCOne
  None = None
  BadHex = BadHex
  SplitChar = SplitChar
  Block <- MCBlock
  Missing = Missing
  Broken = Broken
  NoFile = NoFile
  Unreadable = Unreadable
  NotBase64 = NotBase64
  Batches <- MCBatches
  Authorities <- OddAuthorities
  InfoOf <- Sha3InfoOf
  Files <- MCFiles
  Proofs <- SomeBundles
SPECIFICATION VerifySpec
INVARIANT UnsupportedIsReported
\* The command has exited.
CHECK_DEADLOCK FALSE
