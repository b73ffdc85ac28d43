\* Two proofs of the same leaf of one tree.
CONSTANTS
  Hash <- MCHash
  Zero <- MCZero
  One <- MCOne
  None = None
  BadHex = BadHex
  SplitChar = SplitChar
  Proofs <- MCProofs
  Block <- MCBlock
SPECIFICATION BindingSpec
INVARIANT DigestBinds
\* The folds have ended.
CHECK_DEADLOCK FALSE
