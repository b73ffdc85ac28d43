\* Every leaf of batches of up to nine documents, and odd proofs.
CONSTANTS
  Hash <- MCHash
  Zero <- MCZero
  One <- MCOne
  None = None
  BadHex = BadHex
  SplitChar = SplitChar
  Block <- MCBlock
  Proofs <- MCProofs
  Batches <- LargeBatches
SPECIFICATION MerkleSpec
INVARIANTS
  MerkleTypeOK
  MalformedIsError
  OnlyMembersAccepted
  HonestAccepted
  ConstructionsApart
\* The fold has ended.
CHECK_DEADLOCK FALSE
