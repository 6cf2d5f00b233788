CONSTANTS
  Entries <- MCEntries
  Blocks <- MCBlocks
SPECIFICATION Spec
INVARIANTS
  TypeOK
  StoredBuilds
  OwnValuesThenDefaults
PROPERTY SeededLikeConfig
