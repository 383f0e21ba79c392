SPECIFICATION Spec
CONSTANTS
  Block = {b1, b2}
  MaxRetries = 0
  MaxBlocks = 2
SYMMETRY BlockSymmetry
INVARIANTS TypeOK VerdictsFlushed TrackerReadFresh
PROPERTIES MatureIsFinal EntryLostOnlyPending LedgerSpec
