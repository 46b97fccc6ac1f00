SPECIFICATION Spec
CONSTANTS
  Paths = {p1, p2} Unwritable = {dir} NoPath = NoPath NoFile = NoFile Malformed = Malformed
  SeedPath = p1
  ArenaBytes = 4 MaxFileBytes = 2 MaxEntries = 3 MaxBlocks = 3
  ZeroBuffer = 1
  Bytes = {0, 1, 2} MaxPayload = 2 MaxTransferBytes = 11
  MaxTransfers = 3 MaxEncoded = 1 MaxFailures = 1
INVARIANT StoreConsistent
PROPERTIES SummaryIsTruth ReplacesFiles
CHECK_DEADLOCK FALSE
