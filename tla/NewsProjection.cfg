SPECIFICATION FairSpec
CONSTANTS
  Producers = {"stable", "boot"}
  Source <- MCSource
  Content <- MCContent
  BATCHES = 3
  Overlap = FALSE
  MaxFaults = 1
CHECK_DEADLOCK FALSE
INVARIANTS ArchiveWhole
PROPERTIES FrozenIsPublished ArchiveImplemented
