CONSTANTS
  EbSize = 2
  Partitions <- MCPartitions
  Ranges <- MCRanges
  MaxBad = 2
SPECIFICATION FlashSpec
INVARIANTS WritesAsReported
CHECK_DEADLOCK FALSE
