\* Up to four rows, one kind of which fills a chunk alone; chunks of two rows, batches of
\* one; two repeated deliveries, altered rows or crashes.
SPECIFICATION Spec
CONSTANTS
  small = small
  large = large
  Rows = {small, large}
  Size <- MCSize
  HashA <- MCHashA
  HashB <- MCHashB
  Modulus = 8
  MaxRows = 2
  MaxBytes = 3
  BatchRows = 1
  MaxScan = 4
  MaxTroubles = 2
INVARIANTS
  ChunksHoldTheScan
  VerifiedIsScanned
\* Once the run is settled and its files are sent nothing is left to do.
CHECK_DEADLOCK FALSE
