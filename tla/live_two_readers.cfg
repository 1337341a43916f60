\* Liveness, two readers that stay; the ring may be reset once.
CONSTANTS
  Writers = {w1}
  Readers = {r1, r2}
  NReaders = 2
  NBufs = 2
  BufSz = 1
  XFERS = 1
  MaxBuf = 3
  MaxXfer = 2
  MaxOpen = 1
  Clocking = FALSE
  SodOnOrigin = FALSE
  SodAhead = FALSE
  Overlap = 0
  MaxReset = 1
  MayLeave = FALSE
  UseZero = FALSE
SPECIFICATION FairSpec
PROPERTY CallsReturn
PROPERTY TransfersRead
CHECK_DEADLOCK FALSE
