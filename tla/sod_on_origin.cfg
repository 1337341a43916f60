\* A transfer starts on block 0 after block 0 was filled.
CONSTANTS
  Writers = {w1}
  Readers = {r1}
  NReaders = 1
  NBufs = 2
  BufSz = 1
  XFERS = 2
  MaxBuf = 4
  MaxXfer = 2
  MaxOpen = 1
  Clocking = TRUE
  SodOnOrigin = TRUE
  SodAhead = FALSE
  Overlap = 0
  MaxReset = 0
  MayLeave = TRUE
  UseZero = FALSE
SPECIFICATION Spec
INVARIANT EodTrue
CHECK_DEADLOCK FALSE
