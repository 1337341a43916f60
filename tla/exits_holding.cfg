\* Readers end while they hold a block, or only look at one and end.
CONSTANTS
  Writers = {w1}
  Readers = {r1}
  NReaders = 1
  NBufs = 2
  BufSz = 1
  XFERS = 2
  MaxBuf = 4
  MaxXfer = 2
  MaxOpen = 1
  Clocking = FALSE
  SodOnOrigin = FALSE
  SodAhead = FALSE
  Overlap = 0
  MaxReset = 0
  MayLeave = TRUE
  UseZero = FALSE
  MaxExit = 2
  ExitHolding = {"start", "bytes", "hold"}
  Peeking = TRUE
SPECIFICATION ExitSpec
INVARIANT BlockIntact
INVARIANT BytesTrue
INVARIANT EodTrue
CHECK_DEADLOCK FALSE
