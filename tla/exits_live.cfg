\* Processes leave, or end between two blocks, and are run again; more transfers than XFERS.
CONSTANTS
  Writers = {w1}
  Readers = {r1}
  NReaders = 1
  NBufs = 2
  BufSz = 1
  XFERS = 2
  MaxBuf = 4
  MaxXfer = 3
  MaxOpen = 1
  Clocking = FALSE
  SodOnOrigin = FALSE
  SodAhead = FALSE
  Overlap = 0
  MaxReset = 0
  MayLeave = TRUE
  UseZero = FALSE
  MaxExit = 2
  ExitHolding = {}
  Peeking = FALSE
SPECIFICATION ExitFairSpec
INVARIANT TokensConserved
PROPERTY StreamSpec
PROPERTY CallsReturn
PROPERTY TransfersRead
CHECK_DEADLOCK FALSE
