\* One reader, more transfers than XFERS; data may be clocked, two blocks held open, blocks zeroed ahead.
CONSTANTS
  Writers = {w1}
  Readers = {r1}
  NReaders = 1
  NBufs = 3
  BufSz = 1
  XFERS = 2
  MaxBuf = 4
  MaxXfer = 3
  MaxOpen = 2
  Clocking = TRUE
  SodOnOrigin = FALSE
  SodAhead = FALSE
  Overlap = 0
  MaxReset = 0
  MayLeave = FALSE
  UseZero = TRUE
SPECIFICATION Spec
INVARIANT TypeOK
INVARIANT XferSlotValid
INVARIANT BlockIntact
INVARIANT BytesTrue
INVARIANT EodTrue
PROPERTY StreamSpec
CHECK_DEADLOCK FALSE
