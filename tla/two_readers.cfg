\* Two reader slots, two readers that come and go, two writers that compete.
CONSTANTS
  Writers = {w1, w2}
  Readers = {r1, r2}
  NReaders = 2
  NBufs = 2
  BufSz = 1
  XFERS = 1
  MaxBuf = 3
  MaxXfer = 2
  MaxOpen = 1
  Clocking = FALSE
  SodOnOrigin = FALSE
  SodAhead = FALSE
  Overlap = 0
  MaxReset = 0
  MayLeave = TRUE
  UseZero = FALSE
SPECIFICATION Spec
SYMMETRY ReaderSymmetry
INVARIANT AckAccounting
INVARIANT TokensConserved
INVARIANT Exclusive
INVARIANT NeverLapped
CHECK_DEADLOCK FALSE
