\* All of ipcio: bytes and blocks, clocked data, starts in the past and ahead, two transfers.
CONSTANTS
  NBufs = 3
  BufSz = 2
  XFERS = 8
  MaxBytes = 7
  MaxXfer = 2
  MaxOpen = 2
  MaxSeek = 1
  WriteSizes = {3}
  ReadSizes = {3}
  Slips = {}
SPECIFICATION FairSpec
INVARIANT TypeOK
INVARIANT CallsAccepted
INVARIANT ReadTrue
INVARIANT LengthTrue
PROPERTY TransfersEnd
PROPERTY WritesReturn
CHECK_DEADLOCK FALSE
