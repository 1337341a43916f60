\* Two recordings between clock and stop.
CONSTANTS
  NBufs = 3
  BufSz = 2
  NHdr = 1
  Clients = {c1}
  Codes = {"header", "clock", "rec_start", "rec_stop"}
  Utcs = {2, 3, 4, 5}
  Headers = {1}
  Bps = 2
  Resolution = 1
  Durations = {2}
  MaxCalls = 6
  BufSizes = {3}
  MaxSample = 12
  StartTime = 1
  TellsUtc = {TRUE}
  NeedsUtc = TRUE
  Failures = {}
  Slips = {"toggle"}
SPECIFICATION FairSpec
PROPERTY RecordingsRead
CHECK_DEADLOCK FALSE
