\* Two header blocks: clock, then rec_start.
CONSTANTS
  NBufs = 3
  BufSz = 2
  NHdr = 2
  Clients = {c1}
  Codes = {"header", "clock", "rec_start"}
  Utcs = {0, 2}
  Headers = {1}
  Bps = 2
  Resolution = 1
  Durations = {2}
  MaxCalls = 3
  BufSizes = {3}
  MaxSample = 9
  StartTime = 1
  TellsUtc = {TRUE}
  NeedsUtc = TRUE
  Failures = {}
  Slips = {}
SPECIFICATION Spec
INVARIANT HeaderTrue
CHECK_DEADLOCK FALSE
