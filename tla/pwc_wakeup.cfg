\* Two connections to the command server.
CONSTANTS
  NBufs = 3
  BufSz = 2
  NHdr = 1
  Clients = {c1, c2}
  Codes = {"header", "stop"}
  Utcs = {0}
  Headers = {1}
  Bps = 2
  Resolution = 1
  Durations = {2}
  MaxCalls = 4
  BufSizes = {3}
  MaxSample = 3
  StartTime = 1
  TellsUtc = {TRUE}
  NeedsUtc = TRUE
  Failures = {}
  Slips = {"any", "toggle", "hasty", "short", "timed"}
SPECIFICATION Spec
INVARIANT MainAwake
CHECK_DEADLOCK FALSE
