\* One client sends any command at any time; the functions of the instrument fail.
CONSTANTS
  NBufs = 3
  BufSz = 2
  NHdr = 1
  Clients = {c1}
  Codes = {"header", "duration", "clock", "start", "set_utc_start", "rec_start", "rec_stop", "stop", "reset", "quit"}
  Utcs = {0, 1, 3}
  Headers = {1}
  Bps = 2
  Resolution = 1
  Durations = {2}
  MaxCalls = 4
  BufSizes = {3}
  MaxSample = 6
  StartTime = 1
  TellsUtc = {TRUE, FALSE}
  NeedsUtc = TRUE
  Failures = {"start", "soft", "fatal", "nothing", "stop"}
  Slips = {"any", "toggle", "hasty", "short", "timed"}
SPECIFICATION Spec
INVARIANT TypeOK
INVARIANT StateMatchesData
INVARIANT MainAwake
PROPERTY ErrorsStay
CHECK_DEADLOCK FALSE
