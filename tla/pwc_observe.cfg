\* Observations, one after another, by one client that keeps the rules.
CONSTANTS
  NBufs = 3
  BufSz = 2
  NHdr = 1
  Clients = {c1}
  Codes = {"header", "duration", "clock", "start", "set_utc_start", "rec_start", "rec_stop", "stop"}
  Utcs = {0, 2, 3}
  Headers = {1}
  Bps = 2
  Resolution = 1
  Durations = {2}
  MaxCalls = 8
  BufSizes = {3}
  MaxSample = 9
  StartTime = 1
  TellsUtc = {TRUE, FALSE}
  NeedsUtc = TRUE
  Failures = {}
  Slips = {}
SPECIFICATION FairSpec
INVARIANT StreamExact
INVARIANT HeaderTrue
INVARIANT RecordedAsAsked
PROPERTY ErrorsExplained
PROPERTY RecordingsRead
PROPERTY StopHonoured
CHECK_DEADLOCK FALSE
