SPECIFICATION TranscriptSpec
CONSTANTS
  s1 = s1
  s2 = s2
  Messages = {1}
  Assertions = {a1}
  Contents = {"x", "y"}
  Syncs <- SyncsHere
  ModeOf <- ModesHere
  HashesMode = TRUE
  Strict = {s2}
  MaxAttempts = 1
  MaxInputs = 2
  MaxFaults = 1
  Payloads = {"x", "y"}
  Columns = {"u", "v"}
  MaxRows = 3
  MaxChars = 4
  OverlapChars = 2
  MaxText = 6
INVARIANTS LedgerSafe QuotesHold
PROPERTY TranscriptConverges
CHECK_DEADLOCK FALSE
