SPECIFICATION Spec
CONSTANTS
  Units <- MCUnits
  Contents <- MCContents
  Severity <- MCSeverity
  Note = "clean"
  Captures <- MCCaptures
  Scans <- MCScans
  Scanned = 1
  MaxEdits = 1
CHECK_DEADLOCK FALSE
INVARIANTS VerifyFindsEdits  WorstCode
