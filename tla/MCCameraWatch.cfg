\* The handlers and the page that watches: two requests at a time, three in
\* all.  A client may report the absence and a failed identity; the reports that
\* the camera is off and of a verified identity are switched off, so that the
\* only match is the handler's own.
SPECIFICATION WatchSpec
CONSTANTS
  Requests = {q1, q2}
  HighTypes = {absent, unplugged}
  OtherTypes = {}
  Enabled = {absent, "identity_fail"}
  RequireCamera = TRUE
  Absent = absent
  CameraOff = unplugged
  Threshold = 2
  MaxReports = 3
SYMMETRY Symm
INVARIANT WatchTypeOK
INVARIANT AbsenceUnbroken
INVARIANT FlagsSound
PROPERTY RecordsOrderly
CHECK_DEADLOCK FALSE
