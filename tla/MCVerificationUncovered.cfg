SPECIFICATION VerifySpec
CONSTANTS
  Pdf = Pdf
  None = None
  Overwritten = Overwritten
  Photos = {p1}
  Sketches = {}
  Deletes = {}
  MaxFailures = 1
  MaxOverwrites = 1
CHECK_DEADLOCK FALSE
INVARIANT ReplacedIsTampered
