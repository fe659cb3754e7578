SPECIFICATION VerifySpec
CONSTANTS
  Pdf = Pdf
  None = None
  Overwritten = Overwritten
  Photos = {p1}
  Sketches = {}
  Deletes = {}
  MaxFailures = 0
  MaxOverwrites = 0
CHECK_DEADLOCK FALSE
INVARIANT UntamperedVerifies
