SPECIFICATION Spec
CONSTANTS
  Pdf = Pdf
  None = None
  Photos = {p1, p2}
  Sketches = {s1, s2}
  Deletes = {d1}
  MaxFailures = 1
CHECK_DEADLOCK FALSE
SYMMETRY Symmetry
INVARIANTS TypeOK AcceptedPhotoStays EvidenceIsHashed SealedIsIntact SealCoversWhatIsShown
