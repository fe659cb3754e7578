SPECIFICATION Spec
CONSTANTS
  None = None
  Phones = {a}
  Patches = {q1, q2}
  Photos = {u1}
  Deletes = {d1}
  Earlier = {e1, e2}
  MaxRequests = 2
  MaxFailures = 1
CHECK_DEADLOCK FALSE
SYMMETRY Symmetry
INVARIANTS TypeOK FieldConverges PhotosConverge LockIsShown SealIsShown NothingAhead
PROPERTY CompleteStays
