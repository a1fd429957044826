CONSTANTS
  Dates = {10, 20}
  MaxBills = 3
SPECIFICATION Spec
INVARIANTS TypeOK PositionsHold DatesHold SavedAsReported
