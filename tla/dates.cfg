SPECIFICATION Spec
CONSTANTS
  Years   <- YearsAroundLeaps
  MaxDays = 425
  MaxLate = 2
INVARIANTS
  TypeOK
  TodayIsCounted
PROPERTIES
  PastDueIsLate
