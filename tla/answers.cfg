CONSTANTS
  Days = 2
  MaxRows = 3
  Window = 2
SPECIFICATION Spec
INVARIANTS TypeOK NoneMeansNone ErrorsHaveACause
PROPERTY SnapshotOwes
