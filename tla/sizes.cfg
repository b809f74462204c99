SPECIFICATION Spec
CONSTANTS
  Starts = {1, 2, 3, 4, 5, 6, 7, 8, 9, 10, 11, 12, 13, 14, 15, 16}
  Stride = 16
  LastSize = 102500
INVARIANTS OneSizePerVector RoundingIsStable TablesAreOptimal
CHECK_DEADLOCK FALSE
