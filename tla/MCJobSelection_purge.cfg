CONSTANTS
  MaxListed = 3
  FirstListed = 2
  RowsPerPage = 1
  MaxPending = 1
  Impatient = FALSE
SPECIFICATION Spec
INVARIANTS BatchHitsTickedRows
