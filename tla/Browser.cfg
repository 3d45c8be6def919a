SPECIFICATION Spec
CONSTANTS
  PerPage = 2
  IntMax = 7
  MaxId = 3
  Asked <- Addresses
  Picked = {2}
INVARIANTS
  ListTypeOK
  CountsTheSelection
PROPERTIES
  DeletesWhatWasMeant
  PageShowsItsRows
  LiveCatchesUp
