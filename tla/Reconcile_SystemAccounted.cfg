CONSTANTS
  Days = {1}
  Cents = {0, 1}
  Ids <- IdsEmptyAB
  Types = {"DEBIT", "CREDIT"}
  MaxS = 2
  MaxB = 2
SPECIFICATION Spec
INVARIANT SystemAccounted
