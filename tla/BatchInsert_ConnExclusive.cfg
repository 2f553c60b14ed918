CONSTANTS
  s1 = s1
  s2 = s2
  b1 = b1
  c1 = c1
  c2 = c2
  Inserters <- MCInserters
  Kind <- MCKind
  Conns <- MCConns
  NRows = 2
  DbMayFail = FALSE
SPECIFICATION Spec
INVARIANT ConnExclusive
CHECK_DEADLOCK FALSE
