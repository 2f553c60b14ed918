CONSTANTS
  s1 = s1
  s2 = s2
  b1 = b1
  c1 = c1
  c2 = c2
  Inserters <- MCInserters
  Kind <- MCKind
  Conns <- MCConns
  NRows = 2
  DbMayFail = TRUE
SPECIFICATION Spec
INVARIANT TypeOK
INVARIANT BatchAtomic
 
CHECK_DEADLOCK FALSE
