SPECIFICATION Spec
CONSTANTS
  Table = {a, b}
  NSlots = 2
  GenMod = 3
  Obj = {x}
  Root = {r1, r2}
  Right = {"DUP", "TRANSFER"}
  NULL = NULL
  MaxIssue = 4
SYMMETRY Symmetry
INVARIANTS TypeOK FreeExact LiveHandleValid StaleHandleFails RightsNeverGrow NoCopyWithoutDup
