SPECIFICATION Spec
CONSTANTS
  f1 = f1
  f2 = f2
  Order <- MCOrder
  Names = {s1, s2}
  Overlaps = FALSE
  MaxEdits = 3
  None = None
  Torn = Torn
INVARIANTS TypeOK ReadyIsCurrent
CHECK_DEADLOCK FALSE
