SPECIFICATION Spec

CONSTANTS
  p1 = p1
  p2 = p2
  a1 = a1
  a2 = a2
  b1 = b1
  Absent = Absent
  NoPtr = NoPtr
  Procs = {p1, p2}
  Callers = {a1, a2, b1}
  ProcOf <- MCProcOf
  MaxCommit = 2
  Tags = {1}
  Wants <- MCWants
  Damaged <- MCDamaged
  MaxTime = 1
  MaxCalls = 3
  TTLOf <- MCTTLOf

INVARIANTS
  TypeOK
  UndamagedIsWhole
  NeverOlderThanRef
  WaiterHasLeader
  ZeroTTLIsCurrent

PROPERTIES
  ImplementsStore

\* every call has been made and no one pushes
CHECK_DEADLOCK FALSE
