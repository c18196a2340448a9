SPECIFICATION Spec
CONSTANTS
  o1 = o1
  o2 = o2
  c1 = c1
  c2 = c2
  Op = {o1, o2}
  Coll = {c1, c2}
  MetaSync = {c1, c2}
  Immediate = {}
  LowMark = 1
  HighMark = 2
  Low <- LowOf
  High <- HighOf
  Kind = {"KEYVAL"}
  SyncMayFail = FALSE
SYMMETRY Symmetry
INVARIANTS
  AckedDurable
