SPECIFICATION OneFsSpec
CONSTANTS
  o1 = o1
  o2 = o2
  o3 = o3
  c1 = c1
  c2 = c2
  c3 = c3
  Op = {o1, o2, o3}
  Coll = {c1, c2, c3}
  MetaSync = {c1, c3}
  Immediate = {c3}
  LowMark = 1
  HighMark = 1
  Low <- LowOf
  High <- HighOf
  Kind = {"KEYVAL", "REMOVE", "RESIZE", "IO"}
  SyncMayFail = FALSE
INVARIANTS TypeOK AckedDurable CounterExact NotStranded BatchBounded IdleIsClean
PROPERTIES EveryOpCompletes
