SPECIFICATION FewSpec
CONSTANTS
  r1 = r1
  r2 = r2
  r3 = r3
  Req = {r1, r2, r3}
  m1 = m1
  m2 = m2
  ModeChange = {m1, m2}
  t1 = t1
  t2 = t2
  Timer = {t1, t2}
  h1 = h1
  h2 = h2
  Handle = {h1, h2}
  Delay = {1, 2}
  WorkMetric = 2
  MaxLive = 3
INVARIANTS
  TypeOK
  NoBypass
  HeadHasTurn
  TurnsShared
  Linked
  CountExact
  AdminQuiesced
PROPERTIES
  ImplementsHandleAccess
  NoTimerOverlooked
  EveryRequestStarts
