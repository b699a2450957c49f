SPECIFICATION SumSpec
CONSTANTS
  Parts = {"mutex", "channel", "select", "rwmutex", "cond", "object", "data", "order"}
  None = None
  g1 = g1
  g2 = g2
  t1 = t1
  t2 = t2
  u1 = u1
  u2 = u2
  w1 = w1
  w2 = w2
  c0 = c0
  c1 = c1
  c2 = c2
  Gs = {g1, g2}
  Threads = {t1}
  Addrs = {w1, w2}
  MaxOps <- MutexOps
SYMMETRY Alike
INVARIANTS
  SumTypeOK
  LocksAreExclusive
  SleepersAreWoken
  OutcomeIsTrue
  SelectWaitsAreExact
  RwMutexAdmits
  CondWaitIsAtomic
  ObjectsAreTrue
  DataChannelServes
  SelectLocksInOrder
PROPERTIES
  ChannelsAreFifo
