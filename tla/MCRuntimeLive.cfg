SPECIFICATION SumSpec
CONSTANTS
  Parts = {"scheduler", "select", "mutex", "rwmutex", "object", "timers", "netpoll", "preempt"}
  None = None
  Sysmon = Sysmon
  g1 = g1
  g2 = g2
  m1 = m1
  m2 = m2
  p1 = p1
  t1 = t1
  t2 = t2
  tm1 = tm1
  w1 = w1
  w2 = w2
  c0 = c0
  c1 = c1
PROPERTIES
  WaitingMIsServed
  WaitsReturn
  EventsAreServed
