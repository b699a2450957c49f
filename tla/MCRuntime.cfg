SPECIFICATION SumSpec
CONSTANTS
  Parts = {"timers", "timer", "contexts", "netpoll", "preempt", "heap", "wasm", "small"}
  None = None
  Sysmon = Sysmon
  g1 = g1
  g2 = g2
  m1 = m1
  m2 = m2
  p1 = p1
  t1 = t1
  t2 = t2
  t3 = t3
  fn = fn
  tk = tk
  tm1 = tm1
  cx0 = cx0
  cx1 = cx1
  cx2 = cx2
INVARIANTS
  SumTypeOK
  TimersKeepTheVerdict
  TimersFireOnce
  ContextsAreFreedOnce
  CancelReachesAll
  NetWaitsAreServed
  PreemptionIsAccounted
  HeapIsOrdered
  WasmPoolIsSound
  BlockIsOnce
