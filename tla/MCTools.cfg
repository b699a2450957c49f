SPECIFICATION SumSpec
CONSTANTS
  Parts = {"stage", "cache", "entry", "watch", "server", "servers", "replace", "publish", "kg", "log", "answers", "session", "lsp"}
  Bad = Bad
  Dead = Dead
  Old = Old
  CloseMark = CloseMark
  c1 = c1
  c2 = c2
  h1 = h1
  h2 = h2
  k1 = k1
  k2 = k2
  p1 = p1
  p2 = p2
  s1 = s1
  s2 = s2
  v1 = v1
  v2 = v2
  None = None
  Workers = {p1, p2}
  ItemCount = 5
  Chunk = 2
SYMMETRY Alike
INVARIANTS
  SumTypeOK
  ResultsAreExact
  
  NothingIsStale
  
  
  
  AnsweredOnce
PROPERTIES
  IsLoop
  GoodIsKept
