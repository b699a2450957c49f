SPECIFICATION SumSpec
CONSTANTS
  Parts = {"stage", "cache", "watch", "server", "session", "lsp"}
  None = None
  Bad = Bad
  Dead = Dead
  c1 = c1
  c2 = c2
  h1 = h1
  h2 = h2
  k1 = k1
  p1 = p1
  p2 = p2
  s1 = s1
  v1 = v1
  v2 = v2
PROPERTIES
  BuildsGoOn
  ServersAnswer
