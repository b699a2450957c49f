SPECIFICATION SumSpec
CONSTANTS
    g1 = g1
    g2 = g2
    g3 = g3
    g4 = g4
    g5 = g5
    m0 = m0
    m1 = m1
    m2 = m2
    m3 = m3
    m4 = m4
    p0 = p0
    p1 = p1
    p2 = p2
    t1 = t1
    Sysmon = Sysmon
    None = None
    Gs = {g1, g2}
    Ms = {m1, m2, m3}
    Ps = {p1, p2}
    Threads = {t1}
    Callers = {g1, g2}
    Lockers = {g1, g2}
    RingSize = 2
    MaxOps = 3
    Parts = {"calls", "plain", "one", "full"}
SYMMETRY MCSymmetry
INVARIANTS
  SumTypeOK
  WorkIsSought
  OneOwnerOfAll
  VerdictIsTrue
