SPECIFICATION Spec
CONSTANTS
    g1 = g1
    g2 = g2
    t1 = t1
    Cell = Cell
    Addrs = {Cell}
    Gs = {g1, g2}
    Threads = {t1}
    Readers = {g1, g2}
    Writers = {t1}
    Blockers = {g1}
INVARIANT AdmittedWaitersAreWoken
