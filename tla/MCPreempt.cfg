SPECIFICATION Spec
CONSTANTS
  Ps = {p1}
  Ms = {m1}
  Sysmon = sysmon
  None = None
  MaxKicks = 2
  MaxStopped = 1
  MaxOther = 0
  MaxMasks = 0
INVARIANT NoSignalInCall
CHECK_DEADLOCK FALSE
