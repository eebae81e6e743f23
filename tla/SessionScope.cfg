SPECIFICATION Spec
CONSTANTS
  s1 = s1  s2 = s2  c1 = c1  c2 = c2  r1 = r1  inside = inside  outside = outside
  Session = {s1, s2}
  Caller = {c1, c2}
  Repository = {r1}
  Cwd = {inside, outside}
  Covers <- MCCovers
  MaxEntries = 1
  MaxAge = 1
  MaxCalls = 3
  MaxClock = 1
  MaxChanges = 1
  MaxKills = 1
  None = None
SYMMETRY Symmetry
INVARIANTS
  LeaseIsAsGranted ToldBeforeRecorded RemindersAreAccounted
CHECK_DEADLOCK FALSE
