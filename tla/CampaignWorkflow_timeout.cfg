\* One campaign and one request, which do not matter here; a run of five or six
\* hours, whose phases take no time or twice what they may.
CONSTANTS
  c1 = c1
  k1 = k1
  e1 = e1
  NoEvent = NoEvent
  Campaigns = {c1}
  Keys = {k1}
  Events = {e1}
  MaxRequests = 1
  Starts = {2}
  Lives = {5, 6}
  Paces = {0, 2}
  Gates <- MCGates
  Limit <- MCLimit
  MaxLife = 5
  Cutoff = 8
  NoLedger = NoLedger
SPECIFICATION MCSpec
SYMMETRY Interchangeable
CHECK_DEADLOCK FALSE
INVARIANTS
  TimeoutOpensIncident
