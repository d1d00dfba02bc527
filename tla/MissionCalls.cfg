\* Two concurrent calls; check-in with three challenges, a window that opens after
\* the clock starts and closes before it stops; evidence of one upload.
CONSTANTS
  p1 = p1
  p2 = p2
  NoCall = NoCall
  Calls = {p1, p2}
  MaxIssued = 3
  WindowStarts = 1
  WindowEnds = 3
  FiveMinutes = 2
  MaxTime = 4
  a1 = a1
  Assets = {a1}
  RequiredCount = 1
SPECIFICATION MCSpec
INVARIANTS
  OneLiveChallenge
  CheckedInOnce
  EvidenceAgrees
PROPERTY
  EveryCallReturns
