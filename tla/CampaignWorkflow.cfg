\* Two campaigns and five requests under four keys, so that one campaign can go
\* all the way to publication and compete with its cancellation and with the use
\* of its keys for the other one; two payment events.  A run of five or six hours,
\* whose phases take no time or twice what they may.
CONSTANTS
  c1 = c1
  c2 = c2
  k1 = k1
  k2 = k2
  k3 = k3
  k4 = k4
  e1 = e1
  e2 = e2
  NoEvent = NoEvent
  Campaigns = {c1, c2}
  Keys = {k1, k2, k3, k4}
  Events = {e1, e2}
  MaxRequests = 5
  Starts = {2}
  Lives = {5, 6}
  Paces = {0, 2}
  Gates <- MCGates
  Limit <- MCLimit
  MaxLife = 5
  Cutoff = 8
  NoLedger = NoLedger
SPECIFICATION MCSpec
SYMMETRY Interchangeable
CHECK_DEADLOCK FALSE
INVARIANTS
  HistoryChain
  FundingAgreement
  KeysMatchEffects
  AcceptedRunIsTrue
