\* An included and a paid licence with up to two renewals of each; three
\* locality proofs; two Reach proofs and two outages; two reviewers.  A device
\* with two sign-ins, of an account with up to two workspaces.  A Local Pass of
\* one unit with two customers, two creators' links, two connections, two tokens
\* of a claim.
CONSTANTS
  e1 = e1
  e2 = e2
  NoEvent = NoEvent
  Events = {e1, e2}
  Kinds = {"organic", "paid"}
  Included = "organic"
  Length <- MCLength
  Window = 1
  MaxTerms = 3
  r1 = r1
  r2 = r2
  Nobody = Nobody
  Reviewers = {r1, r2}
  Validity = 2
  AppealWindow = 1
  Retention = 2
  Grace = 2
  MaxProofs = 3
  MaxTiers = 2
  MaxOutages = 2
  MaxLockWait = 1
  MaxTime = 7
  BadgeTime = 4
  TierTime = 4
  MaxSignIns = 2
  Workspaces = {"w1", "w2"}
  Accesses <- MCAccesses
  p1 = p1
  p2 = p2
  Customers = {r1, r2}
  Links = {e1, e2}
  Calls = {p1, p2}
  Quantity = 1
  Rotations = 2
  LiveCodes = 2
SPECIFICATION MCSpec
SYMMETRY Symmetry
CHECK_DEADLOCK FALSE
INVARIANT
  AppealKeepsEvidence
