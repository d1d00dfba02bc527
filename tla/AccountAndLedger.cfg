\* The ledger of two campaigns of one business with three slots and one, two
\* creators, three payments of which two share an object, one adjustment whose
\* id the fourth slot's posting would get: fees of every three rewards from 1
\* to 20, as the remainders of 15% repeat every 20 units; settlements of fees
\* rounded up and down.  An account with two sign-in methods and a
\* third to link, two sessions, two recent authentications, two connections,
\* one recovery hold.
CONSTANTS
  c1 = c1
  c2 = c2
  b1 = b1
  Businesses = {b1}
  BusinessOf <- OneBusiness
  u1 = u1
  u2 = u2
  Campaigns = {c1, c2}
  Creators = {u1, u2}
  Slots = {1, 2, 3, 4}
  CampaignOf <- TwoCampaigns
  Rewards = {1, 2, 3, 4, 5, 6, 7, 8, 9, 10,
             11, 12, 13, 14, 15, 16, 17, 18, 19, 20}
  Adjustments = {"adj_1"}
  Payments <- MCPayments
  NoPayment = NoPayment
  PostingId <- MCPostingId
  Amounts = {1}
  s1 = s1
  s2 = s2
  g1 = g1
  g2 = g2
  p1 = p1
  p2 = p2
  NoMethod = NoMethod
  NoSession = NoSession
  NoGrant = NoGrant
  Nobody = Nobody
  Methods = {"google", "apple", "other"}
  Provider <- MCProvider
  FirstMethods = {"google", "apple"}
  Sessions = {s1, s2}
  Grants = {g1, g2}
  Staff = {u1, u2}
  Calls = {p1, p2}
  MaxHolds = 1
SPECIFICATION MCSpec
SYMMETRY Interchangeable
CHECK_DEADLOCK FALSE
INVARIANTS
  BalancesExplained
  FeeIsAllocated
  SessionsAgree
  MethodRemains
  GrantsMatchChanges
