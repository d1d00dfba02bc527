\* Two creators ask for a Reach Slot both suit, one of them for the Community
\* Slot as well; three connections, two keys each with as many tries.
SPECIFICATION FairSpec
CONSTANTS
  Slots    <- MCSlots
  NoSlot   = NoSlot
  Creators = {c1, c2}
  Suits    <- MCReach
  Requests <- MCBothKinds
  Keys     = {k1, k2}
  Calls    = {p1, p2, p3}
  Nothing  = Nothing
INVARIANTS
  NoSlotTwice
  OneKeyOneEffect
PROPERTIES
  ImplementsMissionLifecycle
  EveryCallEnds
