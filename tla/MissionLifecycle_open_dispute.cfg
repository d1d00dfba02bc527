\* One slot, one creator: the shortest history suffices.
CONSTANTS
  s1 = s1
  c1 = c1
  NoSlot = NoSlot
  Slots = {s1}
  Creators = {c1}
  Window = 2
  MaxLockWait = 1
SPECIFICATION Spec
PROPERTY
  OpenDisputeHoldsApproval
