\* Two slots, two creators; no symmetry, because of the temporal properties.
CONSTANTS
  s1 = s1
  s2 = s2
  c1 = c1
  c2 = c2
  NoSlot = NoSlot
  Slots = {s1, s2}
  Creators = {c1, c2}
  Window = 1
  MaxLockWait = 1
SPECIFICATION FairSpec
INVARIANTS
  SlotAgreement
  OutcomeAgreement
  VerdictAgreement
PROPERTIES
  ImplementsObligation
  ClosedMissionIsPosted
  ReviewIsAnswered
  CorrectedMissionSettles
