----------------------------- MODULE MCSlotClaim -----------------------------
EXTENDS SlotClaim

MCSlots == {1, 2}

\* The second slot is a Reach Slot that every creator is qualified for.
MCReach == ({"community"} \X Creators \X {1}) \cup ({"reach"} \X Creators \X {2})

MCReachRequests == [kind : {"reach"}, creator : Creators]

\* Everybody asks for the Reach Slot, one creator for the Community Slot too.
MCBothKinds ==
  MCReachRequests
    \cup {[kind |-> "community", creator |-> CHOOSE c \in Creators : TRUE]}
=============================================================================
