---------------------------- MODULE FeeAllocation ----------------------------
(***************************************************************************)
(* allocateFifteenPercentFee of ledger-store.ts: how the disclosed 15% fee *)
(* of a campaign, rounded once for the whole campaign, is split in integer *)
(* minor units over its slots.                                             *)
(***************************************************************************)
EXTENDS Integers, FiniteSets, Functions

\* reward is a function from the ordinals of the slots to their rewards.
Pool(reward) == SumFunction(reward)

PlatformFee(reward) == (Pool(reward) * 15 + 50) \div 100

FloorFee(amount)  == (amount * 15) \div 100
Remainder(amount) == (amount * 15) % 100

\* Mutant: ranks the smallest remainder first.
RankedSmallestFirst(reward, s, t) ==
  \/ Remainder(reward[s]) < Remainder(reward[t])
  \/ Remainder(reward[s]) = Remainder(reward[t]) /\ s < t

\* Slot s is ranked before slot t: the larger remainder, then the lower ordinal.
RankedBefore(reward, s, t) ==
  \/ Remainder(reward[s]) > Remainder(reward[t])
  \/ Remainder(reward[s]) = Remainder(reward[t]) /\ s < t

CentsToAssign(reward) ==
  PlatformFee(reward) - SumFunction([s \in DOMAIN reward |-> FloorFee(reward[s])])

RoundedUp(reward) ==
  {t \in DOMAIN reward :
     Cardinality({s \in DOMAIN reward : RankedBefore(reward, s, t)})
       < CentsToAssign(reward)}

AllocateFifteenPercentFee(reward) ==
  [s \in DOMAIN reward |->
     FloorFee(reward[s]) + IF s \in RoundedUp(reward) THEN 1 ELSE 0]
=============================================================================
