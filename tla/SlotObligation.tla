--------------------------- MODULE SlotObligation ---------------------------
(***************************************************************************)
(* What the platform promises about the money of one mission slot: the     *)
(* reward obligation of docs/product/mvp.md:74, which only moves forward,  *)
(* forks once into earned or not earned, and is posted once.               *)
(*                                                                         *)
(*   reserved -> completion_pending -> earned_full -> payout_ready         *)
(*                                  -> cancelled_no_payout                 *)
(*                                             -> business_refund_pending  *)
(*                                                                         *)
(* The last steps, paid and refunded, belong to the payment provider and   *)
(* no code under src performs them.                                        *)
(***************************************************************************)
CONSTANT Slots

VARIABLE obligation

ObligationStatus == {"reserved", "completion_pending",
                     "earned_full", "payout_ready",
                     "cancelled_no_payout", "business_refund_pending"}

ObligationTypeOK == obligation \in [Slots -> ObligationStatus]

Move(s, from, to) ==
  /\ obligation[s] = from
  /\ obligation' = [obligation EXCEPT ![s] = to]

Commit(s) == Move(s, "reserved", "completion_pending")
Earn(s)   == Move(s, "completion_pending", "earned_full")
Forfeit(s) == Move(s, "completion_pending", "cancelled_no_payout")
PostPayable(s) == Move(s, "earned_full", "payout_ready")
PostRefund(s)  == Move(s, "cancelled_no_payout", "business_refund_pending")

Init == obligation = [s \in Slots |-> "reserved"]

Next == \E s \in Slots :
  Commit(s) \/ Earn(s) \/ Forfeit(s) \/ PostPayable(s) \/ PostRefund(s)

Spec == Init /\ [][Next]_obligation
=============================================================================
