----------------------------- MODULE PassPromise ------------------------------
(***************************************************************************)
(* What a Local Pass promises (docs/decisions/ADR-040.md), without links,  *)
(* tokens, verification codes or locks: the first claim of a customer      *)
(* takes one unit of the stock and names one creator for good; the pass    *)
(* is honoured once or expires, and only then is the unit free again; no   *)
(* pass is honoured while a refusal of it is under review.                 *)
(***************************************************************************)
EXTENDS Integers

CONSTANTS Customers, Links, NoLink, Quantity

VARIABLES
  pass,    \* of each customer
  by,      \* the creator's link the pass was claimed from
  stock,   \* units nobody has a claim to
  frozen   \* passes whose refusal is under review

promise == <<pass, by, stock, frozen>>

Init ==
  /\ pass   = [c \in Customers |-> "none"]
  /\ by     = [c \in Customers |-> NoLink]
  /\ stock  = Quantity
  /\ frozen = {}

Move(c, from, to) ==
  /\ pass[c] = from
  /\ pass' = [pass EXCEPT ![c] = to]

Claim(c, l) ==
  /\ Move(c, "none", "active")
  /\ stock > 0 /\ stock' = stock - 1
  /\ by' = [by EXCEPT ![c] = l]
  /\ UNCHANGED frozen

Redeem(c) ==
  /\ Move(c, "active", "redeemed") /\ c \notin frozen
  /\ UNCHANGED <<by, stock, frozen>>

Expire(c) ==
  /\ Move(c, "active", "expired")
  /\ stock' = stock + 1
  /\ UNCHANGED <<by, frozen>>

Report(c) ==
  /\ pass[c] = "active"
  /\ frozen' = frozen \cup {c}
  /\ UNCHANGED <<pass, by, stock>>

Settle(c) ==
  /\ frozen' = frozen \ {c}
  /\ UNCHANGED <<pass, by, stock>>

Next ==
  \E c \in Customers :
     \/ \E l \in Links : Claim(c, l)
     \/ Redeem(c) \/ Expire(c) \/ Report(c) \/ Settle(c)

Spec == Init /\ [][Next]_promise
=============================================================================
