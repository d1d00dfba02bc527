---------------------------- MODULE RightsPromise -----------------------------
(***************************************************************************)
(* What a content licence promises the creator and the business            *)
(* (src/architecture.md:377-394), without rows, events or a clock: rights  *)
(* start with a contract and a full reward; they are longer only by a      *)
(* whole further term, which the creator agreed to and is owed a reward    *)
(* for; and a term whose renewal was declined or not paid is the last.     *)
(***************************************************************************)
EXTENDS Integers

CONSTANTS Kinds, Length

VARIABLES
  contract,  \* kinds of licence in the contract the creator accepted
  earned,    \* is the full reward owed?
  terms,     \* terms granted so far, of each kind of licence
  until,     \* the end of the last of them
  deal,      \* the renewal of that term
  owed       \* rewards owed to the creator for renewals

promise == <<contract, earned, terms, until, deal, owed>>

Init ==
  /\ contract = {} /\ ~earned
  /\ terms = [k \in Kinds |-> 0]
  /\ until = [k \in Kinds |-> 0]
  /\ deal  = [k \in Kinds |-> "none"]
  /\ owed  = [k \in Kinds |-> 0]

Accept ==
  /\ contract = {} /\ contract' \subseteq Kinds
  /\ UNCHANGED <<earned, terms, until, deal, owed>>

Earn == earned' /\ UNCHANGED <<contract, terms, until, deal, owed>>

Start ==
  /\ contract # {} /\ earned
  /\ terms  = [k \in Kinds |-> 0]
  /\ terms' = [k \in Kinds |-> IF k \in contract THEN 1 ELSE 0]
  /\ \A k \in contract : until'[k] >= Length[k]
  /\ UNCHANGED <<contract, earned, deal, owed>>

Bargain(k, from, to) ==
  /\ terms[k] > 0 /\ deal[k] = from
  /\ deal' = [deal EXCEPT ![k] = to]

Talk(k) ==
  /\ \/ Bargain(k, "none", "asked")
     \/ Bargain(k, "asked", "agreed")
     \/ Bargain(k, "asked", "refused")
     \/ Bargain(k, "agreed", "charged")
     \/ Bargain(k, "charged", "refused")
  /\ UNCHANGED <<contract, earned, terms, until, owed>>

Pay(k) ==
  /\ Bargain(k, "charged", "none")
  /\ terms' = [terms EXCEPT ![k] = @ + 1]
  /\ owed'  = [owed EXCEPT ![k] = @ + 1]
  /\ until'[k] >= until[k] + Length[k]
  /\ until' = [until EXCEPT ![k] = until'[k]]
  /\ UNCHANGED <<contract, earned>>

Next == Accept \/ Earn \/ Start \/ \E k \in Kinds : Talk(k) \/ Pay(k)

Spec == Init /\ [][Next]_promise
=============================================================================
