-------------------------- MODULE MCAccountAndLedger --------------------------
(***************************************************************************)
(* Two stores that share no row, for TLC: the ledger and a user's account. *)
(* A behaviour is one of the store picked at its start, and the rows of    *)
(* the other stay as they begin.                                           *)
(***************************************************************************)
EXTENDS AccountAccess, TLC

CONSTANTS
  Campaigns, Creators, Businesses, BusinessOf, Slots, CampaignOf,
  Payments, NoPayment, PostingId,
  Rewards, Adjustments, Amounts, c1, c2, b1

VARIABLES store, reward, declaredFee, payment, fee, intent, journal

Ledger == INSTANCE CampaignLedger

ASSUME AccountIsAssumed == AccountAssumption
ASSUME SlotsAreAssumed == Ledger!SlotsAssumption

ledgerRows == <<reward, declaredFee, payment, fee, intent, journal>>

\* A campaign of each three rewards for its funding, and one that is also
\* settled: the fees of its slots are rounded up twice and down once.
IsSettled == reward = <<13, 5, 10, 13>>

MCInit ==
  /\ store \in {"ledger", "account"}
  /\ Init
  /\ Ledger!Init
  /\ IF store = "ledger" THEN IsSettled \/ reward[4] = 1
     ELSE /\ reward = [s \in Slots |-> 13]
          /\ \A c \in Campaigns :
               declaredFee[c] = Ledger!PlatformFee(Ledger!RewardsOf(c))

MCNext ==
  /\ UNCHANGED store
  /\ \/ /\ store = "ledger"
        /\ \/ \E c \in Campaigns, p \in Payments : Ledger!RecordCampaignFunding(c, p)
           \/ IsSettled /\ Ledger!Next
        /\ UNCHANGED vars
     \/ store = "account" /\ Next /\ UNCHANGED ledgerRows

MCSpec == MCInit /\ [][MCNext]_<<store, vars, ledgerRows>>

\* The fourth slot is the second campaign's.
TwoCampaigns == [s \in Slots |-> IF s <= 3 THEN c1 ELSE c2]
OneBusiness  == [c \in Campaigns |-> b1]

\* Two payments with nothing in common, and the first one's object once more
\* under an event of its own.
MCPayments ==
  {[event |-> "e1", object |-> "o1", group |-> "t1", id |-> "funding_1"],
   [event |-> "e2", object |-> "o2", group |-> "t2", id |-> "funding_2"],
   [event |-> "e3", object |-> "o1", group |-> "t3", id |-> "funding_3"]}

\* The one adjustment is named as the fourth slot's posting would be.
MCPostingId == <<"ledger_1", "ledger_2", "ledger_3", "adj_1">>

\* Three bindings of two providers: google, apple, and another of google.
MCProvider == [i \in Methods |-> IF i = "other" THEN "google" ELSE i]

\* The ledger's creators are the account's staff, as model values.
Interchangeable ==
  Permutations(Sessions) \cup Permutations(Grants)
    \cup Permutations(Staff) \cup Permutations(Calls)

-----------------------------------------------------------------------------
\* CampaignLedger: what every ledger account holds, by the missions.
BalancesExplained == Ledger!BalancesExplained

\* CampaignLedger: the fee is split without loss.
FeeIsAllocated == Ledger!FeeIsAllocated
=============================================================================
