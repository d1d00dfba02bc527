--------------------------- MODULE CampaignLedger ---------------------------
(***************************************************************************)
(* The double-entry journal of ledger-store.ts: an approved campaign is    *)
(* funded, its money is allocated to the slots, the closed missions spend  *)
(* the allocations, and finance operators post adjustments.                *)
(*                                                                         *)
(* Every call is one transaction serialised by the lock it takes first     *)
(* (campaign, intent, or the advisory lock of the adjustment), and a call  *)
(* may be repeated at any time.  What a CHECK or a unique index refuses is *)
(* rolled back, so that such a call is no step: IsNewPayment, IsNew and    *)
(* AmountsArePositive are the database's, the other guards the store's.    *)
(* Closing a mission is MissionLifecycle's.                                *)
(***************************************************************************)
EXTENDS FeeAllocation

CONSTANTS
  Campaigns, Creators, Businesses,
  BusinessOf,    \* campaigns.business_id
  Slots,         \* all mission slots; the numbers are their ordinals
  CampaignOf,    \* mission_slots.campaign_id
  Rewards,       \* mission_slots.reward_minor
  Payments,      \* what is reported of a provider's payment: its event, object
                 \* and transfer group, and the id its transaction is to get
  NoPayment,
  PostingId,     \* of each slot's intent: the id its transaction gets
  Adjustments,   \* ids that finance operators give their adjustments
  Amounts        \* amounts of adjustments

\* What the constants must be.
SlotsAssumption ==
  /\ Slots \subseteq Nat /\ IsFiniteSet(Slots)
  /\ CampaignOf \in [Slots -> Campaigns]
  /\ BusinessOf \in [Campaigns -> Businesses]
  /\ NoPayment \notin Payments
  /\ Rewards \subseteq Nat \ {0}
  /\ Amounts \subseteq Nat \ {0}

VARIABLES
  reward,        \* mission_slots.reward_minor, fixed with the contract
  declaredFee,   \* campaigns.platform_fee_minor, as the business sent it
  payment,       \* campaign_funding_snapshots: what was paid for the campaign
  fee,           \* slot_funding_allocations.platform_fee_minor; 0: no row
  intent,        \* financial_action_intents of the slot's closed mission
  journal        \* ledger_transactions with their ledger_entries

contract == <<reward, declaredFee>>
vars     == <<contract, payment, fee, intent, journal>>

Account ==
  [code : {"provider_clearing", "platform_fee_revenue"}]
    \cup [code : {"campaign_funds"}, campaign : Campaigns]
    \cup [code : {"business_refund_payable"}, business : Businesses]
    \cup [code : {"creator_payable"}, creator : Creators]

Clearing      == [code |-> "provider_clearing"]
FeeRevenue    == [code |-> "platform_fee_revenue"]
Funds(c)      == [code |-> "campaign_funds", campaign |-> c]
Refunds(b)    == [code |-> "business_refund_payable", business |-> b]
Payable(u)    == [code |-> "creator_payable", creator |-> u]

\* Every posting debits one account and credits one or two others.
Transaction(id, type, source, debit, total, credits) ==
  [id |-> id, source |-> <<type, source>>, debit |-> debit, total |-> total,
   credits |-> credits]

Credit(account, amount) == [account |-> account, amount |-> amount]

Closed == [action : {"creator_payable_full", "business_refund_full"},
           creator : Creators, posted : BOOLEAN]

NoIntent == [action |-> "none"]

SlotsOf(c)      == {s \in Slots : CampaignOf[s] = c}
RewardsOf(c)    == [s \in SlotsOf(c) |-> reward[s]]
TotalMinor(s)   == reward[s] + fee[s]

\* The campaigns with a funding snapshot.
Funded == {c \in Campaigns : payment[c] # NoPayment}

\* The accounts that ensureAccount has made so far.
LedgerAccounts ==
  {t.debit : t \in journal}
    \cup UNION {{credit.account : credit \in t.credits} : t \in journal}

TypeOK ==
  /\ reward      \in [Slots -> Rewards]
  /\ declaredFee \in [Campaigns -> Nat]
  /\ payment     \in [Campaigns -> Payments \cup {NoPayment}]
  /\ fee         \in [Slots -> Nat]
  /\ intent      \in [Slots -> Closed \cup {NoIntent}]
  /\ LedgerAccounts \subseteq Account
  /\ \A t \in journal :
       /\ t.total \in Nat \ {0}
       /\ \A credit \in t.credits : credit.amount \in Nat \ {0}

\* The business declares the fee; nothing checks it before the funding.
Init ==
  /\ reward \in [Slots -> Rewards]
  /\ declaredFee \in {[c \in Campaigns |-> PlatformFee(RewardsOf(c)) + extra] :
                        extra \in {0, 1}}
  /\ payment = [c \in Campaigns |-> NoPayment]
  /\ fee     = [s \in Slots |-> 0]
  /\ intent  = [s \in Slots |-> NoIntent]
  /\ journal = {}

-----------------------------------------------------------------------------
FeeIsDisclosedFee(c) == declaredFee[c] = PlatformFee(RewardsOf(c))

\* Otherwise the fee "cannot be reconciled deterministically" and is refused.
IsReconcilable(c) ==
  CentsToAssign(RewardsOf(c)) \in 0 .. Cardinality(SlotsOf(c))

\* The CHECKs of campaign_funding_snapshots and slot_funding_allocations: a fee
\* of nothing fails the INSERT and the whole funding with it.
AmountsArePositive(c, allocation) ==
  /\ declaredFee[c] > 0
  /\ \A s \in SlotsOf(c) : allocation[s] > 0

TotalDue(c) == Pool(RewardsOf(c)) + declaredFee[c]

FundingBy(c, p) ==
  Transaction(p.id, "provider_funding", p.event, Clearing, TotalDue(c),
              {Credit(Funds(c), TotalDue(c))})

Funding(c) == FundingBy(c, payment[c])

\* The unique indexes of the snapshots and the provider references: an event,
\* an object and a transfer group pay for one campaign.
IsNewPayment(p) ==
  \A c \in Funded, part \in {"event", "object", "group"} : payment[c][part] # p[part]

\* The two unique indexes of ledger_transactions, on the public id, which all
\* kinds share, and on the source.
IsNew(transaction) ==
  \A t \in journal : t.id # transaction.id /\ t.source # transaction.source

(* recordCampaignFunding.  For a funded campaign the same report is        *)
(* answered with its snapshot and another is refused.                      *)
RecordCampaignFunding(c, p) ==
  LET allocation == AllocateFifteenPercentFee(RewardsOf(c)) IN
  /\ c \notin Funded
  /\ FeeIsDisclosedFee(c)
  /\ IsReconcilable(c)
  /\ AmountsArePositive(c, allocation) /\ IsNewPayment(p) /\ IsNew(FundingBy(c, p))
  /\ payment' = [payment EXCEPT ![c] = p]
  /\ fee'     = [s \in Slots |-> IF s \in SlotsOf(c) THEN allocation[s]
                                                     ELSE fee[s]]
  /\ journal' = journal \cup {FundingBy(c, p)}
  /\ UNCHANGED <<contract, intent>>

\* A mission of a published campaign closes and leaves its intent.
CloseMission(s, u, action) ==
  /\ CampaignOf[s] \in Funded
  /\ intent[s] = NoIntent
  /\ intent' = [intent EXCEPT ![s] = [action |-> action, creator |-> u,
                                      posted |-> FALSE]]
  /\ UNCHANGED <<contract, payment, fee, journal>>

\* Mutant: pays the creator everything the business paid for the slot.
SlotCreditsWithFee(s) == {Credit(Payable(intent[s].creator), TotalMinor(s))}

\* The credits of a completed slot: the reward and the fee earned with it.
SlotCredits(s) == {Credit(Payable(intent[s].creator), reward[s]),
                   Credit(FeeRevenue, fee[s])}

\* The credit of a refunded slot: everything the business paid for it.
SlotRefund(s) == {Credit(Refunds(BusinessOf[CampaignOf[s]]), TotalMinor(s))}

Posting(s) ==
  Transaction(PostingId[s], "financial_action_intent", s, Funds(CampaignOf[s]), TotalMinor(s),
              IF intent[s].action = "creator_payable_full"
                THEN SlotCredits(s) ELSE SlotRefund(s))

IsPending(s) == intent[s] # NoIntent /\ ~intent[s].posted

(* consumeFinancialActionIntent.  A repeated call finds the intent posted  *)
(* and answers with its journal; one whose id an adjustment has taken is   *)
(* refused each time.                                                      *)
ConsumeFinancialActionIntent(s) ==
  /\ IsPending(s)
  /\ IsNew(Posting(s))
  /\ intent'  = [intent EXCEPT ![s].posted = TRUE]
  /\ journal' = journal \cup {Posting(s)}
  /\ UNCHANGED <<contract, payment, fee>>

Adjustment(id, debit, credit, amount) ==
  Transaction(id, "finance_adjustment", id, debit, amount, {Credit(credit, amount)})

(* postFinanceAdjustment, by a finance operator, between accounts that     *)
(* exist.  No balance is looked at.  The id of another adjustment is the   *)
(* store's to answer or refuse; the id of any other transaction passes its *)
(* checks and is refused by the index.                                     *)
PostFinanceAdjustment(id, debit, credit, amount) ==
  /\ IsNew(Adjustment(id, debit, credit, amount))
  /\ debit \in LedgerAccounts /\ credit \in LedgerAccounts
  /\ debit # credit
  /\ journal' = journal \cup {Adjustment(id, debit, credit, amount)}
  /\ UNCHANGED <<contract, payment, fee, intent>>

-----------------------------------------------------------------------------
Next ==
  \/ \E c \in Campaigns, p \in Payments : RecordCampaignFunding(c, p)
  \/ \E s \in Slots, u \in Creators :
       \/ CloseMission(s, u, "creator_payable_full")
       \/ CloseMission(s, u, "business_refund_full")
  \/ \E s \in Slots : ConsumeFinancialActionIntent(s)
  \/ \E id \in Adjustments, debit, credit \in LedgerAccounts, amount \in Amounts :
       PostFinanceAdjustment(id, debit, credit, amount)

Spec == Init /\ [][Next]_vars

-----------------------------------------------------------------------------
Credited(t, account) ==
  SumFunction([credit \in {c \in t.credits : c.account = account} |-> credit.amount])

Debited(t, account) == IF t.debit = account THEN t.total ELSE 0

\* What the transactions in S leave on an account, as money the platform owes.
Balance(S, account) ==
  SumFunction([t \in S |-> Credited(t, account) - Debited(t, account)])

IsAdjustment(t) == t.source[1] = "finance_adjustment"

Posted(action) == {s \in Slots : /\ intent[s] # NoIntent
                                 /\ intent[s].action = action
                                 /\ intent[s].posted}

RewardsPaid(S)  == SumFunction([s \in S |-> reward[s]])
FeesEarned(S)   == SumFunction([s \in S |-> fee[s]])
TotalsOwed(S)   == SumFunction([s \in S |-> TotalMinor(s)])

\* What an account should hold, computed from the missions and never from the
\* journal.
Expected(account) ==
  LET earned   == Posted("creator_payable_full")
      refunded == Posted("business_refund_full")
      paidFor  == {s \in Slots : CampaignOf[s] \in Funded}
  IN
  CASE account.code = "campaign_funds" ->
         TotalsOwed((paidFor \cap SlotsOf(account.campaign)) \ (earned \cup refunded))
    [] account.code = "business_refund_payable" ->
         TotalsOwed({s \in refunded : BusinessOf[CampaignOf[s]] = account.business})
    [] account.code = "creator_payable" ->
         RewardsPaid({s \in earned : intent[s].creator = account.creator})
    [] account.code = "platform_fee_revenue" -> FeesEarned(earned)
    [] account.code = "provider_clearing" -> - TotalsOwed(paidFor)

(* Apart from what finance operators adjusted, every account holds exactly *)
(* what the missions say: a campaign the money of the slots not settled    *)
(* yet, a creator the rewards earned, a business its refunds, the platform *)
(* the fees of completed slots only.                                       *)
BalancesExplained ==
  \A account \in Account :
    Balance(journal, account) =
      Expected(account) + Balance({t \in journal : IsAdjustment(t)}, account)

(* The fees of a funded campaign add up to the fee it disclosed, which is  *)
(* 15% of its pool to the nearest unit; each slot carries its own 15% to   *)
(* within one unit, and a slot is rounded up only after every slot with a  *)
(* larger remainder.  And whatever the rewards, the units left by rounding *)
(* down are enough for the fee and never more than the slots: the refusal  *)
(* as irreconcilable is never met.                                         *)
FeeIsAllocated ==
  /\ \A c \in Campaigns : IsReconcilable(c)
  /\ \A c \in Funded :
       LET slots == SlotsOf(c)
           fees  == FeesEarned(slots)
           RoundsUp(s) == fee[s] * 100 > reward[s] * 15
       IN
       /\ fees = declaredFee[c]
       /\ fees * 100 - Pool(RewardsOf(c)) * 15 \in -49 .. 50
       /\ \A s \in slots : fee[s] * 100 - reward[s] * 15 \in -99 .. 99
       /\ \A s, t \in slots :
            RoundsUp(s) /\ ~RoundsUp(t) => Remainder(reward[s]) >= Remainder(reward[t])

-----------------------------------------------------------------------------
(* What the proofs need beside the two properties: the journal is told by  *)
(* the other rows, transaction by transaction, and by the operators.       *)
IsPosted(s) == intent[s] # NoIntent /\ intent[s].posted

JournalIsTold ==
  /\ IsFiniteSet(journal)
  /\ \A t \in journal :
       \/ \E c \in Funded : t = Funding(c)
       \/ \E s \in Slots : IsPosted(s) /\ t = Posting(s)
       \/ \E id \in Adjustments, debit, credit \in Account, amount \in Amounts :
            t = Adjustment(id, debit, credit, amount)
  /\ \A c \in Funded : Funding(c) \in journal
  /\ \A s \in Slots : IsPosted(s) => Posting(s) \in journal
  /\ \A t, u \in journal : t.source = u.source => t = u

FundingComesFirst ==
  /\ \A s \in Slots : intent[s] # NoIntent => CampaignOf[s] \in Funded
  /\ \A c \in Funded :
       /\ FeeIsDisclosedFee(c) /\ declaredFee[c] > 0
       /\ \A s \in SlotsOf(c) : /\ fee[s] = AllocateFifteenPercentFee(RewardsOf(c))[s]
                                /\ fee[s] > 0
  /\ \A s \in Slots : CampaignOf[s] \notin Funded => fee[s] = 0

InductiveInvariant ==
  TypeOK /\ FundingComesFirst /\ JournalIsTold /\ BalancesExplained
=============================================================================
