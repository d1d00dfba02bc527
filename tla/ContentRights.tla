---------------------------- MODULE ContentRights -----------------------------
(***************************************************************************)
(* The licences of one mission's content (packages/db/src/rights-store.ts  *)
(* with its tables and the triggers of migrations 0008 and 0015): the      *)
(* contract, the first terms, renewals and their separate funding, expiry. *)
(* Each method locks the row it decides on and reads the rest under that   *)
(* lock, so a method is one step; its now() is the start of its            *)
(* transaction, up to MaxLockWait before the step.  Renewal n of a kind    *)
(* is that of its term n.  The mission's own progress is external.         *)
(* What the database refuses is rolled back and leaves no trace, so it is  *)
(* no step: OfferIsFirst, AcceptanceIsFirst and IsNewEvent are unique      *)
(* indexes, not checks of the store.  Amounts, and with them the CHECKs    *)
(* that refuse a renewal whose reward or fee rounds to nothing, are left   *)
(* out.                                                                    *)
(***************************************************************************)
EXTENDS Integers, Sequences, FiniteSets

CONSTANTS
  Kinds,        \* kinds of licence
  Included,     \* the one every rights offer has
  Length,       \* of a term of each kind: 90 days, 12 months, 30 days
  Window,       \* a renewal may be asked for in a term's last 30 days
  Events,       \* provider events that report a payment
  NoEvent,
  MaxTerms,     \* bound: terms of one kind
  MaxTime,      \* bound: the clock
  MaxLockWait   \* bound: ticks between BEGIN and the lock

\* What the constants must be.
ASSUME BoundsAssumption ==
  /\ Included \in Kinds
  /\ Length \in [Kinds -> Nat \ {0}]
  /\ Window \in Nat /\ MaxTerms \in Nat \ {0}
  /\ MaxTime \in Nat /\ MaxLockWait \in Nat
  /\ NoEvent \notin Events

VARIABLES
  clock,
  mission,     \* the assignment with its application, slot and obligation
  documents,   \* types of legal document with an effective version
  offer,       \* kinds the slot's rights offer selects; {} before there is one
  acceptance,  \* is there a mission_contract_acceptances row?
  licenses,    \* of each kind: its terms in order
  renewals,    \* of each kind and term: its renewal and funding intent
  payables     \* of each kind and term: content_license_renewal_payables rows

vars == <<clock, mission, documents, offer, acceptance, licenses, renewals, payables>>

Terms == 1..MaxTerms
DocumentTypes == {"creator_terms", "sponsorship_disclosure"}
Missions == {"draft", "scheduled", "underway", "payable", "unpaid"}
RenewalStatus == {"none", "requested", "accepted", "declined", "funding_pending",
                  "funded", "funding_failed", "abandoned"}
FundingStatus == {"none", "pending_provider", "confirmed", "failed", "abandoned"}
LicenseRow == [starts: Nat, expires: Nat, status: {"active", "expired"}]
RenewalRow == [status: RenewalStatus, funding: FundingStatus, event: Events \cup {NoEvent}]
NoRenewal == [status |-> "none", funding |-> "none", event |-> NoEvent]

Init ==
  /\ clock = 0
  /\ mission = "draft" /\ documents = {} /\ offer = {}
  /\ acceptance = FALSE
  /\ licenses = [k \in Kinds |-> <<>>]
  /\ renewals = [k \in Kinds |-> [n \in Terms |-> NoRenewal]]
  /\ payables = [k \in Kinds |-> [n \in Terms |-> 0]]

(* now() of a transaction that gets its lock at this moment. *)
Nows == {b \in 0..clock : b >= clock - MaxLockWait}

Later(a, b) == IF a < b THEN b ELSE a
Exists(k, n) == n \in 1..Len(licenses[k])

-----------------------------------------------------------------------------
(* The mission, external: its campaign is published and its slot assigned, it
   starts, and ends with the full reward owed or not. *)
MissionMoves ==
  /\ \/ mission = "draft" /\ mission' = "scheduled"
     \/ mission = "scheduled" /\ mission' \in {"underway", "unpaid"}
     \/ mission = "underway" /\ mission' \in {"payable", "unpaid"}
  /\ UNCHANGED <<clock, documents, offer, acceptance, licenses, renewals, payables>>

PublishLegalDocumentVersion ==
  /\ \E type \in DocumentTypes : documents' = documents \cup {type}
  /\ UNCHANGED <<clock, mission, offer, acceptance, licenses, renewals, payables>>

(* One row for each slot: the index mission_rights_offers_slot_uq. *)
OfferIsFirst == offer = {}

(* The store's own check: only while the campaign is a draft. *)
ConfigureRightsOffer ==
  /\ mission = "draft" /\ OfferIsFirst
  /\ \E selected \in SUBSET Kinds : Included \in selected /\ offer' = selected
  /\ UNCHANGED <<clock, mission, documents, acceptance, licenses, renewals, payables>>

(* One row for each assignment: mission_contract_acceptances_assignment_uq. *)
AcceptanceIsFirst == ~acceptance

(* The store's own checks: an offer, the documents, and only before check-in. *)
AcceptMissionContract ==
  /\ mission = "scheduled" /\ offer # {} /\ documents = DocumentTypes
  /\ AcceptanceIsFirst
  /\ acceptance' = TRUE
  /\ UNCHANGED <<clock, mission, documents, offer, licenses, renewals, payables>>

(* completed work, full payable; a set that exists is returned as it is. *)
ActivationHolds ==
  /\ acceptance /\ mission = "payable"
  /\ \A k \in Kinds : licenses[k] = <<>>

Term(k, start) == [starts |-> start, expires |-> start + Length[k], status |-> "active"]

ActivateInitialLicenses(now) ==
  /\ ActivationHolds
  /\ licenses' = [k \in Kinds |-> IF k \in offer THEN <<Term(k, now)>> ELSE <<>>]
  /\ UNCHANGED <<clock, mission, documents, offer, acceptance, renewals, payables>>

-----------------------------------------------------------------------------
IsOpenForRenewal(license, now) ==
  /\ license.status = "active"
  /\ now < license.expires /\ license.expires <= now + Window

RequestRenewal(k, n, now) ==
  /\ Exists(k, n) /\ IsOpenForRenewal(licenses[k][n], now)
  /\ renewals[k][n].status = "none"
  /\ renewals' = [renewals EXCEPT ![k][n].status = "requested"]
  /\ UNCHANGED <<clock, mission, documents, offer, acceptance, licenses, payables>>

DecideRenewal(k, n) ==
  /\ renewals[k][n].status = "requested"
  /\ \E decision \in {"accepted", "declined"} :
        renewals' = [renewals EXCEPT ![k][n].status = decision]
  /\ UNCHANGED <<clock, mission, documents, offer, acceptance, licenses, payables>>

BeginRenewalFunding(k, n) ==
  /\ renewals[k][n].status = "accepted"
  /\ renewals' = [renewals EXCEPT ![k][n].status = "funding_pending",
                                  ![k][n].funding = "pending_provider"]
  /\ UNCHANGED <<clock, mission, documents, offer, acceptance, licenses, payables>>

ClosedForAnotherTry(renewal, outcome) ==
  [renewal EXCEPT !.funding = outcome, !.status = "accepted"]

Closed(renewal, outcome) ==
  [renewal EXCEPT !.funding = outcome,
                  !.status = IF outcome = "failed" THEN "funding_failed" ELSE "abandoned"]

CloseRenewalFunding(k, n) ==
  /\ renewals[k][n].funding = "pending_provider"
  /\ \E outcome \in {"failed", "abandoned"} :
        renewals' = [renewals EXCEPT ![k][n] = Closed(@, outcome)]
  /\ UNCHANGED <<clock, mission, documents, offer, acceptance, licenses, payables>>

(* The first report of a payment.  A second one returns the licence or conflicts. *)
FundingHolds(k, n) ==
  /\ Exists(k, n) /\ licenses[k][n].status \in {"active", "expired"}
  /\ renewals[k][n].status = "funding_pending"
  /\ renewals[k][n].funding = "pending_provider"

(* The indexes content_license_renewal_funding_snapshots_event_uq and, as an
   event stands for the invoice and the payment intent it reports, those of the
   provider references. *)
IsNewEvent(e) == \A k \in Kinds, n \in Terms : renewals[k][n].event # e

StartWhereItEnded(k, n, now) == licenses[k][n].expires
StartOfNextTerm(k, n, now) == Later(licenses[k][n].expires, now)

FundedButPending(renewal, e) ==
  [renewal EXCEPT !.status = "funded", !.event = e]
Funded(renewal, e) ==
  [renewal EXCEPT !.status = "funded", !.funding = "confirmed", !.event = e]

RecordAuthoritativeRenewalFunding(k, n, e, now) ==
  /\ FundingHolds(k, n) /\ IsNewEvent(e)
  /\ n + 1 \in Terms
  /\ ~ Exists(k, n + 1)
  /\ licenses' = [licenses EXCEPT ![k] = Append(@, Term(k, StartOfNextTerm(k, n, now)))]
  /\ payables' = [payables EXCEPT ![k][n] = @ + 1]
  /\ renewals' = [renewals EXCEPT ![k][n] = Funded(@, e)]
  /\ UNCHANGED <<clock, mission, documents, offer, acceptance>>

-----------------------------------------------------------------------------
IsDue(license, now) == license.status = "active" /\ license.expires <= now

ExpireDueLicenses(now) ==
  /\ \E k \in Kinds : \E n \in 1..Len(licenses[k]) : IsDue(licenses[k][n], now)
  /\ licenses' = [k \in Kinds |-> [n \in 1..Len(licenses[k]) |->
        IF IsDue(licenses[k][n], now) THEN [licenses[k][n] EXCEPT !.status = "expired"]
                                      ELSE licenses[k][n]]]
  /\ UNCHANGED <<clock, mission, documents, offer, acceptance, renewals, payables>>

Tick ==
  /\ clock < MaxTime /\ clock' = clock + 1
  /\ UNCHANGED <<mission, documents, offer, acceptance, licenses, renewals, payables>>

Next ==
  \/ MissionMoves \/ PublishLegalDocumentVersion \/ ConfigureRightsOffer
  \/ AcceptMissionContract
  \/ Tick
  \/ \E now \in Nows :
        \/ ActivateInitialLicenses(now)
        \/ ExpireDueLicenses(now)
        \/ \E k \in Kinds, n \in Terms :
              \/ RequestRenewal(k, n, now)
              \/ \E e \in Events : RecordAuthoritativeRenewalFunding(k, n, e, now)
  \/ \E k \in Kinds, n \in Terms :
        DecideRenewal(k, n) \/ BeginRenewalFunding(k, n) \/ CloseRenewalFunding(k, n)

Spec == Init /\ [][Next]_vars

-----------------------------------------------------------------------------
(* Every variable keeps its type, and a renewal belongs to a term. *)
TypeOK ==
  /\ clock \in Nat /\ mission \in Missions /\ acceptance \in BOOLEAN
  /\ documents \subseteq DocumentTypes
  /\ offer \subseteq Kinds /\ (offer # {} => Included \in offer)
  /\ licenses \in [Kinds -> Seq(LicenseRow)]
  /\ \A k \in Kinds : Len(licenses[k]) <= MaxTerms
  /\ renewals \in [Kinds -> [Terms -> RenewalRow]]
  /\ payables \in [Kinds -> [Terms -> Nat]]
  /\ \A k \in Kinds, n \in Terms : renewals[k][n].status # "none" => Exists(k, n)

(* The renewal of one term, its intent, the term after it and its payable. *)
RenewalAgrees(k, n) ==
  LET renewal == renewals[k][n] IN
  /\ (renewal.status = "funded") <=> Exists(k, n + 1)
  /\ (renewal.status = "funded") <=> (renewal.funding = "confirmed")
  /\ (renewal.status = "funded") <=> (renewal.event # NoEvent)
  /\ (renewal.status = "funding_pending") <=> (renewal.funding = "pending_provider")
  /\ (renewal.funding = "none") <=>
        (renewal.status \in {"none", "requested", "accepted", "declined"})
  /\ payables[k][n] = IF renewal.status = "funded" THEN 1 ELSE 0

(* A paid renewal leaves exactly one of everything, whatever order payments,
   failures and repeated reports arrive in: a further term if and only if the
   renewal is funded, its intent confirmed by an event of its own and one
   reward payable; a pending intent only under a pending renewal
   (0015_slim_joshua_kane.sql:249-299). *)
RenewalsAgree ==
  \A k \in Kinds, n \in Terms :
     /\ RenewalAgrees(k, n)
     /\ renewals[k][n].event # NoEvent =>
           \A j \in Kinds, m \in Terms :
              renewals[j][m].event = renewals[k][n].event => j = k /\ m = n

(* What comes first: rights need the contract and the full reward, the contract
   an offer and the documents; every term has the length of its kind. *)
RightsBegin ==
  /\ acceptance => mission # "draft" /\ offer # {} /\ documents = DocumentTypes
  /\ \A k \in Kinds : \A n \in 1..Len(licenses[k]) :
        /\ acceptance /\ mission = "payable" /\ k \in offer
        /\ licenses[k][n].expires = licenses[k][n].starts + Length[k]

(* The rows keep their types and agree with each other. *)
InductiveInvariant == TypeOK /\ RightsBegin /\ RenewalsAgree

(* "Renewals cannot be backdated": a term paid for is wholly ahead, but for the
   time its payment waited for a lock, and begins no earlier than the one
   before it ends; so no two terms of a kind are ever usable at once
   (historical-completion-log.md:1929, rights-store.ts:1294). *)
PaidTermsAreAhead ==
  [][\A k \in Kinds : Len(licenses'[k]) > Len(licenses[k]) /\ licenses[k] # <<>> =>
        LET next == licenses'[k][Len(licenses'[k])] IN
        /\ next.starts >= clock - MaxLockWait
        /\ next.starts >= licenses[k][Len(licenses[k])].expires]_vars

-----------------------------------------------------------------------------
LastTerm(k) == licenses[k][Len(licenses[k])]

DealOf(status) ==
  CASE status = "none" -> "none"
    [] status = "requested" -> "asked"
    [] status = "accepted" -> "agreed"
    [] status \in {"funding_pending", "funded"} -> "charged"
    [] OTHER -> "refused"

\* The payables of a kind, one by one.
Payables(k) == UNION {{n} \X (1..payables[k][n]) : n \in Terms}

Promise == INSTANCE RightsPromise WITH
  contract <- IF acceptance THEN offer ELSE {},
  earned <- (mission = "payable"),
  terms  <- [k \in Kinds |-> Len(licenses[k])],
  until  <- [k \in Kinds |-> IF licenses[k] = <<>> THEN 0 ELSE LastTerm(k).expires],
  deal   <- [k \in Kinds |-> IF licenses[k] = <<>> THEN "none"
                                   ELSE DealOf(renewals[k][Len(licenses[k])].status)],
  owed   <- [k \in Kinds |-> Cardinality(Payables(k))]

(* The rows keep what the contract promises: rights begin with consent and the
   full reward, grow only by whole terms the creator agreed to and is owed
   for, and end for good with a renewal declined, failed or abandoned
   (architecture.md:383, 391 and 392). *)
ImplementsRightsPromise == Promise!Spec
=============================================================================
