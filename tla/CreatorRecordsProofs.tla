------------------------ MODULE CreatorRecordsProofs ------------------------
(***************************************************************************)
(* Proofs about what is on record of a creator.                            *)
(*                                                                         *)
(* ContentRights: the rows of a mission's licences agree, no paid term is  *)
(* backdated, and the store implements RightsPromise.  LocalityProof: the  *)
(* badge is the credential.  ReachQualification: proofs, tiers and calls   *)
(* agree, and no tier is revived.  MobileSession: the device holds what is *)
(* its own and granted.  Each for every value of its constants; the last   *)
(* theorems say it of MCCreatorRecords, which runs one of the four.        *)
(***************************************************************************)
EXTENDS MCCreatorRecords, FiniteSetTheorems, TLAPS


-----------------------------------------------------------------------------
(* Sequences of rows.                                                      *)

LEMMA RowsOfSequence ==
  ASSUME NEW S, NEW s \in Seq(S)
  PROVE  Len(s) \in Nat /\ DOMAIN s = 1..Len(s) /\ (\A n \in 1..Len(s) : s[n] \in S)
         /\ (s = <<>> <=> Len(s) = 0)
OBVIOUS

LEMMA FunctionIsSequence ==
  ASSUME NEW S, NEW m \in Nat, NEW f \in [1..m -> S]
  PROVE  f \in Seq(S) /\ Len(f) = m
OBVIOUS

LEMMA OneRow ==
  ASSUME NEW S, NEW x \in S
  PROVE  <<x>> \in Seq(S) /\ Len(<<x>>) = 1 /\ <<x>>[1] = x
OBVIOUS

LEMMA RowAppended ==
  ASSUME NEW S, NEW s \in Seq(S), NEW x \in S
  PROVE  /\ Append(s, x) \in Seq(S) /\ Len(Append(s, x)) = Len(s) + 1
         /\ Append(s, x)[Len(s) + 1] = x
         /\ \A n \in 1..Len(s) : Append(s, x)[n] = s[n]
OBVIOUS

-----------------------------------------------------------------------------
LEMMA LaterIsLater ==
  ASSUME NEW a \in Nat, NEW b \in Nat
  PROVE  Later(a, b) \in Nat /\ Later(a, b) >= a /\ Later(a, b) >= b
BY DEF Later

LEMMA NowIsNatural ==
  ASSUME clock \in Nat, NEW now \in Nows
  PROVE  now \in Nat /\ now >= clock - MaxLockWait
BY BoundsAssumption DEF Nows

LEMMA TermIsRow ==
  ASSUME NEW k \in Kinds, NEW start \in Nat
  PROVE  /\ Term(k, start) \in LicenseRow
         /\ Term(k, start).starts = start
         /\ Term(k, start).expires = start + Length[k]
BY BoundsAssumption DEF Term, LicenseRow

-----------------------------------------------------------------------------
(* The rows agree.                                                         *)

LEMMA InitInvariant == Init => InductiveInvariant
<1> SUFFICES ASSUME Init PROVE InductiveInvariant
  OBVIOUS
<1>1. \A k \in Kinds : Len(licenses[k]) = 0 /\ licenses[k] \in Seq(LicenseRow)
  BY DEF Init
<1>2. NoRenewal \in RenewalRow
  BY DEF NoRenewal, RenewalRow, RenewalStatus, FundingStatus
<1>3. TypeOK
  <2>1. \A k \in Kinds : Len(licenses[k]) <= MaxTerms
    BY <1>1, BoundsAssumption
  <2> QED
    BY <1>1, <1>2, <2>1 DEF Init, TypeOK, Missions, DocumentTypes, NoRenewal
<1>4. RightsBegin
  BY <1>1 DEF Init, RightsBegin
<1>5. RenewalsAgree
  BY <1>1 DEF Init, RenewalsAgree, RenewalAgrees, Exists, Terms, NoRenewal
<1> QED
  BY <1>3, <1>4, <1>5 DEF InductiveInvariant

(* Steps before there is a licence, and time. *)
LEMMA QuietStep ==
  ASSUME InductiveInvariant,
         MissionMoves \/ PublishLegalDocumentVersion \/ ConfigureRightsOffer
           \/ AcceptMissionContract \/ Tick
  PROVE  InductiveInvariant'
<1>1. licenses' = licenses /\ renewals' = renewals /\ payables' = payables
  BY DEF MissionMoves, PublishLegalDocumentVersion, ConfigureRightsOffer,
         AcceptMissionContract, Tick
<1>2. /\ clock' \in Nat /\ mission' \in Missions /\ acceptance' \in BOOLEAN
      /\ documents' \subseteq DocumentTypes /\ offer' \subseteq Kinds
      /\ (offer' # {} => Included \in offer')
  <2> USE DEF InductiveInvariant, TypeOK
  <2>1. CASE MissionMoves
    BY <2>1 DEF MissionMoves, Missions
  <2>2. CASE PublishLegalDocumentVersion
    BY <2>2 DEF PublishLegalDocumentVersion
  <2>3. CASE ConfigureRightsOffer
    BY <2>3 DEF ConfigureRightsOffer, OfferIsFirst
  <2>4. CASE AcceptMissionContract
    BY <2>4 DEF AcceptMissionContract
  <2>5. CASE Tick
    BY <2>5 DEF Tick
  <2> QED
    BY <2>1, <2>2, <2>3, <2>4, <2>5
<1>3. TypeOK'
  BY <1>1, <1>2, Zenon DEF InductiveInvariant, TypeOK, Exists
<1>4. RightsBegin'
  BY <1>1 DEF MissionMoves, PublishLegalDocumentVersion, ConfigureRightsOffer, OfferIsFirst,
         AcceptMissionContract, Tick, InductiveInvariant, TypeOK, RightsBegin, DocumentTypes
<1>5. RenewalsAgree'
  <2>1. \A k \in Kinds, n \in Terms : RenewalAgrees(k, n)' <=> RenewalAgrees(k, n)
    BY <1>1 DEF RenewalAgrees, Exists
  <2> QED
    BY <1>1, <2>1 DEF InductiveInvariant, RenewalsAgree
<1> QED
  BY <1>3, <1>4, <1>5 DEF InductiveInvariant


(* The first terms of the offered kinds: there was none before. *)
LEMMA ActivationStep ==
  ASSUME InductiveInvariant, NEW now \in Nows, ActivateInitialLicenses(now)
  PROVE  InductiveInvariant'
<1> USE DEF ActivateInitialLicenses, ActivationHolds
<1>1. now \in Nat
  BY NowIsNatural DEF InductiveInvariant, TypeOK
<1>2. UNCHANGED <<clock, mission, documents, offer, acceptance, renewals, payables>>
  OBVIOUS
<1>3. acceptance /\ mission = "payable" /\ offer \subseteq Kinds
  BY DEF InductiveInvariant, TypeOK
<1>4. \A k \in Kinds : Len(licenses[k]) = 0
  OBVIOUS
<1>5. licenses' = [k \in Kinds |-> IF k \in offer THEN <<Term(k, now)>> ELSE <<>>]
  OBVIOUS
<1> HIDE DEF ActivateInitialLicenses, ActivationHolds
<1>6. \A k \in Kinds : /\ licenses'[k] \in Seq(LicenseRow)
                       /\ k \in offer => Len(licenses'[k]) = 1 /\ licenses'[k][1] = Term(k, now)
                       /\ k \notin offer => Len(licenses'[k]) = 0
  BY <1>1, <1>5, TermIsRow, OneRow
<1>7. \A k \in Kinds, n \in Terms : renewals[k][n].status = "none"
  BY <1>4 DEF InductiveInvariant, TypeOK, Exists
<1>8. TypeOK'
  <2>1. licenses' \in [Kinds -> Seq(LicenseRow)]
    BY <1>5, <1>6
  <2>2. ASSUME NEW k \in Kinds PROVE Len(licenses'[k]) <= MaxTerms
    <3>1. 0 <= MaxTerms /\ 1 <= MaxTerms
      BY BoundsAssumption
    <3>2. CASE k \in offer
      BY <1>6, <3>1, <3>2
    <3>3. CASE k \notin offer
      BY <1>6, <3>1, <3>3
    <3> QED
      BY <3>2, <3>3
  <2> QED
    BY <1>2, <1>7, <2>1, <2>2 DEF InductiveInvariant, TypeOK
<1>9. RightsBegin'
  BY <1>1, <1>2, <1>3, <1>6, TermIsRow DEF InductiveInvariant, RightsBegin
<1>10. RenewalsAgree'
  <2>1. ASSUME NEW k \in Kinds, NEW n \in Terms
        PROVE  ~ Exists(k, n + 1) /\ ~ Exists(k, n + 1)'
    <3>1. n \in Nat /\ n >= 1
      BY BoundsAssumption DEF Terms
    <3>2. Len(licenses[k]) = 0 /\ (Len(licenses'[k]) = 0 \/ Len(licenses'[k]) = 1)
      BY <1>4, <1>6
    <3>3. n + 1 \notin 1..0 /\ n + 1 \notin 1..1
      BY <3>1
    <3> QED
      BY <3>2, <3>3 DEF Exists
  <2>2. \A k \in Kinds, n \in Terms : RenewalAgrees(k, n)' <=> RenewalAgrees(k, n)
    BY <1>2, <2>1 DEF RenewalAgrees
  <2> QED
    BY <1>2, <2>2 DEF InductiveInvariant, RenewalsAgree
<1> QED
  BY <1>8, <1>9, <1>10 DEF InductiveInvariant

(* An expired term keeps its place, its start and its end. *)
LEMMA ExpiredRows ==
  ASSUME InductiveInvariant, NEW now \in Nows, ExpireDueLicenses(now), NEW k \in Kinds
  PROVE  /\ licenses'[k] \in Seq(LicenseRow) /\ Len(licenses'[k]) = Len(licenses[k])
         /\ \A n \in 1..Len(licenses[k]) :
               /\ licenses'[k][n].starts = licenses[k][n].starts
               /\ licenses'[k][n].expires = licenses[k][n].expires
               /\ \/ licenses'[k][n] = licenses[k][n]
                  \/ /\ licenses[k][n].status = "active"
                     /\ licenses'[k][n] = [licenses[k][n] EXCEPT !.status = "expired"]
<1> DEFINE row(n) == IF IsDue(licenses[k][n], now)
                     THEN [licenses[k][n] EXCEPT !.status = "expired"] ELSE licenses[k][n]
           f == [n \in 1..Len(licenses[k]) |-> row(n)]
<1>1. licenses'[k] = f
  BY DEF ExpireDueLicenses
<1>2. licenses[k] \in Seq(LicenseRow)
  BY DEF InductiveInvariant, TypeOK
<1>3. Len(licenses[k]) \in Nat /\ \A n \in 1..Len(licenses[k]) : licenses[k][n] \in LicenseRow
  BY <1>2, RowsOfSequence
<1>4. \A n \in 1..Len(licenses[k]) :
         /\ row(n) \in LicenseRow
         /\ row(n).starts = licenses[k][n].starts /\ row(n).expires = licenses[k][n].expires
         /\ \/ row(n) = licenses[k][n]
            \/ /\ licenses[k][n].status = "active"
               /\ row(n) = [licenses[k][n] EXCEPT !.status = "expired"]
  BY <1>3 DEF LicenseRow, IsDue
<1> HIDE DEF row
<1>5. f \in [1..Len(licenses[k]) -> LicenseRow]
  BY <1>4
<1>6. f \in Seq(LicenseRow) /\ Len(f) = Len(licenses[k])
  BY <1>3, <1>5, FunctionIsSequence
<1> QED
  BY <1>1, <1>4, <1>6

LEMMA ExpiryStep ==
  ASSUME InductiveInvariant, NEW now \in Nows, ExpireDueLicenses(now)
  PROVE  InductiveInvariant'
<1>1. UNCHANGED <<clock, mission, documents, offer, acceptance, renewals, payables>>
  BY DEF ExpireDueLicenses
<1>2. \A k \in Kinds : Len(licenses'[k]) = Len(licenses[k])
  BY ExpiredRows
<1>3. \A k \in Kinds, n \in Nat : Exists(k, n)' <=> Exists(k, n)
  BY <1>2 DEF Exists
<1>4. TypeOK'
  <2>1. licenses' = [k \in Kinds |-> licenses'[k]]
    BY DEF ExpireDueLicenses
  <2>2. licenses' \in [Kinds -> Seq(LicenseRow)]
    BY <2>1, ExpiredRows
  <2>3. \A k \in Kinds, n \in Terms : renewals'[k][n].status # "none" => Exists(k, n)'
    BY <1>1, <1>3 DEF InductiveInvariant, TypeOK, Terms
  <2>4. \A k \in Kinds : Len(licenses'[k]) <= MaxTerms
    BY <1>2 DEF InductiveInvariant, TypeOK
  <2> QED
    BY <1>1, <2>2, <2>3, <2>4 DEF InductiveInvariant, TypeOK
<1>5. RightsBegin'
  <2>1. ASSUME NEW k \in Kinds, NEW n \in 1..Len(licenses'[k])
        PROVE  /\ acceptance /\ mission = "payable" /\ k \in offer
               /\ licenses'[k][n].expires = licenses'[k][n].starts + Length[k]
    <3>1. n \in 1..Len(licenses[k])
      BY <1>2
    <3>2. /\ licenses'[k][n].starts = licenses[k][n].starts
          /\ licenses'[k][n].expires = licenses[k][n].expires
      BY <3>1, ExpiredRows
    <3> QED
      BY <3>1, <3>2 DEF InductiveInvariant, RightsBegin
  <2> QED
    BY <1>1, <2>1 DEF InductiveInvariant, RightsBegin
<1>6. RenewalsAgree'
  <2>1. \A k \in Kinds, n \in Terms : RenewalAgrees(k, n)' <=> RenewalAgrees(k, n)
    BY <1>1, <1>3 DEF RenewalAgrees, Terms
  <2> QED
    BY <1>1, <2>1 DEF InductiveInvariant, RenewalsAgree
<1> QED
  BY <1>4, <1>5, <1>6 DEF InductiveInvariant

(* What the parties and the provider say of a renewal that is not yet paid:
   nothing but its status and its intent changes, and these together. *)
Move(old, new) ==
  \/ old.status = "none" /\ new.status = "requested" /\ new.funding = old.funding
  \/ /\ old.status = "requested" /\ (new.status = "accepted" \/ new.status = "declined")
     /\ new.funding = old.funding
  \/ /\ old.status = "accepted" /\ new.status = "funding_pending"
     /\ old.funding = "none" /\ new.funding = "pending_provider"
  \/ /\ old.status = "funding_pending" /\ old.funding = "pending_provider"
     /\ \/ new.status = "funding_failed" /\ new.funding = "failed"
        \/ new.status = "abandoned" /\ new.funding = "abandoned"

Talks(k, n) ==
  LET old == renewals[k][n]  new == renewals'[k][n] IN
  /\ Exists(k, n) /\ UNCHANGED <<clock, mission, documents, offer, acceptance, licenses, payables>>
  /\ new \in RenewalRow
  /\ renewals' = [renewals EXCEPT ![k] = [renewals[k] EXCEPT ![n] = new]]
  /\ new.event = old.event
  /\ Move(old, new)

Negotiation(k, n) ==
  \/ \E now \in Nows : RequestRenewal(k, n, now)
  \/ DecideRenewal(k, n)
  \/ BeginRenewalFunding(k, n)
  \/ CloseRenewalFunding(k, n)

LEMMA OneRenewalChanges ==
  ASSUME renewals \in [Kinds -> [Terms -> RenewalRow]], NEW k \in Kinds, NEW n \in Terms,
         NEW r \in RenewalRow,
         renewals' = [renewals EXCEPT ![k] = [renewals[k] EXCEPT ![n] = r]]
  PROVE  /\ renewals' \in [Kinds -> [Terms -> RenewalRow]]
         /\ renewals'[k][n] = r
         /\ \A j \in Kinds, m \in Terms : <<j, m>> # <<k, n>> => renewals'[j][m] = renewals[j][m]
OBVIOUS

LEMMA NegotiationTalks ==
  ASSUME InductiveInvariant, NEW k \in Kinds, NEW n \in Terms, Negotiation(k, n)
  PROVE  Talks(k, n)
<1>1. /\ renewals \in [Kinds -> [Terms -> RenewalRow]]
      /\ renewals[k][n] \in RenewalRow
      /\ renewals[k][n].status # "none" => Exists(k, n)
  BY DEF InductiveInvariant, TypeOK
<1>2. RenewalAgrees(k, n)
  BY DEF InductiveInvariant, RenewalsAgree
<1> USE DEF RenewalRow, RenewalStatus, FundingStatus
<1> DEFINE with(r) == [renewals EXCEPT ![k] = [renewals[k] EXCEPT ![n] = r]]
<1>0. \A r : with(r)[k][n] = r
  BY <1>1
<1>3. CASE \E now \in Nows : RequestRenewal(k, n, now)
  <2> DEFINE r == [renewals[k][n] EXCEPT !.status = "requested"]
  <2>1. renewals' = with(r)
    BY <1>1, <1>3, Zenon DEF RequestRenewal
  <2> QED
    BY <1>0, <1>1, <1>2, <1>3, <2>1 DEF RequestRenewal, Talks, Move, RenewalAgrees
<1>4. CASE DecideRenewal(k, n)
  <2>1. PICK decision \in {"accepted", "declined"} :
           renewals' = [renewals EXCEPT ![k][n].status = decision]
    BY <1>4 DEF DecideRenewal
  <2> DEFINE r == [renewals[k][n] EXCEPT !.status = decision]
  <2>2. renewals' = with(r)
    BY <2>1, Zenon
  <2> QED
    BY <1>0, <1>1, <1>2, <1>4, <2>2 DEF DecideRenewal, Talks, Move, RenewalAgrees
<1>5. CASE BeginRenewalFunding(k, n)
  <2> DEFINE r == [renewals[k][n] EXCEPT !.status = "funding_pending",
                                         !.funding = "pending_provider"]
  <2>1. renewals' = with(r)
    BY <1>1, <1>5 DEF BeginRenewalFunding
  <2> QED
    BY <1>0, <1>1, <1>2, <1>5, <2>1 DEF BeginRenewalFunding, Talks, Move, RenewalAgrees
<1>6. CASE CloseRenewalFunding(k, n)
  <2>1. PICK outcome \in {"failed", "abandoned"} :
           renewals' = [renewals EXCEPT ![k][n] = Closed(@, outcome)]
    BY <1>6 DEF CloseRenewalFunding
  <2> DEFINE r == Closed(renewals[k][n], outcome)
  <2>2. renewals' = with(r)
    BY <2>1, Zenon
  <2> QED
    BY <1>0, <1>1, <1>2, <1>6, <2>2 DEF CloseRenewalFunding, Closed, Talks, Move, RenewalAgrees
<1> QED
  BY <1>3, <1>4, <1>5, <1>6 DEF Negotiation

LEMMA NegotiationStep ==
  ASSUME InductiveInvariant, NEW k \in Kinds, NEW n \in Terms, Negotiation(k, n)
  PROVE  InductiveInvariant'
<1>1. Talks(k, n)
  BY NegotiationTalks
<1> DEFINE new == renewals'[k][n]
<1>2. /\ Exists(k, n) /\ UNCHANGED <<clock, mission, documents, offer, acceptance, licenses, payables>>
      /\ new \in RenewalRow
      /\ renewals' = [renewals EXCEPT ![k] = [renewals[k] EXCEPT ![n] = new]]
  BY <1>1 DEF Talks
<1>3. renewals \in [Kinds -> [Terms -> RenewalRow]]
  BY DEF InductiveInvariant, TypeOK
<1>4. /\ renewals' \in [Kinds -> [Terms -> RenewalRow]]
      /\ \A j \in Kinds, m \in Terms : <<j, m>> # <<k, n>> => renewals'[j][m] = renewals[j][m]
  BY <1>2, <1>3, OneRenewalChanges
<1>5. \A j \in Kinds, m \in Nat : Exists(j, m)' <=> Exists(j, m)
  BY <1>2 DEF Exists
<1>6. \A j \in Kinds, m \in Terms : renewals'[j][m].event = renewals[j][m].event
  BY <1>1, <1>4 DEF Talks
<1>7. TypeOK'
  <2>1. \A j \in Kinds, m \in Terms : renewals'[j][m].status # "none" => Exists(j, m)'
    BY <1>2, <1>4, <1>5 DEF InductiveInvariant, TypeOK, Terms
  <2> QED
    BY <1>2, <1>4, <2>1 DEF InductiveInvariant, TypeOK
<1>8. RightsBegin'
  BY <1>2 DEF InductiveInvariant, RightsBegin
<1>9. RenewalsAgree'
  <2>1. ASSUME NEW j \in Kinds, NEW m \in Terms PROVE RenewalAgrees(j, m)'
    <3>1. RenewalAgrees(j, m)
      BY DEF InductiveInvariant, RenewalsAgree
    <3>2. CASE <<j, m>> = <<k, n>>
      BY <1>1, <1>2, <3>1, <3>2 DEF RenewalAgrees, Talks, Move, Exists
    <3>3. CASE <<j, m>> # <<k, n>>
      BY <1>2, <1>4, <3>1, <3>3 DEF RenewalAgrees, Exists
    <3> QED
      BY <3>2, <3>3
  <2> QED
    BY <1>6, <2>1 DEF InductiveInvariant, RenewalsAgree
<1> QED
  BY <1>7, <1>8, <1>9 DEF InductiveInvariant

-----------------------------------------------------------------------------
(* A payment: the renewal is funded, a further term begins where the last one
   ends or later, and a reward is payable. *)
Pays(k, n, e, now) ==
  /\ UNCHANGED <<clock, mission, documents, offer, acceptance>>
  /\ n \in Nat /\ n >= 1 /\ n + 1 \in Terms /\ Len(licenses[k]) = n
  /\ e # NoEvent /\ IsNewEvent(e)
  /\ renewals[k][n] \in RenewalRow
  /\ renewals[k][n].status = "funding_pending"
  /\ renewals[k][n].funding = "pending_provider"
  /\ licenses[k][n] \in LicenseRow
  /\ licenses' \in [Kinds -> Seq(LicenseRow)]
  /\ \A j \in Kinds : j # k => licenses'[j] = licenses[j]
  /\ Len(licenses'[k]) = n + 1
  /\ \A m \in 1..n : licenses'[k][m] = licenses[k][m]
  /\ licenses'[k][n + 1].starts >= licenses[k][n].expires
  /\ licenses'[k][n + 1].starts >= now
  /\ licenses'[k][n + 1].expires = licenses'[k][n + 1].starts + Length[k]
  /\ renewals' \in [Kinds -> [Terms -> RenewalRow]]
  /\ renewals'[k][n].status = "funded" /\ renewals'[k][n].funding = "confirmed"
  /\ renewals'[k][n].event = e
  /\ payables' \in [Kinds -> [Terms -> Nat]]
  /\ payables[k][n] = 0 /\ payables'[k][n] = 1
  /\ \A j \in Kinds, m \in Terms : <<j, m>> # <<k, n>> =>
          renewals'[j][m] = renewals[j][m] /\ payables'[j][m] = payables[j][m]

LEMMA FundingPays ==
  ASSUME InductiveInvariant, NEW k \in Kinds, NEW n \in Terms, NEW e \in Events,
         NEW now \in Nows, RecordAuthoritativeRenewalFunding(k, n, e, now)
  PROVE  Pays(k, n, e, now)
<1> USE DEF RecordAuthoritativeRenewalFunding, FundingHolds
<1>1. /\ clock \in Nat /\ licenses \in [Kinds -> Seq(LicenseRow)]
      /\ renewals \in [Kinds -> [Terms -> RenewalRow]]
      /\ payables \in [Kinds -> [Terms -> Nat]]
  BY DEF InductiveInvariant, TypeOK
<1>2. RenewalAgrees(k, n)
  BY DEF InductiveInvariant, RenewalsAgree
<1>3. n \in Nat /\ n >= 1
  BY BoundsAssumption DEF Terms
<1>4. now \in Nat
  BY <1>1, NowIsNatural
<1>5. licenses[k] \in Seq(LicenseRow) /\ Len(licenses[k]) \in Nat
  BY <1>1, RowsOfSequence
<1>6. Len(licenses[k]) = n
  BY <1>3, <1>5 DEF Exists
<1>7. licenses[k][n] \in LicenseRow /\ licenses[k][n].expires \in Nat
  <2>1. licenses[k][n] \in LicenseRow
    BY <1>3, <1>5, <1>6, RowsOfSequence
  <2> QED
    BY <2>1 DEF LicenseRow
<1>8. e # NoEvent
  BY BoundsAssumption
<1> DEFINE start == StartOfNextTerm(k, n, now)
           term  == Term(k, start)
<1>9. start \in Nat /\ start >= licenses[k][n].expires /\ start >= now
  BY <1>4, <1>7, LaterIsLater DEF StartOfNextTerm
<1> HIDE DEF start
<1>10. term \in LicenseRow /\ term.starts = start /\ term.expires = start + Length[k]
  BY <1>9, TermIsRow
<1>11. licenses' = [licenses EXCEPT ![k] = Append(licenses[k], term)]
  BY DEF start
<1> HIDE DEF term
<1>12. /\ licenses'[k] = Append(licenses[k], term)
       /\ licenses'[k] \in Seq(LicenseRow) /\ Len(licenses'[k]) = n + 1
       /\ licenses'[k][n + 1] = term
       /\ \A m \in 1..n : licenses'[k][m] = licenses[k][m]
  BY <1>1, <1>5, <1>6, <1>10, <1>11, RowAppended
<1>13. licenses' \in [Kinds -> Seq(LicenseRow)] /\ \A j \in Kinds : j # k => licenses'[j] = licenses[j]
  BY <1>1, <1>11, <1>12
<1> DEFINE r == Funded(renewals[k][n], e)
<1>14. renewals[k][n] \in RenewalRow
  BY <1>1
<1>15. r \in RenewalRow /\ r.status = "funded" /\ r.funding = "confirmed" /\ r.event = e
  BY <1>14 DEF Funded, RenewalRow, RenewalStatus, FundingStatus
<1>16. renewals' = [renewals EXCEPT ![k] = [renewals[k] EXCEPT ![n] = r]]
  BY Zenon
<1> HIDE DEF r
<1>17. /\ renewals' \in [Kinds -> [Terms -> RenewalRow]]
       /\ renewals'[k][n] = r
       /\ \A j \in Kinds, m \in Terms : <<j, m>> # <<k, n>> => renewals'[j][m] = renewals[j][m]
  BY <1>1, <1>15, <1>16, OneRenewalChanges
<1>18. payables[k][n] = 0
  BY <1>2 DEF RenewalAgrees
<1>19. /\ payables' \in [Kinds -> [Terms -> Nat]] /\ payables'[k][n] = 1
       /\ \A j \in Kinds, m \in Terms : <<j, m>> # <<k, n>> => payables'[j][m] = payables[j][m]
  BY <1>1, <1>18
<1> QED
  BY <1>3, <1>6, <1>7, <1>8, <1>9, <1>10, <1>12, <1>13, <1>14, <1>15, <1>17, <1>18, <1>19 DEF Pays

LEMMA FundingStep ==
  ASSUME InductiveInvariant, NEW k \in Kinds, NEW n \in Terms, NEW e \in Events,
         NEW now \in Nows, RecordAuthoritativeRenewalFunding(k, n, e, now)
  PROVE  InductiveInvariant'
<1>0. Pays(k, n, e, now)
  BY FundingPays
<1>1. \A j \in Kinds, m \in Terms : <<j, m>> # <<k, n>> =>
        /\ renewals'[j][m] = renewals[j][m] /\ payables'[j][m] = payables[j][m]
        /\ Exists(j, m + 1)' <=> Exists(j, m + 1)
  <2>1. ASSUME NEW j \in Kinds, NEW m \in Terms, <<j, m>> # <<k, n>>
        PROVE  Exists(j, m + 1)' <=> Exists(j, m + 1)
    <3>1. CASE j = k
      <4>1. m # n /\ m \in Nat /\ m >= 1
        BY <2>1, <3>1, BoundsAssumption DEF Terms
      <4> QED
        BY <3>1, <4>1, <1>0 DEF Pays, Exists
    <3>2. CASE j # k
      BY <3>2, <1>0 DEF Pays, Exists
    <3> QED
      BY <3>1, <3>2
  <2> QED
    BY <2>1, <1>0 DEF Pays
<1>2. \A j \in Kinds, m \in Terms : Exists(j, m) => Exists(j, m)'
  <2> SUFFICES ASSUME NEW j \in Kinds, NEW m \in Terms, Exists(j, m) PROVE Exists(j, m)'
    OBVIOUS
  <2>1. CASE j = k
    BY <2>1, <1>0 DEF Pays, Exists
  <2>2. CASE j # k
    BY <2>2, <1>0 DEF Pays, Exists
  <2> QED
    BY <2>1, <2>2
<1>3. TypeOK'
  <2>1. \A j \in Kinds, m \in Terms : renewals'[j][m].status # "none" => Exists(j, m)'
    <3> SUFFICES ASSUME NEW j \in Kinds, NEW m \in Terms, renewals'[j][m].status # "none"
                 PROVE  Exists(j, m)'
      OBVIOUS
    <3>1. renewals[j][m].status # "none"
      BY <1>1, <1>0 DEF Pays
    <3> QED
      BY <1>2, <3>1 DEF InductiveInvariant, TypeOK
  <2>2. ASSUME NEW j \in Kinds PROVE Len(licenses'[j]) <= MaxTerms
    <3>1. CASE j = k
      BY <1>0, <3>1 DEF Pays, Terms
    <3>2. CASE j # k
      BY <1>0, <3>2 DEF Pays, InductiveInvariant, TypeOK
    <3> QED
      BY <3>1, <3>2
  <2> QED
    BY <2>1, <2>2, <1>0 DEF Pays, InductiveInvariant, TypeOK
<1>4. RightsBegin'
  <2>1. ASSUME NEW j \in Kinds, NEW m \in 1..Len(licenses'[j])
        PROVE  /\ acceptance /\ mission = "payable" /\ j \in offer
               /\ licenses'[j][m].expires = licenses'[j][m].starts + Length[j]
    <3>1. CASE j = k /\ m = n + 1
      <4>1. n \in 1..Len(licenses[k])
        BY <1>0 DEF Pays
      <4> QED
        BY <3>1, <4>1, <1>0 DEF Pays, InductiveInvariant, RightsBegin
    <3>2. CASE ~ (j = k /\ m = n + 1)
      <4>1. m \in 1..Len(licenses[j]) /\ licenses'[j][m] = licenses[j][m]
        BY <3>2, <1>0 DEF Pays
      <4> QED
        BY <4>1 DEF InductiveInvariant, RightsBegin
    <3> QED
      BY <3>1, <3>2
  <2> QED
    BY <2>1, <1>0 DEF Pays, InductiveInvariant, RightsBegin
<1>5. RenewalsAgree'
  <2>1. ASSUME NEW j \in Kinds, NEW m \in Terms PROVE RenewalAgrees(j, m)'
    <3>1. CASE <<j, m>> = <<k, n>>
      <4>1. Exists(k, n + 1)'
        BY <1>0 DEF Pays, Exists
      <4>2. j = k /\ m = n
        BY <3>1
      <4> QED
        BY <4>1, <4>2, <1>0 DEF Pays, RenewalAgrees
    <3>2. CASE <<j, m>> # <<k, n>>
      <4>1. RenewalAgrees(j, m)
        BY DEF InductiveInvariant, RenewalsAgree
      <4> QED
        BY <1>1, <3>2, <4>1 DEF RenewalAgrees
    <3> QED
      BY <3>1, <3>2
  <2>2. ASSUME NEW i \in Kinds, NEW l \in Terms, renewals'[i][l].event # NoEvent,
               NEW j \in Kinds, NEW m \in Terms, renewals'[j][m].event = renewals'[i][l].event
        PROVE  j = i /\ m = l
    <3>1. \A x \in Kinds, y \in Terms : renewals[x][y].event # e
      BY <1>0 DEF Pays, IsNewEvent
    <3>2. renewals'[k][n].event = e
      BY <1>0 DEF Pays
    <3>3. CASE <<i, l>> = <<k, n>> \/ <<j, m>> = <<k, n>>
      BY <1>1, <2>2, <3>1, <3>2, <3>3
    <3>4. CASE <<i, l>> # <<k, n>> /\ <<j, m>> # <<k, n>>
      BY <1>1, <2>2, <3>4 DEF InductiveInvariant, RenewalsAgree
    <3> QED
      BY <3>3, <3>4
  <2> QED
    BY <2>1, <2>2 DEF RenewalsAgree
<1> QED
  BY <1>3, <1>4, <1>5 DEF InductiveInvariant

-----------------------------------------------------------------------------
\* The rows stay as they are, whatever the clock does.
LEMMA RightsWait ==
  ASSUME InductiveInvariant, UNCHANGED rightsRows, clock' \in Nat
  PROVE  InductiveInvariant'
<1>1. /\ mission' = mission /\ documents' = documents /\ offer' = offer
      /\ acceptance' = acceptance /\ licenses' = licenses /\ renewals' = renewals
      /\ payables' = payables
  BY DEF rightsRows
<1>2. \A k \in Kinds, n \in Terms : RenewalAgrees(k, n)' <=> RenewalAgrees(k, n)
  BY <1>1 DEF RenewalAgrees, Exists
<1>3. RenewalsAgree'
  BY <1>1, <1>2 DEF InductiveInvariant, RenewalsAgree
<1>4. TypeOK' /\ RightsBegin'
  BY <1>1 DEF InductiveInvariant, TypeOK, RightsBegin, Exists
<1> QED
  BY <1>3, <1>4 DEF InductiveInvariant

LEMMA NextInvariant == InductiveInvariant /\ [Next]_vars => InductiveInvariant'
<1> SUFFICES ASSUME InductiveInvariant, [Next]_vars PROVE InductiveInvariant'
  OBVIOUS
<1>1. CASE MissionMoves \/ PublishLegalDocumentVersion \/ ConfigureRightsOffer
             \/ AcceptMissionContract \/ Tick
  BY <1>1, QuietStep
<1>2. ASSUME NEW now \in Nows, ActivateInitialLicenses(now) PROVE InductiveInvariant'
  BY <1>2, ActivationStep
<1>3. ASSUME NEW now \in Nows, ExpireDueLicenses(now) PROVE InductiveInvariant'
  BY <1>3, ExpiryStep
<1>4. ASSUME NEW k \in Kinds, NEW n \in Terms, Negotiation(k, n) PROVE InductiveInvariant'
  BY <1>4, NegotiationStep
<1>5. ASSUME NEW k \in Kinds, NEW n \in Terms, NEW e \in Events, NEW now \in Nows,
             RecordAuthoritativeRenewalFunding(k, n, e, now)
      PROVE  InductiveInvariant'
  BY <1>5, FundingStep
<1>6. CASE UNCHANGED vars
  <2>1. UNCHANGED rightsRows /\ clock' \in Nat
    BY <1>6 DEF vars, rightsRows, InductiveInvariant, TypeOK
  <2> QED
    BY <2>1, RightsWait
<1> QED
  BY <1>1, <1>2, <1>3, <1>4, <1>5, <1>6 DEF Next, Negotiation

(* In every reachable state the rows keep their types, rights have begun with
   the contract and the full reward, and each paid renewal has left exactly one
   term, one confirmed intent, one event and one payable. *)
THEOREM Invariance == Spec => []InductiveInvariant
BY InitInvariant, NextInvariant, PTL DEF Spec

THEOREM RenewalsAgreeAlways == Spec => []RenewalsAgree
<1>1. InductiveInvariant => RenewalsAgree
  BY DEF InductiveInvariant
<1> QED
  BY <1>1, Invariance, PTL

\* A term that a step adds to one of this kind is ahead.
TermIsAhead(k) ==
  Len(licenses'[k]) > Len(licenses[k]) /\ licenses[k] # <<>> =>
    /\ licenses'[k][Len(licenses'[k])].starts >= clock - MaxLockWait
    /\ licenses'[k][Len(licenses'[k])].starts >= licenses[k][Len(licenses[k])].expires

LEMMA TermsAreAhead ==
  ASSUME InductiveInvariant, Next
  PROVE  \A k \in Kinds : TermIsAhead(k)
<1>1. \A k \in Kinds : Len(licenses[k]) \in Nat
  BY RowsOfSequence DEF InductiveInvariant, TypeOK
<1>2. CASE licenses' = licenses
  BY <1>1, <1>2 DEF TermIsAhead
<1>3. ASSUME NEW now \in Nows, ActivateInitialLicenses(now) PROVE \A k \in Kinds : TermIsAhead(k)
  BY <1>3 DEF ActivateInitialLicenses, ActivationHolds, TermIsAhead
<1>4. ASSUME NEW now \in Nows, ExpireDueLicenses(now) PROVE \A k \in Kinds : TermIsAhead(k)
  BY <1>1, <1>4, ExpiredRows DEF TermIsAhead
<1>5. ASSUME NEW k \in Kinds, NEW n \in Terms, NEW e \in Events, NEW now \in Nows,
             RecordAuthoritativeRenewalFunding(k, n, e, now), NEW j \in Kinds
      PROVE  TermIsAhead(j)
  <2>1. Pays(k, n, e, now)
    BY <1>5, FundingPays
  <2>2. clock \in Nat /\ now \in Nat /\ now >= clock - MaxLockWait
    BY NowIsNatural DEF InductiveInvariant, TypeOK
  <2>3. CASE j = k
    <3>1. licenses'[k] \in Seq(LicenseRow) /\ Len(licenses'[k]) = n + 1
      BY <2>1 DEF Pays
    <3>2. n + 1 \in 1..Len(licenses'[k])
      BY <2>1, <3>1 DEF Pays
    <3>3. licenses'[k][n + 1] \in LicenseRow
      BY <3>1, <3>2, RowsOfSequence
    <3>4. licenses'[k][n + 1].starts \in Nat
      BY <3>3 DEF LicenseRow
    <3>5. licenses'[k][n + 1].starts >= clock - MaxLockWait
      BY <2>1, <2>2, <3>4, BoundsAssumption DEF Pays
    <3> QED
      BY <2>1, <2>3, <3>5 DEF Pays, TermIsAhead
  <2>4. CASE j # k
    BY <1>1, <2>1, <2>4 DEF Pays, TermIsAhead
  <2> QED
    BY <2>3, <2>4
<1>6. ASSUME NEW k \in Kinds, NEW n \in Terms, Negotiation(k, n) PROVE licenses' = licenses
  BY <1>6, NegotiationTalks DEF Talks
<1>7. CASE MissionMoves \/ PublishLegalDocumentVersion \/ ConfigureRightsOffer
             \/ AcceptMissionContract \/ Tick
  BY <1>2, <1>7 DEF MissionMoves, PublishLegalDocumentVersion, ConfigureRightsOffer,
                    AcceptMissionContract, Tick
<1> QED
  BY <1>2, <1>3, <1>4, <1>5, <1>6, <1>7 DEF Next, Negotiation

\* Nor does a step add one that leaves the rows as they are.
LEMMA NoTermIsAdded ==
  ASSUME InductiveInvariant, UNCHANGED rightsRows
  PROVE  \A k \in Kinds : TermIsAhead(k)
<1>1. licenses' = licenses /\ \A k \in Kinds : Len(licenses[k]) \in Nat
  BY RowsOfSequence DEF rightsRows, InductiveInvariant, TypeOK
<1> QED
  BY <1>1 DEF TermIsAhead

(* A term paid for begins no earlier than the one before it ends, and no earlier
   than the payment, but for its wait for a lock: it is never backdated. *)
THEOREM PaidTerms == Spec => PaidTermsAreAhead
<1>1. InductiveInvariant /\ [Next]_vars => [\A k \in Kinds : TermIsAhead(k)]_vars
  BY TermsAreAhead
<1>2. [][\A k \in Kinds : TermIsAhead(k)]_vars => PaidTermsAreAhead
  BY DEF PaidTermsAreAhead, TermIsAhead
<1> QED
  BY <1>1, <1>2, Invariance, PTL DEF Spec

-----------------------------------------------------------------------------
(* The promise.  Rewards are counted one by one.                           *)

LEMMA NothingOwedAtFirst == Init => \A k \in Kinds : Cardinality(Payables(k)) = 0
<1> SUFFICES ASSUME Init, NEW k \in Kinds PROVE Cardinality(Payables(k)) = 0
  OBVIOUS
<1>1. Payables(k) = {}
  <2>1. \A n \in Terms : payables[k][n] = 0
    BY DEF Init
  <2>2. \A n \in Terms : {n} \X (1..payables[k][n]) = {}
    BY <2>1
  <2> QED
    BY <2>2 DEF Payables
<1> QED
  BY <1>1, FS_EmptySet

LEMMA PayablesAreFinite ==
  ASSUME InductiveInvariant, NEW k \in Kinds
  PROVE  IsFiniteSet(Payables(k))
<1>1. \A n \in Terms : payables[k][n] \in 0..1
  BY DEF InductiveInvariant, RenewalsAgree, RenewalAgrees
<1>2. \A n \in Terms : {n} \X (1..payables[k][n]) \subseteq Terms \X (1..1)
  BY <1>1
<1>3. Payables(k) \subseteq Terms \X (1..1)
  BY <1>2, Zenon DEF Payables
<1>4. IsFiniteSet(Terms) /\ IsFiniteSet(1..1)
  <2>1. MaxTerms \in Int /\ 1 \in Int
    BY BoundsAssumption
  <2> QED
    BY <2>1, FS_Interval, Zenon DEF Terms
<1> QED
  BY <1>3, <1>4, FS_Product, FS_Subset

LEMMA OnePayableMore ==
  ASSUME InductiveInvariant, NEW k \in Kinds, NEW n \in Terms, NEW e \in Events,
         NEW now \in Nows, Pays(k, n, e, now)
  PROVE  /\ Cardinality(Payables(k)') = Cardinality(Payables(k)) + 1
         /\ \A j \in Kinds : j # k => Payables(j)' = Payables(j)
<1>1. /\ payables[k][n] = 0 /\ payables'[k][n] = 1
      /\ \A j \in Kinds, m \in Terms : <<j, m>> # <<k, n>> => payables'[j][m] = payables[j][m]
  BY DEF Pays
<1>2. Payables(k)' = Payables(k) \cup {<<n, 1>>}
  <2>1. \A m \in Terms : m # n => {m} \X (1..payables'[k][m]) = {m} \X (1..payables[k][m])
    BY <1>1
  <2>2. {n} \X (1..payables[k][n]) = {} /\ {n} \X (1..payables'[k][n]) = {<<n, 1>>}
    BY <1>1
  <2> QED
    BY <2>1, <2>2 DEF Payables
<1>3. <<n, 1>> \notin Payables(k)
  <2> SUFFICES ASSUME NEW m \in Terms, <<n, 1>> \in {m} \X (1..payables[k][m]) PROVE FALSE
    BY Zenon DEF Payables
  <2>1. n = m /\ 1 \in 1..payables[k][m]
    OBVIOUS
  <2> QED
    BY <1>1, <2>1
<1>4. \A j \in Kinds : j # k => Payables(j)' = Payables(j)
  <2> SUFFICES ASSUME NEW j \in Kinds, j # k PROVE Payables(j)' = Payables(j)
    OBVIOUS
  <2>1. \A m \in Terms : payables'[j][m] = payables[j][m]
    BY <1>1
  <2> QED
    BY <2>1 DEF Payables
<1> QED
  BY <1>2, <1>3, <1>4, PayablesAreFinite, FS_AddElement

LEMMA PromiseBegins == Init => Promise!Init
<1> SUFFICES ASSUME Init PROVE Promise!Init
  OBVIOUS
<1>1. ~ acceptance /\ mission # "payable" /\ (\A k \in Kinds : licenses[k] = <<>>)
  BY DEF Init
<1>2. \A k \in Kinds : Len(licenses[k]) = 0
  BY <1>1
<1> QED
  BY <1>1, <1>2, NothingOwedAtFirst DEF Promise!Init

\* The renewal that matters is that of the last term.
LEMMA TalkIsAboutTheLastTerm ==
  ASSUME InductiveInvariant, NEW k \in Kinds, NEW n \in Terms, Talks(k, n)
  PROVE  Len(licenses[k]) = n /\ n > 0
<1>1. RenewalAgrees(k, n) /\ renewals[k][n].status # "funded"
  BY DEF InductiveInvariant, RenewalsAgree, Talks, Move
<1>2. n \in Nat /\ n >= 1 /\ Len(licenses[k]) \in Nat
  BY RowsOfSequence, BoundsAssumption DEF InductiveInvariant, TypeOK, Terms
<1>3. n \in 1..Len(licenses[k]) /\ n + 1 \notin 1..Len(licenses[k])
  BY <1>1 DEF RenewalAgrees, Talks, Exists
<1> QED
  BY <1>2, <1>3

LEMMA TalkIsPromised ==
  ASSUME InductiveInvariant, NEW k \in Kinds, NEW n \in Terms, Negotiation(k, n)
  PROVE  Promise!Talk(k)
<1>1. Talks(k, n)
  BY NegotiationTalks
<1>2. Len(licenses[k]) = n /\ n > 0 /\ licenses[k] # <<>>
  BY <1>1, TalkIsAboutTheLastTerm
<1>3. /\ offer' = offer /\ acceptance' = acceptance /\ mission' = mission
      /\ licenses' = licenses /\ payables' = payables
      /\ Move(renewals[k][n], renewals'[k][n])
      /\ \A j \in Kinds, m \in Terms : <<j, m>> # <<k, n>> => renewals'[j][m] = renewals[j][m]
  BY <1>1, OneRenewalChanges DEF Talks, InductiveInvariant, TypeOK
<1> DEFINE deal == [j \in Kinds |-> IF licenses[j] = <<>> THEN "none"
                                      ELSE DealOf(renewals[j][Len(licenses[j])].status)]
           to == DealOf(renewals'[k][n].status)
<1>4. ASSUME NEW j \in Kinds, j # k, licenses[j] # <<>>
      PROVE  renewals'[j][Len(licenses[j])] = renewals[j][Len(licenses[j])]
  <2>1. Len(licenses[j]) \in Nat /\ Len(licenses[j]) # 0 /\ Len(licenses[j]) <= MaxTerms
    BY <1>4, RowsOfSequence DEF InductiveInvariant, TypeOK
  <2>2. Len(licenses[j]) \in Terms
    BY <2>1, BoundsAssumption DEF Terms
  <2> QED
    BY <1>3, <1>4, <2>2
<1>5. deal' = [deal EXCEPT ![k] = to]
  BY <1>2, <1>3, <1>4
<1>6. deal[k] = DealOf(renewals[k][n].status)
  BY <1>2
<1>7. \/ deal[k] = "none" /\ to = "asked"
      \/ deal[k] = "asked" /\ to = "agreed"
      \/ deal[k] = "asked" /\ to = "refused"
      \/ deal[k] = "agreed" /\ to = "charged"
      \/ deal[k] = "charged" /\ to = "refused"
  <2>1. /\ DealOf("none") = "none" /\ DealOf("requested") = "asked" /\ DealOf("accepted") = "agreed"
        /\ DealOf("funding_pending") = "charged" /\ DealOf("declined") = "refused"
        /\ DealOf("funding_failed") = "refused" /\ DealOf("abandoned") = "refused"
    BY DEF DealOf
  <2> HIDE DEF deal
  <2> QED
    BY <1>3, <1>6, <2>1 DEF Move
<1>8. UNCHANGED <<IF acceptance THEN offer ELSE {}, mission = "payable">>
  BY <1>3
<1>9. /\ [j \in Kinds |-> Len(licenses[j])]' = [j \in Kinds |-> Len(licenses[j])]
      /\ [j \in Kinds |-> IF licenses[j] = <<>> THEN 0 ELSE LastTerm(j).expires]'
           = [j \in Kinds |-> IF licenses[j] = <<>> THEN 0 ELSE LastTerm(j).expires]
  BY <1>3 DEF LastTerm
<1>10. [j \in Kinds |-> Cardinality(Payables(j))]' = [j \in Kinds |-> Cardinality(Payables(j))]
  BY <1>3, Zenon DEF Payables
<1>11. [j \in Kinds |-> Len(licenses[j])][k] > 0
  BY <1>2
<1> HIDE DEF to
<1> QED
  BY <1>5, <1>7, <1>8, <1>9, <1>10, <1>11 DEF Promise!Talk, Promise!Bargain

LEMMA PaymentIsPromised ==
  ASSUME InductiveInvariant, NEW k \in Kinds, NEW n \in Terms, NEW e \in Events,
         NEW now \in Nows, Pays(k, n, e, now)
  PROVE  Promise!Pay(k)
<1>1. /\ n \in Nat /\ n >= 1 /\ n + 1 \in Terms
      /\ Len(licenses[k]) = n /\ Len(licenses'[k]) = n + 1
      /\ offer' = offer /\ acceptance' = acceptance /\ mission' = mission
  BY DEF Pays
<1>2. /\ licenses \in [Kinds -> Seq(LicenseRow)] /\ licenses' \in [Kinds -> Seq(LicenseRow)]
      /\ \A j \in Kinds : j # k => licenses'[j] = licenses[j]
  BY DEF Pays, InductiveInvariant, TypeOK
<1>3. licenses[k] # <<>> /\ licenses'[k] # <<>>
  BY <1>1
<1> DEFINE terms == [j \in Kinds |-> Len(licenses[j])]
           until == [j \in Kinds |-> IF licenses[j] = <<>> THEN 0 ELSE LastTerm(j).expires]
           deal  == [j \in Kinds |-> IF licenses[j] = <<>> THEN "none"
                                       ELSE DealOf(renewals[j][Len(licenses[j])].status)]
           owed  == [j \in Kinds |-> Cardinality(Payables(j))]
<1>4. terms' = [terms EXCEPT ![k] = terms[k] + 1] /\ terms[k] > 0
  <2>1. terms[k] = n /\ terms'[k] = n + 1
    BY <1>1
  <2>2. \A j \in Kinds : j # k => terms'[j] = terms[j]
    BY <1>2
  <2>3. terms = [j \in Kinds |-> terms[j]] /\ terms' = [j \in Kinds |-> terms'[j]]
    OBVIOUS
  <2> HIDE DEF terms
  <2>4. terms[k] + 1 = n + 1 /\ terms[k] > 0
    BY <1>1, <2>1
  <2> QED
    BY <2>1, <2>2, <2>3, <2>4
<1>5. owed' = [owed EXCEPT ![k] = owed[k] + 1]
  BY OnePayableMore
<1>6. /\ until' = [until EXCEPT ![k] = until'[k]]
      /\ until[k] = licenses[k][n].expires /\ until'[k] = licenses'[k][n + 1].expires
  BY <1>1, <1>2, <1>3 DEF LastTerm
<1>7. until'[k] >= until[k] + Length[k]
  <2>1. licenses[k][n].expires \in Nat /\ Length[k] \in Nat
    BY BoundsAssumption DEF Pays, LicenseRow
  <2>2. n + 1 \in 1..Len(licenses'[k])
    BY <1>1
  <2>3. licenses'[k][n + 1] \in LicenseRow
    BY <1>2, <2>2, RowsOfSequence
  <2>4. licenses'[k][n + 1].starts \in Nat
    BY <2>3 DEF LicenseRow
  <2>5. /\ licenses'[k][n + 1].starts >= licenses[k][n].expires
        /\ licenses'[k][n + 1].expires = licenses'[k][n + 1].starts + Length[k]
    BY DEF Pays
  <2> HIDE DEF until
  <2> QED
    BY <1>6, <2>1, <2>4, <2>5
<1>8. deal[k] = "charged"
  BY <1>1, <1>3 DEF Pays, DealOf
<1>9. deal'[k] = "none"
  <2>1. renewals[k][n + 1].status = "none"
    BY <1>1 DEF InductiveInvariant, TypeOK, Exists
  <2>2. renewals'[k][n + 1] = renewals[k][n + 1]
    BY <1>1 DEF Pays
  <2> QED
    BY <1>1, <1>3, <2>1, <2>2 DEF DealOf
<1>10. deal' = [deal EXCEPT ![k] = "none"]
  <2>1. ASSUME NEW j \in Kinds, j # k PROVE deal'[j] = deal[j]
    <3>1. Len(licenses[j]) \in Nat /\ Len(licenses[j]) <= MaxTerms
          /\ (licenses[j] = <<>> <=> Len(licenses[j]) = 0)
      BY RowsOfSequence DEF InductiveInvariant, TypeOK
    <3>2. CASE licenses[j] = <<>>
      BY <1>2, <2>1, <3>2
    <3>3. CASE licenses[j] # <<>>
      <4>1. Len(licenses[j]) \in Terms
        BY <3>1, <3>3, BoundsAssumption DEF Terms
      <4> QED
        BY <1>2, <2>1, <3>3, <4>1 DEF Pays
    <3> QED
      BY <3>2, <3>3
  <2> QED
    BY <1>9, <2>1
<1> HIDE DEF terms, until, deal, owed
<1>11. /\ terms[k] > 0 /\ deal[k] = "charged" /\ deal' = [deal EXCEPT ![k] = "none"]
       /\ terms' = [terms EXCEPT ![k] = terms[k] + 1]
       /\ owed'  = [owed EXCEPT ![k] = owed[k] + 1]
       /\ until'[k] >= until[k] + Length[k]
       /\ until' = [until EXCEPT ![k] = until'[k]]
  BY <1>4, <1>5, <1>6, <1>7, <1>8, <1>10
<1> QED
  BY <1>1, <1>11 DEF Promise!Pay, Promise!Bargain, terms, until, deal, owed

LEMMA ActivationIsPromised ==
  ASSUME InductiveInvariant, NEW now \in Nows, ActivateInitialLicenses(now)
  PROVE  Promise!Start
<1>1. /\ offer' = offer /\ acceptance' = acceptance /\ mission' = mission
      /\ renewals' = renewals /\ payables' = payables
      /\ acceptance /\ mission = "payable" /\ (\A k \in Kinds : licenses[k] = <<>>)
      /\ licenses' = [k \in Kinds |-> IF k \in offer THEN <<Term(k, now)>> ELSE <<>>]
  BY DEF ActivateInitialLicenses, ActivationHolds
<1>2. offer # {} /\ offer \subseteq Kinds
  BY <1>1 DEF InductiveInvariant, TypeOK, RightsBegin
<1>3. now \in Nat
  BY NowIsNatural DEF InductiveInvariant, TypeOK
<1> DEFINE terms == [j \in Kinds |-> Len(licenses[j])]
           until == [j \in Kinds |-> IF licenses[j] = <<>> THEN 0 ELSE LastTerm(j).expires]
           deal  == [j \in Kinds |-> IF licenses[j] = <<>> THEN "none"
                                       ELSE DealOf(renewals[j][Len(licenses[j])].status)]
           owed  == [j \in Kinds |-> Cardinality(Payables(j))]
<1>4. terms = [j \in Kinds |-> 0]
  BY <1>1
<1>5. ASSUME NEW k \in offer
      PROVE  /\ licenses'[k] # <<>> /\ Len(licenses'[k]) = 1
             /\ licenses'[k][1] = Term(k, now)
  BY <1>1, <1>2
<1>6. terms' = [j \in Kinds |-> IF j \in offer THEN 1 ELSE 0]
  BY <1>1, <1>5
<1>7. \A k \in offer : until'[k] >= Length[k]
  <2> SUFFICES ASSUME NEW k \in offer PROVE until'[k] >= Length[k]
    OBVIOUS
  <2>1. k \in Kinds /\ Length[k] \in Nat /\ now + Length[k] >= Length[k]
    BY <1>2, <1>3, BoundsAssumption
  <2>2. until'[k] = Term(k, now).expires
    BY <1>5, <2>1 DEF LastTerm
  <2> QED
    BY <1>3, <2>1, <2>2, TermIsRow
<1>8. deal' = deal
  <2>1. ASSUME NEW j \in Kinds PROVE deal'[j] = "none" /\ deal[j] = "none"
    <3>1. CASE j \in offer
      <4>1. ~ Exists(j, 1)
        BY <1>1 DEF Exists
      <4>2. 1 \in Terms
        BY BoundsAssumption DEF Terms
      <4>3. renewals[j][1].status = "none"
        BY <4>1, <4>2 DEF InductiveInvariant, TypeOK
      <4> QED
        BY <1>1, <1>5, <3>1, <4>3 DEF DealOf
    <3>2. CASE j \notin offer
      BY <1>1, <3>2
    <3> QED
      BY <3>1, <3>2
  <2> QED
    BY <2>1
<1>9. owed' = owed
  BY <1>1, Zenon DEF Payables
<1> HIDE DEF terms, until, deal, owed
<1>10. /\ terms = [j \in Kinds |-> 0]
       /\ terms' = [j \in Kinds |-> IF j \in offer THEN 1 ELSE 0]
       /\ \A j \in offer : until'[j] >= Length[j]
       /\ deal' = deal /\ owed' = owed
  BY <1>4, <1>6, <1>7, <1>8, <1>9
<1> QED
  BY <1>1, <1>2, <1>10 DEF Promise!Start, terms, until, deal, owed

LEMMA ExpiryIsNoPromise ==
  ASSUME InductiveInvariant, NEW now \in Nows, ExpireDueLicenses(now)
  PROVE  UNCHANGED Promise!promise
<1>1. /\ offer' = offer /\ acceptance' = acceptance /\ mission' = mission
      /\ renewals' = renewals /\ payables' = payables
  BY DEF ExpireDueLicenses
<1>2. ASSUME NEW k \in Kinds
      PROVE  /\ Len(licenses'[k]) = Len(licenses[k])
             /\ licenses'[k] = <<>> <=> licenses[k] = <<>>
             /\ licenses[k] # <<>> => LastTerm(k)'.expires = LastTerm(k).expires
  <2>1. /\ licenses[k] \in Seq(LicenseRow) /\ licenses'[k] \in Seq(LicenseRow)
        /\ Len(licenses'[k]) = Len(licenses[k])
    BY ExpiredRows DEF InductiveInvariant, TypeOK
  <2>2. Len(licenses[k]) \in Nat /\ (licenses'[k] = <<>> <=> licenses[k] = <<>>)
        /\ (licenses[k] = <<>> <=> Len(licenses[k]) = 0)
    BY <2>1, RowsOfSequence
  <2>3. ASSUME licenses[k] # <<>> PROVE LastTerm(k)'.expires = LastTerm(k).expires
    <3>1. Len(licenses[k]) \in 1..Len(licenses[k])
      BY <2>2, <2>3
    <3>2. licenses'[k][Len(licenses[k])].expires = licenses[k][Len(licenses[k])].expires
      BY <3>1, ExpiredRows
    <3> QED
      BY <2>1, <3>2, Zenon DEF LastTerm
  <2> QED
    BY <2>1, <2>2, <2>3
<1> DEFINE terms == [j \in Kinds |-> Len(licenses[j])]
           until == [j \in Kinds |-> IF licenses[j] = <<>> THEN 0 ELSE LastTerm(j).expires]
           deal  == [j \in Kinds |-> IF licenses[j] = <<>> THEN "none"
                                       ELSE DealOf(renewals[j][Len(licenses[j])].status)]
           owed  == [j \in Kinds |-> Cardinality(Payables(j))]
<1>3. terms' = terms /\ deal' = deal
  BY <1>1, <1>2
<1>4. until' = until
  BY <1>2
<1>5. owed' = owed
  BY <1>1, Zenon DEF Payables
<1> HIDE DEF terms, until, deal, owed
<1>6. terms' = terms /\ until' = until /\ deal' = deal /\ owed' = owed
  BY <1>3, <1>4, <1>5
<1> QED
  BY <1>1, <1>6 DEF Promise!promise, terms, until, deal, owed

LEMMA ConsentIsPromised ==
  ASSUME InductiveInvariant,
         MissionMoves \/ PublishLegalDocumentVersion \/ ConfigureRightsOffer
           \/ AcceptMissionContract \/ Tick
  PROVE  Promise!Accept \/ Promise!Earn \/ UNCHANGED Promise!promise
<1>1. licenses' = licenses /\ renewals' = renewals /\ payables' = payables
  BY DEF MissionMoves, PublishLegalDocumentVersion, ConfigureRightsOffer,
         AcceptMissionContract, Tick
<1>2. /\ [j \in Kinds |-> Len(licenses[j])]' = [j \in Kinds |-> Len(licenses[j])]
      /\ [j \in Kinds |-> IF licenses[j] = <<>> THEN 0 ELSE LastTerm(j).expires]'
           = [j \in Kinds |-> IF licenses[j] = <<>> THEN 0 ELSE LastTerm(j).expires]
      /\ [j \in Kinds |-> IF licenses[j] = <<>> THEN "none"
                              ELSE DealOf(renewals[j][Len(licenses[j])].status)]'
           = [j \in Kinds |-> IF licenses[j] = <<>> THEN "none"
                              ELSE DealOf(renewals[j][Len(licenses[j])].status)]
  BY <1>1 DEF LastTerm
<1>3. [j \in Kinds |-> Cardinality(Payables(j))]' = [j \in Kinds |-> Cardinality(Payables(j))]
  BY <1>1, Zenon DEF Payables
<1> DEFINE contract == IF acceptance THEN offer ELSE {}
           earned   == mission = "payable"
<1>4. offer \subseteq Kinds /\ acceptance \in BOOLEAN /\ (acceptance => offer # {})
  BY DEF InductiveInvariant, TypeOK, RightsBegin
<1>5. CASE MissionMoves
  <2>1. contract' = contract /\ (earned' <=> earned \/ mission' = "payable")
    BY <1>5 DEF MissionMoves
  <2>2. CASE mission' = "payable"
    BY <1>2, <1>3, <2>1, <2>2 DEF Promise!Earn
  <2>3. CASE mission' # "payable"
    BY <1>2, <1>3, <2>1, <2>3 DEF Promise!promise
  <2> QED
    BY <2>2, <2>3
<1>6. CASE PublishLegalDocumentVersion \/ ConfigureRightsOffer \/ Tick
  <2>1. mission' = mission /\ acceptance' = acceptance /\ (acceptance => offer' = offer)
    BY <1>4, <1>6 DEF PublishLegalDocumentVersion, ConfigureRightsOffer, OfferIsFirst, Tick
  <2>2. contract' = contract
    BY <2>1
  <2> QED
    BY <1>2, <1>3, <2>1, <2>2 DEF Promise!promise
<1>7. CASE AcceptMissionContract
  <2>1. contract = {} /\ contract' \subseteq Kinds /\ mission' = mission
    BY <1>4, <1>7 DEF AcceptMissionContract, AcceptanceIsFirst
  <2> QED
    BY <1>2, <1>3, <2>1 DEF Promise!Accept
<1> QED
  BY <1>5, <1>6, <1>7

LEMMA StutterIsNoPromise ==
  ASSUME UNCHANGED rightsRows
  PROVE  UNCHANGED Promise!promise
<1>1. /\ offer' = offer /\ acceptance' = acceptance /\ mission' = mission
      /\ licenses' = licenses /\ renewals' = renewals /\ payables' = payables
  BY DEF rightsRows
<1>2. [j \in Kinds |-> Cardinality(Payables(j))]' = [j \in Kinds |-> Cardinality(Payables(j))]
  BY <1>1, Zenon DEF Payables
<1> QED
  BY <1>1, <1>2 DEF Promise!promise, LastTerm

LEMMA StepsArePromised ==
  ASSUME InductiveInvariant, [Next]_vars
  PROVE  [Promise!Next]_(Promise!promise)
<1>1. CASE MissionMoves \/ PublishLegalDocumentVersion \/ ConfigureRightsOffer
             \/ AcceptMissionContract \/ Tick
  BY <1>1, ConsentIsPromised DEF Promise!Next
<1>2. ASSUME NEW now \in Nows, ActivateInitialLicenses(now) PROVE Promise!Next
  BY <1>2, ActivationIsPromised DEF Promise!Next
<1>3. ASSUME NEW now \in Nows, ExpireDueLicenses(now) PROVE UNCHANGED Promise!promise
  BY <1>3, ExpiryIsNoPromise
<1>4. ASSUME NEW k \in Kinds, NEW n \in Terms, Negotiation(k, n) PROVE Promise!Next
  BY <1>4, TalkIsPromised DEF Promise!Next
<1>5. ASSUME NEW k \in Kinds, NEW n \in Terms, NEW e \in Events, NEW now \in Nows,
             RecordAuthoritativeRenewalFunding(k, n, e, now)
      PROVE  Promise!Next
  BY <1>5, FundingPays, PaymentIsPromised DEF Promise!Next
<1>6. CASE UNCHANGED vars
  BY <1>6, StutterIsNoPromise DEF vars, rightsRows
<1> QED
  BY <1>1, <1>2, <1>3, <1>4, <1>5, <1>6 DEF Next, Negotiation

(* The store implements the promise: rights begin with the contract and the full
   reward, grow by whole terms agreed to and owed for, and end for good with a
   renewal declined, failed or abandoned. *)
THEOREM RightsArePromised == Spec => ImplementsRightsPromise
<1>1. InductiveInvariant /\ [Next]_vars => [Promise!Next]_(Promise!promise)
  BY StepsArePromised
<1> QED
  BY <1>1, PromiseBegins, Invariance, PTL DEF Spec, ImplementsRightsPromise, Promise!Spec

-----------------------------------------------------------------------------
(* LocalityProof: the badge is the credential.                             *)

IsOpen(row) == row.status \in Locality!Open
IsCredential(row) == row.status = "verified"

LEMMA ProofRows ==
  ASSUME Locality!TypeOK
  PROVE  /\ Len(verifications) \in Nat /\ Locality!Proofs = 1..Len(verifications)
         /\ \A p \in Locality!Proofs : verifications[p] \in Locality!Verification
         /\ Locality!OpenProofs = {p \in Locality!Proofs : IsOpen(verifications[p])}
         /\ Locality!Credentials = {p \in Locality!Proofs : IsCredential(verifications[p])}
BY RowsOfSequence
DEF Locality!TypeOK, Locality!Proofs, Locality!OpenProofs, Locality!Credentials,
    IsOpen, IsCredential

(* A step that writes one proof.                                           *)
LEMMA ProofIsWritten ==
  ASSUME Locality!TypeOK, NEW p \in Locality!Proofs, NEW row \in Locality!Verification,
         verifications' = [verifications EXCEPT ![p] = row]
  PROVE  /\ verifications' \in Seq(Locality!Verification)
         /\ Len(verifications') = Len(verifications)
         /\ Locality!Proofs' = Locality!Proofs
         /\ verifications'[p] = row
         /\ \A q \in Locality!Proofs : q # p => verifications'[q] = verifications[q]
         /\ Locality!OpenProofs' =
              IF IsOpen(row) THEN Locality!OpenProofs \cup {p} ELSE Locality!OpenProofs \ {p}
         /\ Locality!Credentials' =
              IF IsCredential(row) THEN Locality!Credentials \cup {p}
                                   ELSE Locality!Credentials \ {p}
<1>1. /\ verifications' \in Seq(Locality!Verification)
      /\ Len(verifications') = Len(verifications)
      /\ Locality!Proofs' = Locality!Proofs
  BY ProofRows DEF Locality!TypeOK, Locality!Proofs
<1>2. /\ verifications'[p] = row
      /\ \A q \in Locality!Proofs : q # p => verifications'[q] = verifications[q]
  BY DEF Locality!Proofs
<1>3. Locality!OpenProofs' =
        IF IsOpen(row) THEN Locality!OpenProofs \cup {p} ELSE Locality!OpenProofs \ {p}
  BY <1>1, <1>2 DEF Locality!OpenProofs, IsOpen
<1>4. Locality!Credentials' =
        IF IsCredential(row) THEN Locality!Credentials \cup {p} ELSE Locality!Credentials \ {p}
  BY <1>1, <1>2 DEF Locality!Credentials, IsCredential
<1> QED
  BY <1>1, <1>2, <1>3, <1>4

LEMMA WithIsRow ==
  ASSUME NEW status \in Locality!VerificationStatus
  PROVE  Locality!With(status) \in Locality!Verification /\ Locality!With(status).status = status
BY DEF Locality!With, Locality!Verification

(* What a call may do to a badge that has not run out: nothing.            *)
LEMMA ClearingIsProfile ==
  ASSUME Locality!TypeOK, NEW now \in Nat,
         NEW status \in {"unverified", "pending", "expired", "rejected"}
  PROVE  LET new == Locality!ClearProfileUnlessCurrent(status, now) IN
           /\ new \in Locality!Profile
           /\ new = profile \/ new.status # "verified"
           /\ profile.status = "verified" /\ profile.expires > now => new = profile
BY DEF Locality!TypeOK, Locality!ClearProfileUnlessCurrent, Locality!IsCurrent,
       Locality!Cleared, Locality!Profile

LEMMA LocalityInit == Locality!Init => Locality!InductiveInvariant
<1> SUFFICES ASSUME Locality!Init PROVE Locality!InductiveInvariant
  OBVIOUS
<1>1. verifications = <<>> /\ Locality!OpenProofs = {} /\ Locality!Credentials = {}
  BY DEF Locality!Init, Locality!OpenProofs, Locality!Credentials, Locality!Proofs
<1>2. Locality!TypeOK
  BY LocalityIsAssumed
  DEF Locality!Init, Locality!TypeOK, Locality!LocalityAssumption, Locality!Profile,
      Locality!Call, Locality!NoCall
<1> QED
  BY <1>1, <1>2
  DEF Locality!Init, Locality!InductiveInvariant, Locality!BadgeIsCredential,
      Locality!CallsAgree, Locality!NoCall

(* What every call in flight is. *)
LEMMA CallTypes ==
  ASSUME Locality!TypeOK
  PROVE  /\ \A call \in {submission, change, expiry} :
              call.now \in Nat /\ (call.row = 0 <=> call = Locality!NoCall) /\ call.row \in Nat
         /\ review.now \in Nat /\ review.row \in Nat
         /\ review.row = 0 <=> review = Locality!NoCall
         /\ review # Locality!NoCall => review.by \in Reviewers
BY DEF Locality!TypeOK, Locality!Call, Locality!NoCall

(* A credential ends, and no call is left that holds one.                  *)
LEMMA CredentialEnds ==
  ASSUME Locality!InductiveInvariant, NEW p \in Locality!Credentials,
         NEW status \in {"invalidated", "expired"},
         verifications' = [verifications EXCEPT ![p] = Locality!With(status)],
         profile' \in Locality!Profile, profile'.status # "verified",
         clock' = clock, submission' = submission, review' = review,
         change' = Locality!NoCall, expiry' = Locality!NoCall
  PROVE  Locality!BadgeIsCredential' /\ Locality!CallsAgree'
<1>1. Locality!TypeOK /\ Locality!BadgeIsCredential /\ Locality!CallsAgree
  BY DEF Locality!InductiveInvariant, Locality!BadgeIsCredential
<1> DEFINE row == Locality!With(status)
<1>2. row \in Locality!Verification /\ ~ IsOpen(row) /\ ~ IsCredential(row)
  BY WithIsRow DEF IsOpen, IsCredential, Locality!VerificationStatus, Locality!Open
<1>3. verifications' = [verifications EXCEPT ![p] = row] /\ p \in Locality!Proofs
  BY DEF Locality!Credentials
<1> HIDE DEF row
<1>4. /\ verifications' \in Seq(Locality!Verification)
      /\ Len(verifications') = Len(verifications)
      /\ Locality!OpenProofs' = Locality!OpenProofs \ {p}
      /\ Locality!Credentials' = Locality!Credentials \ {p}
  BY <1>1, <1>2, <1>3, ProofIsWritten
<1>5. Locality!Credentials' = {} /\ Locality!OpenProofs' = Locality!OpenProofs
  BY <1>1, <1>4
  DEF Locality!BadgeIsCredential, Locality!Credentials, Locality!OpenProofs, Locality!Open
<1>6. Locality!NoCall.now = 0 /\ Locality!NoCall.row = 0 /\ clock \in Nat
  BY <1>1 DEF Locality!NoCall, Locality!TypeOK
<1>7. Locality!TypeOK'
  BY <1>1, <1>4 DEF Locality!TypeOK, Locality!Call
<1>8. Locality!CallsAgree'
  BY <1>1, <1>4, <1>6 DEF Locality!CallsAgree
<1> QED
  BY <1>1, <1>5, <1>6, <1>7, <1>8 DEF Locality!BadgeIsCredential

LEMMA LocalityStep ==
  ASSUME Locality!InductiveInvariant, Locality!Next
  PROVE  Locality!InductiveInvariant'
<1>1. Locality!TypeOK /\ Locality!BadgeIsCredential /\ Locality!CallsAgree
  BY DEF Locality!InductiveInvariant, Locality!BadgeIsCredential
<1> SUFFICES Locality!BadgeIsCredential' /\ Locality!CallsAgree'
  BY DEF Locality!InductiveInvariant
<1>2. \A now \in Locality!Nows : now \in Nat /\ now <= clock
  BY <1>1 DEF Locality!Nows, Locality!TypeOK
<1> USE LocalityIsAssumed DEF Locality!LocalityAssumption
<1>3. CASE \E now \in Locality!Nows : Locality!BeginSubmission(now)
  <2>1. Locality!TypeOK'
    BY <1>1, <1>2, <1>3
    DEF Locality!TypeOK, Locality!BeginSubmission, Locality!rows, Locality!Call
  <2>2. Locality!CallsAgree'
    BY <1>1, <1>2, <1>3 DEF Locality!CallsAgree, Locality!BeginSubmission, Locality!rows
  <2>3. /\ Locality!OpenProofs' = Locality!OpenProofs
        /\ Locality!Credentials' = Locality!Credentials
    BY <1>3, Zenon DEF Locality!OpenProofs, Locality!Credentials, Locality!Proofs,
        Locality!BeginSubmission, Locality!rows
  <2> QED
    BY <1>1, <1>3, <2>1, <2>2, <2>3
    DEF Locality!BadgeIsCredential, Locality!BeginSubmission, Locality!rows
<1>4. CASE Locality!EndSubmission
  <2> DEFINE row == Locality!With("pending_review")
  <2>1. row \in Locality!Verification /\ IsOpen(row) /\ ~ IsCredential(row)
    BY WithIsRow DEF IsOpen, IsCredential, Locality!VerificationStatus, Locality!Open
  <2> HIDE DEF row
  <2>2. CASE Locality!OpenProofs # {}
    <3>1. /\ verifications' = verifications /\ profile' = profile
          /\ clock' = clock /\ review' = review /\ change' = change /\ expiry' = expiry
          /\ submission' = Locality!NoCall
      BY <1>4, <2>2 DEF Locality!EndSubmission, Locality!rows
    <3>2. /\ Locality!OpenProofs' = Locality!OpenProofs
          /\ Locality!Credentials' = Locality!Credentials
      BY <3>1, Zenon DEF Locality!OpenProofs, Locality!Credentials, Locality!Proofs
    <3>3. Locality!TypeOK'
      BY <1>1, <3>1 DEF Locality!TypeOK, Locality!Call
    <3>4. Locality!CallsAgree'
      BY <1>1, <3>1 DEF Locality!CallsAgree, Locality!NoCall, Locality!TypeOK
    <3> QED
      BY <1>1, <3>1, <3>2, <3>3, <3>4 DEF Locality!BadgeIsCredential
  <2>3. CASE Locality!OpenProofs = {}
    <3>1. /\ verifications' = Append(verifications, row)
          /\ profile' = Locality!ClearProfileUnlessCurrent("pending", submission.now)
          /\ clock' = clock /\ review' = review /\ change' = change /\ expiry' = expiry
          /\ submission' = Locality!NoCall /\ submission # Locality!NoCall
      BY <1>4, <2>3 DEF Locality!EndSubmission, row
    <3>2. /\ submission.now \in Nat /\ submission.now <= clock /\ clock \in Nat
          /\ Len(verifications) + 1 <= MaxProofs
          /\ Len(verifications) \in Nat /\ Locality!Proofs = 1..Len(verifications)
      BY <1>1, <3>1, CallTypes, ProofRows
      DEF Locality!CallsAgree, Locality!TypeOK, Locality!Call
    <3>3. /\ verifications' \in Seq(Locality!Verification)
          /\ Len(verifications') = Len(verifications) + 1
          /\ verifications'[Len(verifications) + 1] = row
          /\ \A p \in Locality!Proofs : verifications'[p] = verifications[p]
      BY <1>1, <2>1, <3>1, <3>2, RowAppended DEF Locality!TypeOK
    <3>4. Locality!Proofs' = Locality!Proofs \cup {Len(verifications) + 1}
      BY <3>2, <3>3, RowsOfSequence DEF Locality!Proofs
    <3>5. Locality!OpenProofs' = {Len(verifications) + 1}
      BY <2>1, <2>3, <3>2, <3>3, <3>4 DEF Locality!OpenProofs, IsOpen
    <3>6. Locality!Credentials' = Locality!Credentials
      BY <2>1, <3>2, <3>3, <3>4 DEF Locality!Credentials, IsCredential
    <3>7. /\ profile' \in Locality!Profile
          /\ profile' = profile \/ profile'.status # "verified"
          /\ profile.status = "verified" /\ profile.expires > submission.now =>
               profile' = profile
      BY <1>1, <3>1, <3>2, ClearingIsProfile
    <3>8. Locality!TypeOK'
      BY <1>1, <3>1, <3>2, <3>3, <3>7 DEF Locality!TypeOK, Locality!Call
    <3>9. Locality!CallsAgree'
      <4>1. expiry # Locality!NoCall => expiry.row \in Locality!Credentials
        BY <1>1, CallTypes DEF Locality!BadgeIsCredential
      <4> QED
        BY <1>1, <3>1, <3>2, <3>3, <4>1
        DEF Locality!CallsAgree, Locality!NoCall, Locality!Credentials
    <3>10. \A p \in Locality!Credentials :
             /\ verifications[p].expires \in Nat /\ verifications'[p] = verifications[p]
      BY <1>1, <3>3, ProofRows DEF Locality!Credentials, Locality!Verification
    <3>11. \A p \in Locality!Credentials' : verifications'[p].expires > clock' =>
             profile' = [status |-> "verified", expires |-> verifications'[p].expires]
      <4> SUFFICES ASSUME NEW p \in Locality!Credentials, verifications[p].expires > clock
                   PROVE  profile' = [status |-> "verified", expires |-> verifications[p].expires]
        BY <3>1, <3>6, <3>10
      <4>1. profile = [status |-> "verified", expires |-> verifications[p].expires]
        BY <1>1 DEF Locality!BadgeIsCredential
      <4> QED
        BY <3>2, <3>7, <3>10, <4>1
    <3>12. profile'.status = "verified" =>
             \E p \in Locality!Credentials' : verifications'[p].expires = profile'.expires
      BY <1>1, <3>6, <3>7, <3>10 DEF Locality!BadgeIsCredential
    <3>13. review = Locality!NoCall
      BY <1>1, <2>3 DEF Locality!BadgeIsCredential
    <3> QED
      BY <1>1, <3>1, <3>5, <3>6, <3>8, <3>9, <3>11, <3>12, <3>13 DEF Locality!BadgeIsCredential
  <2> QED
    BY <2>2, <2>3
<1>5. CASE \E p \in Locality!Proofs : Locality!ResubmitCorrection(p)
  <2>1. PICK p \in Locality!Proofs : Locality!ResubmitCorrection(p)
    BY <1>5
  <2> DEFINE row == Locality!With("pending_review")
  <2>2. row \in Locality!Verification /\ IsOpen(row) /\ ~ IsCredential(row)
    BY WithIsRow DEF IsOpen, IsCredential, Locality!VerificationStatus, Locality!Open
  <2>3. /\ verifications' = [verifications EXCEPT ![p] = row] /\ profile' = profile
        /\ verifications[p].status = "correction_needed"
        /\ clock' = clock /\ submission' = submission /\ review' = review
        /\ change' = change /\ expiry' = expiry
    BY <2>1 DEF Locality!ResubmitCorrection, Locality!calls
  <2> HIDE DEF row
  <2>4. /\ verifications' \in Seq(Locality!Verification)
        /\ Len(verifications') = Len(verifications)
        /\ \A q \in Locality!Proofs : q # p => verifications'[q] = verifications[q]
        /\ Locality!OpenProofs' = Locality!OpenProofs \cup {p}
        /\ Locality!Credentials' = Locality!Credentials \ {p}
    BY <1>1, <2>1, <2>2, <2>3, ProofIsWritten
  <2>5. p \in Locality!OpenProofs /\ p \notin Locality!Credentials
    BY <2>1, <2>3 DEF Locality!OpenProofs, Locality!Credentials, Locality!Open
  <2>6. /\ Locality!OpenProofs' = Locality!OpenProofs
        /\ Locality!Credentials' = Locality!Credentials
        /\ \A q \in Locality!Credentials : verifications'[q] = verifications[q]
    BY <2>4, <2>5 DEF Locality!Credentials
  <2>7. Locality!TypeOK'
    BY <1>1, <2>3, <2>4 DEF Locality!TypeOK
  <2>8. Locality!CallsAgree'
    <3>1. expiry # Locality!NoCall => expiry.row \in Locality!Credentials
      BY <1>1, CallTypes DEF Locality!BadgeIsCredential
    <3> QED
      BY <1>1, <2>3, <2>4, <2>6, <3>1 DEF Locality!CallsAgree
  <2> QED
    BY <1>1, <2>3, <2>6, <2>7, <2>8 DEF Locality!BadgeIsCredential
<1>6. CASE \E p \in Locality!Proofs, by \in Reviewers, now \in Locality!Nows :
               Locality!BeginReview(p, by, now)
  <2>1. PICK p \in Locality!Proofs, by \in Reviewers, now \in Locality!Nows :
               Locality!BeginReview(p, by, now)
    BY <1>6
  <2>2. /\ verifications' = verifications /\ profile' = profile
        /\ clock' = clock /\ submission' = submission
        /\ change' = change /\ expiry' = expiry
        /\ review' = [now |-> now, row |-> p, by |-> by] /\ p \in Locality!OpenProofs
    BY <2>1 DEF Locality!BeginReview, Locality!rows, Locality!OpenProofs, Locality!Open
  <2>3. /\ Locality!OpenProofs' = Locality!OpenProofs
        /\ Locality!Credentials' = Locality!Credentials
    BY <2>2, Zenon DEF Locality!OpenProofs, Locality!Credentials, Locality!Proofs
  <2>4. p \in 1..MaxProofs
    BY <1>1, <2>1, ProofRows DEF Locality!TypeOK
  <2>5. Locality!TypeOK'
    BY <1>1, <1>2, <2>1, <2>2, <2>4 DEF Locality!TypeOK
  <2>6. Locality!CallsAgree'
    BY <1>1, <1>2, <2>1, <2>2 DEF Locality!CallsAgree
  <2> QED
    BY <1>1, <2>2, <2>3, <2>5, <2>6 DEF Locality!BadgeIsCredential
<1>7. CASE Locality!EndReview
  <2>1. /\ clock' = clock /\ submission' = submission /\ change' = change /\ expiry' = expiry
        /\ review' = Locality!NoCall /\ review # Locality!NoCall
    BY <1>7 DEF Locality!EndReview
  <2>2. /\ review.row \in Locality!OpenProofs /\ review.row \in Locality!Proofs
        /\ review.row \notin Locality!Credentials
        /\ review.now \in Nat /\ review.now <= clock /\ clock \in Nat
        /\ review.by \in Reviewers
    BY <1>1, <2>1, CallTypes
    DEF Locality!BadgeIsCredential, Locality!OpenProofs, Locality!Credentials, Locality!Open,
        Locality!CallsAgree, Locality!TypeOK
  <2>3. CASE Locality!Approve
    <3> DEFINE row == Locality!Decided("verified")
               kept(p) == Locality!SupersededPrior(verifications[p])
    <3>1. /\ row \in Locality!Verification /\ IsCredential(row) /\ ~ IsOpen(row)
          /\ row.expires = review.now + Validity
      BY <2>2 DEF Locality!Decided, Locality!With, Locality!Verification, IsCredential, IsOpen,
          Locality!VerificationStatus, Locality!Open
    <3>2. \A p \in Locality!Proofs :
            /\ kept(p) \in Locality!Verification /\ ~ IsCredential(kept(p))
            /\ IsOpen(kept(p)) <=> IsOpen(verifications[p])
      BY <1>1, ProofRows, WithIsRow
      DEF Locality!SupersededPrior, IsCredential, IsOpen, Locality!VerificationStatus, Locality!Open
    <3>3. /\ verifications' = [p \in Locality!Proofs |-> IF p = review.row THEN row ELSE kept(p)]
          /\ profile' = [status |-> "verified", expires |-> review.now + Validity]
          /\ {change.row, expiry.row} \cap Locality!Credentials = {}
      BY <2>3 DEF Locality!Approve
    <3> HIDE DEF row, kept
    <3>4. /\ verifications' \in Seq(Locality!Verification)
          /\ Len(verifications') = Len(verifications)
          /\ Locality!Proofs' = Locality!Proofs
          /\ \A p \in Locality!Proofs :
               verifications'[p] = IF p = review.row THEN row ELSE kept(p)
      <4>1. verifications' \in [1..Len(verifications) -> Locality!Verification]
        BY <1>1, <3>1, <3>2, <3>3, ProofRows
      <4>2. /\ verifications' \in Seq(Locality!Verification)
            /\ Len(verifications') = Len(verifications)
        BY <1>1, <4>1, ProofRows, FunctionIsSequence
      <4>3. Locality!Proofs' = Locality!Proofs
        BY <1>1, <4>1, ProofRows DEF Locality!Proofs
      <4> QED
        BY <3>3, <4>2, <4>3
    <3>5. Locality!Credentials' = {review.row}
      BY <2>2, <3>1, <3>2, <3>4 DEF Locality!Credentials, IsCredential
    <3>6. Locality!OpenProofs' = {}
      BY <1>1, <2>2, <3>1, <3>2, <3>4
      DEF Locality!OpenProofs, Locality!BadgeIsCredential, IsOpen
    <3>7. change.row = 0 /\ expiry.row = 0
      BY <1>1, <3>3 DEF Locality!BadgeIsCredential
    <3>8. expiry = Locality!NoCall
      BY <1>1, <3>7, CallTypes
    <3>9. Locality!TypeOK'
      BY <1>1, <2>1, <2>2, <3>3, <3>4 DEF Locality!TypeOK, Locality!Profile
    <3>10. Locality!CallsAgree'
      BY <1>1, <2>1, <2>2, <3>4, <3>7, <3>8 DEF Locality!CallsAgree, Locality!NoCall
    <3>11. verifications'[review.row].expires = review.now + Validity
      BY <2>2, <3>1, <3>4
    <3> QED
      BY <2>1, <3>3, <3>5, <3>6, <3>7, <3>9, <3>10, <3>11 DEF Locality!BadgeIsCredential
  <2>4. CASE ~ Locality!Approve
    <3>1. PICK outcome \in {"rejected", "correction_needed", "final_rejected"},
               shown \in {"rejected", "pending"} : Locality!Refuse(outcome, shown)
      BY <1>7, <2>4 DEF Locality!EndReview
    <3> DEFINE row == Locality!Decided(outcome)
    <3>2. row \in Locality!Verification /\ ~ IsCredential(row)
      <4>1. CASE outcome = "rejected"
        <5>1. row = [status |-> "rejected", reviewer |-> review.by,
                     appealBy |-> review.now + AppealWindow, expires |-> 0]
          BY <4>1 DEF Locality!Decided, Locality!With
        <5>2. review.now + AppealWindow \in Nat
          BY <2>2
        <5> QED
          BY <2>2, <5>1, <5>2
          DEF Locality!Verification, IsCredential, Locality!VerificationStatus
      <4>2. CASE outcome # "rejected"
        <5>1. row = Locality!With(outcome) /\ outcome \in Locality!VerificationStatus
          BY <3>1, <4>2 DEF Locality!Decided, Locality!VerificationStatus, Locality!Open
        <5> QED
          BY <3>1, <5>1, WithIsRow DEF IsCredential
      <4> QED
        BY <4>1, <4>2
    <3>3. /\ verifications' = [verifications EXCEPT ![review.row] = row]
          /\ profile' = Locality!ClearProfileUnlessCurrent(shown, review.now)
      BY <3>1 DEF Locality!Refuse
    <3> HIDE DEF row
    <3>4. /\ verifications' \in Seq(Locality!Verification)
          /\ Len(verifications') = Len(verifications)
          /\ \A q \in Locality!Proofs : q # review.row => verifications'[q] = verifications[q]
          /\ Locality!OpenProofs' \subseteq Locality!OpenProofs \cup {review.row}
          /\ Locality!Credentials' = Locality!Credentials \ {review.row}
      BY <1>1, <2>2, <3>2, <3>3, ProofIsWritten
    <3>5. /\ Locality!OpenProofs' \subseteq Locality!OpenProofs
          /\ Locality!Credentials' = Locality!Credentials
          /\ \A p \in Locality!Credentials :
               verifications'[p] = verifications[p] /\ verifications[p].expires \in Nat
      BY <1>1, <2>2, <3>4, ProofRows DEF Locality!Credentials, Locality!Verification
    <3>6. /\ profile' \in Locality!Profile
          /\ profile' = profile \/ profile'.status # "verified"
          /\ profile.status = "verified" /\ profile.expires > review.now => profile' = profile
      BY <1>1, <2>2, <3>1, <3>3, ClearingIsProfile
    <3>7. Locality!TypeOK'
      BY <1>1, <2>1, <3>4, <3>6 DEF Locality!TypeOK
    <3>8. Locality!CallsAgree'
      <4>1. expiry # Locality!NoCall => expiry.row \in Locality!Credentials
        BY <1>1, CallTypes DEF Locality!BadgeIsCredential
      <4> QED
        BY <1>1, <2>1, <2>2, <3>4, <3>5, <4>1 DEF Locality!CallsAgree, Locality!NoCall
    <3>9. \A p \in Locality!Credentials' : verifications'[p].expires > clock' =>
             profile' = [status |-> "verified", expires |-> verifications'[p].expires]
      <4> SUFFICES ASSUME NEW p \in Locality!Credentials, verifications[p].expires > clock
                   PROVE  profile' = [status |-> "verified", expires |-> verifications[p].expires]
        BY <2>1, <3>5
      <4>1. profile = [status |-> "verified", expires |-> verifications[p].expires]
        BY <1>1 DEF Locality!BadgeIsCredential
      <4> QED
        BY <2>2, <3>5, <3>6, <4>1
    <3>10. profile'.status = "verified" =>
             \E p \in Locality!Credentials' : verifications'[p].expires = profile'.expires
      BY <1>1, <3>5, <3>6 DEF Locality!BadgeIsCredential
    <3> QED
      BY <1>1, <2>1, <3>5, <3>7, <3>8, <3>9, <3>10 DEF Locality!BadgeIsCredential
  <2> QED
    BY <2>3, <2>4
<1>8. CASE \E p \in Locality!Proofs, now \in Locality!Nows : Locality!Appeal(p, now)
  <2>1. PICK p \in Locality!Proofs, now \in Locality!Nows : Locality!Appeal(p, now)
    BY <1>8
  <2> DEFINE row == [verifications[p] EXCEPT !.status = "appeal_pending"]
  <2>2. /\ verifications' = [verifications EXCEPT ![p] = row] /\ profile' = profile
        /\ verifications[p].status = "rejected" /\ Locality!OpenProofs = {}
        /\ clock' = clock /\ submission' = submission /\ review' = review
        /\ change' = change /\ expiry' = expiry
    BY <2>1 DEF Locality!Appeal, Locality!calls
  <2>3. row \in Locality!Verification /\ IsOpen(row) /\ ~ IsCredential(row)
    BY <1>1, <2>1, ProofRows
    DEF IsOpen, IsCredential, Locality!Verification, Locality!VerificationStatus, Locality!Open
  <2> HIDE DEF row
  <2>4. /\ verifications' \in Seq(Locality!Verification)
        /\ Len(verifications') = Len(verifications)
        /\ \A q \in Locality!Proofs : q # p => verifications'[q] = verifications[q]
        /\ Locality!OpenProofs' = Locality!OpenProofs \cup {p}
        /\ Locality!Credentials' = Locality!Credentials \ {p}
    BY <1>1, <2>1, <2>2, <2>3, ProofIsWritten
  <2>5. /\ Locality!OpenProofs' = {p}
        /\ Locality!Credentials' = Locality!Credentials
        /\ \A q \in Locality!Credentials : verifications'[q] = verifications[q]
    BY <2>2, <2>4 DEF Locality!Credentials
  <2>6. Locality!TypeOK'
    BY <1>1, <2>2, <2>4 DEF Locality!TypeOK
  <2>7. Locality!CallsAgree'
    <3>1. expiry # Locality!NoCall => expiry.row \in Locality!Credentials
      BY <1>1, CallTypes DEF Locality!BadgeIsCredential
    <3> QED
      BY <1>1, <2>2, <2>4, <2>5, <3>1 DEF Locality!CallsAgree
  <2>8. review = Locality!NoCall
    BY <1>1, <2>2 DEF Locality!BadgeIsCredential
  <2> QED
    BY <1>1, <2>2, <2>5, <2>6, <2>7, <2>8 DEF Locality!BadgeIsCredential
<1>9. CASE \E p \in Locality!Proofs, now \in Locality!Nows :
              Locality!BeginAddressChange(p, now) \/ Locality!BeginExpiry(p, now)
  <2>1. PICK p \in Locality!Proofs, now \in Locality!Nows :
              Locality!BeginAddressChange(p, now) \/ Locality!BeginExpiry(p, now)
    BY <1>9
  <2>2. /\ verifications' = verifications /\ profile' = profile
        /\ clock' = clock /\ submission' = submission /\ review' = review
        /\ p \in Locality!Credentials
        /\ \/ /\ change' = [now |-> now, row |-> p] /\ expiry' = expiry /\ expiry.row # p
           \/ /\ expiry' = [now |-> now, row |-> p] /\ change' = change /\ change.row # p
              /\ verifications[p].expires <= now
    BY <2>1 DEF Locality!BeginAddressChange, Locality!BeginExpiry, Locality!rows
  <2>3. /\ Locality!OpenProofs' = Locality!OpenProofs
        /\ Locality!Credentials' = Locality!Credentials
    BY <2>2, Zenon DEF Locality!OpenProofs, Locality!Credentials, Locality!Proofs
  <2>4. p \in 1..MaxProofs
    BY <1>1, <2>1, ProofRows DEF Locality!TypeOK
  <2>5. Locality!TypeOK'
    BY <1>1, <1>2, <2>1, <2>2, <2>4 DEF Locality!TypeOK, Locality!Call
  <2>6. Locality!CallsAgree'
    <3>1. change'.row = 0 \/ expiry'.row = 0
      BY <1>1, <2>2 DEF Locality!BadgeIsCredential
    <3> QED
      BY <1>1, <1>2, <2>1, <2>2, <3>1 DEF Locality!CallsAgree
  <2>7. {change'.row, expiry'.row} \subseteq Locality!Credentials \cup {0}
    BY <1>1, <2>2 DEF Locality!BadgeIsCredential
  <2> QED
    BY <1>1, <2>2, <2>3, <2>5, <2>6, <2>7 DEF Locality!BadgeIsCredential
<1>10. CASE Locality!EndAddressChange
  <2>1. change # Locality!NoCall /\ change.row \in Locality!Credentials
    BY <1>1, <1>10, CallTypes DEF Locality!EndAddressChange, Locality!BadgeIsCredential
  <2>2. expiry = Locality!NoCall
    BY <1>1, <2>1, CallTypes DEF Locality!CallsAgree
  <2>3. profile' \in Locality!Profile /\ profile'.status # "verified"
    BY <1>10 DEF Locality!EndAddressChange, Locality!Cleared, Locality!Profile
  <2> QED
    BY <1>10, <2>1, <2>2, <2>3, CredentialEnds DEF Locality!EndAddressChange
<1>11. CASE Locality!EndExpiry
  <2>1. expiry # Locality!NoCall /\ expiry.row \in Locality!Credentials
    BY <1>1, <1>11, CallTypes DEF Locality!EndExpiry, Locality!BadgeIsCredential
  <2>2. change = Locality!NoCall
    BY <1>1, <2>1, CallTypes DEF Locality!CallsAgree
  <2>3. /\ verifications[expiry.row].expires <= expiry.now
        /\ profile' = Locality!ExpireDue(profile, expiry.now)
    BY <1>1, <1>11, <2>1 DEF Locality!EndExpiry, Locality!CallsAgree
  <2>4. profile.status = "verified" => profile.expires = verifications[expiry.row].expires
    BY <1>1, <2>1 DEF Locality!BadgeIsCredential
  <2>5. profile' \in Locality!Profile /\ profile'.status # "verified"
    BY <1>1, <2>3, <2>4 DEF Locality!ExpireDue, Locality!TypeOK, Locality!Profile
  <2> QED
    BY <1>11, <2>1, <2>2, <2>5, CredentialEnds DEF Locality!EndExpiry
<1>12. CASE Locality!Abort
  <2>1. /\ verifications' = verifications /\ profile' = profile /\ clock' = clock
        /\ submission' \in {submission, Locality!NoCall}
        /\ review' \in {review, Locality!NoCall}
        /\ change' \in {change, Locality!NoCall}
        /\ expiry' \in {expiry, Locality!NoCall}
    BY <1>12 DEF Locality!Abort, Locality!rows
  <2>2. /\ Locality!OpenProofs' = Locality!OpenProofs
        /\ Locality!Credentials' = Locality!Credentials
    BY <2>1, Zenon DEF Locality!OpenProofs, Locality!Credentials, Locality!Proofs
  <2>3. Locality!NoCall.now = 0 /\ Locality!NoCall.row = 0 /\ clock \in Nat
    BY <1>1 DEF Locality!NoCall, Locality!TypeOK
  <2>4. Locality!TypeOK'
    BY <1>1, <2>1 DEF Locality!TypeOK, Locality!Call
  <2>5. Locality!CallsAgree'
    BY <1>1, <2>1, <2>3 DEF Locality!CallsAgree
  <2> QED
    BY <1>1, <2>1, <2>2, <2>3, <2>4, <2>5 DEF Locality!BadgeIsCredential
<1>13. CASE Locality!Tick
  <2>1. /\ verifications' = verifications /\ profile' = profile /\ clock' = clock + 1
        /\ submission' = submission /\ review' = review
        /\ change' = change /\ expiry' = expiry
    BY <1>13 DEF Locality!Tick, Locality!rows, Locality!calls
  <2>2. /\ Locality!OpenProofs' = Locality!OpenProofs
        /\ Locality!Credentials' = Locality!Credentials
    BY <2>1, Zenon DEF Locality!OpenProofs, Locality!Credentials, Locality!Proofs
  <2>3. \A p \in Locality!Credentials : verifications[p].expires \in Nat
    BY <1>1, ProofRows DEF Locality!Credentials, Locality!Verification
  <2>4. Locality!TypeOK'
    BY <1>1, <2>1 DEF Locality!TypeOK
  <2>5. Locality!CallsAgree'
    BY <1>1, <2>1, CallTypes DEF Locality!CallsAgree, Locality!TypeOK
  <2> QED
    BY <1>1, <2>1, <2>2, <2>3, <2>4, <2>5 DEF Locality!BadgeIsCredential, Locality!TypeOK
<1> QED
  BY <1>3, <1>4, <1>5, <1>6, <1>7, <1>8, <1>9, <1>10, <1>11, <1>12, <1>13 DEF Locality!Next

(* However submissions, reviews, appeals, declared changes and expiries meet,
   and whichever are rolled back, the badge is the credential; for any number
   of proofs and reviewers, any validity, windows and waits for locks. *)
THEOREM LocalityInvariance == Locality!Spec => []Locality!InductiveInvariant
<1>1. Locality!InductiveInvariant /\ [Locality!Next]_Locality!vars => Locality!InductiveInvariant'
  <2> SUFFICES ASSUME Locality!InductiveInvariant, [Locality!Next]_Locality!vars
               PROVE  Locality!InductiveInvariant'
    OBVIOUS
  <2>1. CASE Locality!Next
    BY <2>1, LocalityStep
  <2>2. CASE UNCHANGED Locality!vars
    BY <2>2, Zenon
    DEF Locality!vars, Locality!rows, Locality!calls, Locality!InductiveInvariant,
        Locality!BadgeIsCredential, Locality!CallsAgree, Locality!TypeOK, Locality!Proofs,
        Locality!OpenProofs, Locality!Credentials
  <2> QED
    BY <2>1, <2>2
<1> QED
  BY <1>1, LocalityInit, PTL DEF Locality!Spec

-----------------------------------------------------------------------------
(* ReachQualification: proofs, tiers and calls in flight agree.            *)

Verified == {p \in DOMAIN proofs : proofs[p].status = "verified"}

LEMMA ReachCounts == \A S : Reach!Cardinality(S) = Cardinality(S)
BY DEF Reach!Cardinality, Cardinality

LEMMA ReachRows ==
  ASSUME Reach!TypeOK
  PROVE  /\ Len(proofs) \in Nat /\ DOMAIN proofs = 1..Len(proofs)
         /\ \A p \in DOMAIN proofs : proofs[p] \in Reach!ProofRow
         /\ Len(tiers) \in Nat /\ DOMAIN tiers = 1..Len(tiers)
         /\ \A t \in DOMAIN tiers : tiers[t] \in Reach!TierRow
BY RowsOfSequence DEF Reach!TypeOK

(* There are no more verified proofs than proofs.                          *)
LEMMA VerifiedAreFew ==
  ASSUME Reach!TypeOK
  PROVE  /\ IsFiniteSet(Verified) /\ Cardinality(Verified) \in Nat
         /\ Cardinality(Verified) <= Len(proofs)
<1>1. Len(proofs) \in Nat /\ DOMAIN proofs = 1..Len(proofs)
  BY ReachRows
<1>2. IsFiniteSet(1..Len(proofs)) /\ Cardinality(1..Len(proofs)) = Len(proofs)
  <2> DEFINE n == Len(proofs)
  <2>1. n \in Nat
    BY <1>1
  <2> HIDE DEF n
  <2>2. IsFiniteSet(1..n) /\ Cardinality(1..n) = IF 1 > n THEN 0 ELSE n - 1 + 1
    BY <2>1, FS_Interval
  <2>3. IsFiniteSet(1..n) /\ Cardinality(1..n) = n
    BY <2>1, <2>2
  <2> QED
    BY <2>3 DEF n
<1>3. Verified \subseteq 1..Len(proofs)
  BY <1>1 DEF Verified
<1> QED
  BY <1>2, <1>3, FS_Subset, FS_CardinalityType

(* A step that writes one proof.                                           *)
LEMMA ReachProofIsWritten ==
  ASSUME Reach!TypeOK, NEW p \in DOMAIN proofs, NEW row \in Reach!ProofRow,
         proofs' = [proofs EXCEPT ![p] = row]
  PROVE  /\ proofs' \in Seq(Reach!ProofRow) /\ Len(proofs') = Len(proofs)
         /\ DOMAIN proofs' = DOMAIN proofs
         /\ proofs'[p] = row /\ \A q \in DOMAIN proofs : q # p => proofs'[q] = proofs[q]
         /\ Reach!ActiveProofs' =
              IF Reach!IsActiveProof(row) THEN Reach!ActiveProofs \cup {p}
                                          ELSE Reach!ActiveProofs \ {p}
         /\ Verified' = IF row.status = "verified" THEN Verified \cup {p} ELSE Verified \ {p}
<1>1. /\ proofs' \in Seq(Reach!ProofRow) /\ Len(proofs') = Len(proofs)
      /\ DOMAIN proofs' = DOMAIN proofs
  BY ReachRows DEF Reach!TypeOK
<1>2. proofs'[p] = row /\ \A q \in DOMAIN proofs : q # p => proofs'[q] = proofs[q]
  OBVIOUS
<1>3. Reach!ActiveProofs' =
        IF Reach!IsActiveProof(row) THEN Reach!ActiveProofs \cup {p}
                                    ELSE Reach!ActiveProofs \ {p}
  BY <1>1, <1>2 DEF Reach!ActiveProofs, Reach!IsActiveProof
<1>4. Verified' = IF row.status = "verified" THEN Verified \cup {p} ELSE Verified \ {p}
  BY <1>1, <1>2 DEF Verified
<1> QED
  BY <1>1, <1>2, <1>3, <1>4

(* A step that writes some tiers.                                          *)
LEMMA TiersAreWritten ==
  ASSUME Reach!TypeOK, tiers' \in [DOMAIN tiers -> Reach!TierRow]
  PROVE  /\ tiers' \in Seq(Reach!TierRow) /\ Len(tiers') = Len(tiers)
         /\ DOMAIN tiers' = DOMAIN tiers
<1>1. tiers' \in [1..Len(tiers) -> Reach!TierRow]
  BY ReachRows
<1>2. tiers' \in Seq(Reach!TierRow) /\ Len(tiers') = Len(tiers)
  BY <1>1, ReachRows, FunctionIsSequence
<1> QED
  BY <1>2

LEMMA ReachWithIsRow ==
  ASSUME NEW status \in Reach!ProofStatus
  PROVE  Reach!With(status) \in Reach!ProofRow /\ Reach!With(status).status = status
BY DEF Reach!With, Reach!ProofRow

LEMMA ReachInit == Reach!Init => Reach!InductiveInvariant
<1> SUFFICES ASSUME Reach!Init PROVE Reach!InductiveInvariant
  OBVIOUS
<1>1. /\ proofs = <<>> /\ tiers = <<>>
      /\ Reach!ActiveProofs = {} /\ Reach!ActiveTiers = {} /\ Verified = {}
  BY DEF Reach!Init, Reach!ActiveProofs, Reach!ActiveTiers, Verified
<1>2. Reach!TypeOK
  <2>1. Reach!NoRevocation \in Reach!Revocation
    BY DEF Reach!Revocation, Reach!NoRevocation
  <2>2. 0 \in 0..MaxOutages /\ Len(proofs) <= MaxTiers
    BY <1>1, ReachIsAssumed DEF Reach!ReachAssumption
  <2>3. proofs \in Seq(Reach!ProofRow) /\ tiers \in Seq(Reach!TierRow)
    BY <1>1
  <2>4. /\ clock \in Nat /\ capability \in {"disabled", "enabled", "outage"}
        /\ outages \in 0..MaxOutages /\ consent \in {"none", "active", "revoked"}
        /\ submitting \in BOOLEAN
        /\ reviewing \in Reach!Review \cup {Reach!NoReview} /\ revoking \in Reach!Revocation
    BY <2>1, <2>2 DEF Reach!Init
  <2> QED
    BY <2>2, <2>3, <2>4 DEF Reach!TypeOK
<1>3. Len(tiers) = Reach!Cardinality(Verified)
  BY <1>1, ReachCounts, FS_EmptySet
<1> QED
  BY <1>1, <1>2, <1>3
  DEF Reach!Init, Reach!InductiveInvariant, Reach!RowsAgree, Reach!NoRevocation, Verified

(* An approval ends the one active proof, and its tier is the one active.  *)
LEMMA ApprovalAgrees ==
  ASSUME Reach!InductiveInvariant, Reach!Approve
  PROVE  /\ proofs' \in Seq(Reach!ProofRow) /\ Len(proofs') = Len(proofs)
         /\ tiers' \in Seq(Reach!TierRow) /\ Len(tiers') = Len(tiers) + 1
         /\ Reach!ActiveProofs' = {} /\ Reach!ActiveTiers' = {Len(tiers')}
         /\ Len(tiers') = Reach!Cardinality(Verified')
         /\ \A t \in DOMAIN tiers : /\ t \in DOMAIN tiers'
                                    /\ tiers'[t].expires = tiers[t].expires
                                    /\ tiers'[t].grace = tiers[t].grace
                                    /\ tiers'[t].status # "active"
         /\ DOMAIN tiers' = DOMAIN tiers \cup {Len(tiers')}
         /\ tiers'[Len(tiers')].grace = 0
         /\ reviewing' = Reach!NoReview
<1> USE DEF Reach!Approve
<1>1. Reach!TypeOK /\ Reach!RowsAgree
  BY DEF Reach!InductiveInvariant, Reach!RowsAgree
<1>2. /\ reviewing.proof \in Reach!ActiveProofs /\ reviewing.proof \in DOMAIN proofs
      /\ reviewing.proof \notin Verified
      /\ \A p \in Reach!ActiveProofs : p = reviewing.proof
  BY <1>1 DEF Reach!RowsAgree, Reach!ActiveProofs, Reach!IsActiveProof, Verified
<1> DEFINE row == Reach!With("verified")
<1>3. row \in Reach!ProofRow /\ ~ Reach!IsActiveProof(row) /\ row.status = "verified"
  BY ReachWithIsRow DEF Reach!IsActiveProof, Reach!ProofStatus
<1> HIDE DEF row
<1>4. proofs' = [proofs EXCEPT ![reviewing.proof] = row]
  BY DEF row
<1>5. /\ proofs' \in Seq(Reach!ProofRow) /\ Len(proofs') = Len(proofs)
      /\ Reach!ActiveProofs' = {} /\ Verified' = Verified \cup {reviewing.proof}
  BY <1>1, <1>2, <1>3, <1>4, ReachProofIsWritten
<1> DEFINE old == [t \in DOMAIN tiers |-> Reach!Superseded(tiers[t])]
           new == [status |-> "active", expires |-> reviewing.now + Validity, grace |-> 0]
<1>6. /\ old \in Seq(Reach!TierRow) /\ Len(old) = Len(tiers)
      /\ \A t \in DOMAIN tiers : /\ old[t].expires = tiers[t].expires
                                 /\ old[t].grace = tiers[t].grace
                                 /\ old[t].status # "active"
  <2>1. \A t \in DOMAIN tiers :
          /\ Reach!Superseded(tiers[t]) \in Reach!TierRow
          /\ Reach!Superseded(tiers[t]).expires = tiers[t].expires
          /\ Reach!Superseded(tiers[t]).grace = tiers[t].grace
          /\ Reach!Superseded(tiers[t]).status # "active"
    BY <1>1, ReachRows DEF Reach!Superseded, Reach!TierRow, Reach!TierStatus
  <2>2. old \in [1..Len(tiers) -> Reach!TierRow]
    BY <1>1, <2>1, ReachRows
  <2>3. old \in Seq(Reach!TierRow) /\ Len(old) = Len(tiers)
    BY <1>1, <2>2, ReachRows, FunctionIsSequence
  <2> QED
    BY <2>1, <2>3
<1>7. new \in Reach!TierRow
  BY <1>1, ReachIsAssumed
  DEF Reach!TypeOK, Reach!Review, Reach!TierRow, Reach!TierStatus, Reach!ReachAssumption
<1>8. tiers' = Append(old, new)
  BY DEF Reach!CreateQualification
<1>9. new.status = "active" /\ new.grace = 0
  OBVIOUS
<1> HIDE DEF old, new
<1>10. /\ tiers' \in Seq(Reach!TierRow) /\ Len(tiers') = Len(tiers) + 1
       /\ tiers'[Len(tiers')] = new /\ \A t \in 1..Len(tiers) : tiers'[t] = old[t]
  BY <1>6, <1>7, <1>8, RowAppended
<1>11. /\ Len(tiers) \in Nat /\ DOMAIN tiers = 1..Len(tiers)
       /\ DOMAIN tiers' = 1..(Len(tiers) + 1)
  BY <1>1, <1>10, ReachRows, RowsOfSequence
<1>12. Reach!ActiveTiers' = {Len(tiers')}
  BY <1>6, <1>9, <1>10, <1>11 DEF Reach!ActiveTiers
<1>13. Len(tiers') = Reach!Cardinality(Verified')
  <2>1. IsFiniteSet(Verified) /\ Len(tiers) = Cardinality(Verified)
    BY <1>1, VerifiedAreFew, ReachCounts DEF Reach!RowsAgree, Verified
  <2>2. Cardinality(Verified \cup {reviewing.proof}) = Cardinality(Verified) + 1
    BY <1>2, <2>1, FS_AddElement
  <2> QED
    BY <1>5, <1>10, <2>1, <2>2, ReachCounts
<1>14. DOMAIN tiers' = DOMAIN tiers \cup {Len(tiers')}
  BY <1>10, <1>11
<1>15. \A t \in DOMAIN tiers : /\ t \in DOMAIN tiers'
                              /\ tiers'[t].expires = tiers[t].expires
                              /\ tiers'[t].grace = tiers[t].grace
                              /\ tiers'[t].status # "active"
  BY <1>6, <1>10, <1>11
<1> QED
  BY <1>5, <1>9, <1>10, <1>12, <1>13, <1>14, <1>15

(* A step that leaves the tiers' number and the verified proofs as they are. *)
LEMMA CountIsKept ==
  ASSUME Reach!InductiveInvariant, Len(tiers') = Len(tiers), Verified' = Verified
  PROVE  Len(tiers') = Reach!Cardinality(Verified')
BY DEF Reach!InductiveInvariant, Reach!RowsAgree, Verified

(* What a decision against a proof writes.                                 *)
LEMMA RejectionIsRow ==
  ASSUME Reach!TypeOK, reviewing # Reach!NoReview, NEW proof \in Reach!ProofRow
  PROVE  /\ Reach!Rejection(proof) \in Reach!ProofRow
         /\ Reach!Rejection(proof).status \in {"rejected", "final_rejected"}
<1>1. CASE proof.status = "pending_review"
  <2>1. Reach!Rejection(proof) = [status |-> "rejected", reviewer |-> reviewing.by,
                                  rejectedAt |-> reviewing.now, deleted |-> FALSE]
    BY <1>1 DEF Reach!Rejection, Reach!With
  <2>2. reviewing.by \in Reviewers /\ reviewing.now \in Nat
    BY DEF Reach!TypeOK, Reach!Review
  <2> QED
    BY <2>1, <2>2 DEF Reach!ProofRow, Reach!ProofStatus
<1>2. CASE proof.status # "pending_review"
  BY <1>2, ReachWithIsRow DEF Reach!Rejection, Reach!ProofStatus
<1> QED
  BY <1>1, <1>2

LEMMA ReachStep ==
  ASSUME Reach!InductiveInvariant, Reach!Next
  PROVE  Reach!InductiveInvariant'
<1>1. /\ Reach!TypeOK /\ Reach!RowsAgree
      /\ submitting => Len(proofs) < MaxTiers
      /\ \A t \in DOMAIN tiers : tiers[t].grace <= outages
  BY DEF Reach!InductiveInvariant, Reach!RowsAgree
<1>2. \A now \in Reach!Nows : now \in Nat /\ now <= clock
  BY <1>1 DEF Reach!Nows, Reach!TypeOK
<1> USE ReachIsAssumed DEF Reach!ReachAssumption
<1>3. ASSUME proofs' = proofs, tiers' = tiers, Reach!TypeOK',
             revoking' = revoking \/ revoking'.on = FALSE
               \/ (revoking'.tiers = Reach!ActiveTiers /\ consent' = "active"),
             revoking'.on => consent' = consent \/ consent' = "active",
             reviewing' = reviewing \/ reviewing' = Reach!NoReview
               \/ (reviewing'.proof \in Reach!ActiveProofs
                     /\ Reach!MayReview(reviewing'.proof, reviewing'.by)),
             submitting' => submitting \/ Len(proofs) < MaxTiers,
             outages' = outages
      PROVE  Reach!InductiveInvariant'
  <2>1. /\ Reach!ActiveProofs' = Reach!ActiveProofs /\ Reach!ActiveTiers' = Reach!ActiveTiers
        /\ Verified' = Verified
        /\ \A p, by : Reach!MayReview(p, by)' = Reach!MayReview(p, by)
    BY <1>3, Zenon DEF Reach!ActiveProofs, Reach!ActiveTiers, Verified, Reach!MayReview
  <2>2. Len(tiers') = Reach!Cardinality(Verified')
    BY <1>3, <2>1, CountIsKept
  <2>3. revoking'.on => consent' = "active" /\ revoking'.tiers \subseteq Reach!ActiveTiers
    BY <1>1, <1>3 DEF Reach!RowsAgree, Reach!LockedTiers
  <2>4. reviewing' # Reach!NoReview =>
          /\ reviewing'.proof \in Reach!ActiveProofs
          /\ Reach!MayReview(reviewing'.proof, reviewing'.by)
    BY <1>1, <1>3 DEF Reach!RowsAgree
  <2> QED
    BY <1>1, <1>3, <2>1, <2>2, <2>3, <2>4
    DEF Reach!InductiveInvariant, Reach!RowsAgree, Reach!LockedTiers, Verified
<1>4. CASE Reach!ActivatePlatform \/ Reach!ResolveProviderOutage \/ Reach!Tick
  <2>1. /\ proofs' = proofs /\ tiers' = tiers /\ consent' = consent /\ outages' = outages
        /\ submitting' = submitting /\ reviewing' = reviewing /\ revoking' = revoking
        /\ clock' \in {clock, clock + 1} /\ capability' \in {capability, "enabled"}
    BY <1>4 DEF Reach!ActivatePlatform, Reach!ResolveProviderOutage, Reach!Tick, Reach!calls,
        Reach!rows
  <2>2. Reach!TypeOK'
    BY <1>1, <2>1 DEF Reach!TypeOK
  <2> QED
    BY <1>3, <2>1, <2>2
<1>5. CASE Reach!SetConsent
  <2>1. /\ proofs' = proofs /\ tiers' = tiers /\ consent' = "active" /\ outages' = outages
        /\ submitting' = submitting /\ reviewing' = reviewing /\ revoking' = revoking
        /\ clock' = clock /\ capability' = capability /\ ~ revoking.on
    BY <1>5 DEF Reach!SetConsent, Reach!calls
  <2>2. Reach!TypeOK'
    BY <1>1, <2>1 DEF Reach!TypeOK
  <2> QED
    BY <1>3, <2>1, <2>2
<1>6. CASE Reach!BeginSubmission
  <2>1. /\ proofs' = proofs /\ tiers' = tiers /\ consent' = consent /\ outages' = outages
        /\ submitting' = TRUE /\ reviewing' = reviewing /\ revoking' = revoking
        /\ clock' = clock /\ capability' = capability /\ Len(proofs) < MaxTiers
    BY <1>6 DEF Reach!BeginSubmission, Reach!rows
  <2>2. Reach!TypeOK'
    BY <1>1, <2>1 DEF Reach!TypeOK
  <2> QED
    BY <1>3, <2>1, <2>2
<1>7. CASE Reach!AbortDeadlocked
  <2>1. /\ proofs' = proofs /\ tiers' = tiers /\ consent' = consent /\ outages' = outages
        /\ submitting' = submitting
        /\ reviewing' \in {reviewing, Reach!NoReview}
        /\ revoking' \in {revoking, Reach!NoRevocation}
        /\ clock' = clock /\ capability' = capability
    BY <1>7 DEF Reach!AbortDeadlocked, Reach!rows
  <2>2. Reach!NoRevocation \in Reach!Revocation /\ Reach!NoRevocation.on = FALSE
    BY DEF Reach!NoRevocation, Reach!Revocation
  <2>3. Reach!TypeOK'
    BY <1>1, <2>1, <2>2 DEF Reach!TypeOK
  <2> QED
    BY <1>3, <2>1, <2>2, <2>3
<1>8. CASE \E p \in DOMAIN proofs, by \in Reviewers, now \in Reach!Nows :
               Reach!BeginReview(p, by, now)
  <2>1. PICK p \in DOMAIN proofs, by \in Reviewers, now \in Reach!Nows :
               Reach!BeginReview(p, by, now)
    BY <1>8
  <2>2. /\ proofs' = proofs /\ tiers' = tiers /\ consent' = consent /\ outages' = outages
        /\ submitting' = submitting /\ revoking' = revoking
        /\ reviewing' = [proof |-> p, by |-> by, now |-> now]
        /\ clock' = clock /\ capability' = capability /\ Reach!MayReview(p, by)
    BY <2>1 DEF Reach!BeginReview, Reach!rows
  <2>3. p \in Reach!ActiveProofs /\ p \in 1..MaxTiers
    BY <1>1, <2>1, <2>2, ReachRows
    DEF Reach!ActiveProofs, Reach!IsActiveProof, Reach!MayReview, Reach!TypeOK
  <2>4. Reach!TypeOK'
    BY <1>1, <1>2, <2>1, <2>2, <2>3 DEF Reach!TypeOK, Reach!Review
  <2> QED
    BY <1>3, <2>2, <2>3, <2>4
<1>9. CASE \E now \in Reach!Nows : Reach!BeginRevocation(now)
  <2>1. PICK now \in Reach!Nows : Reach!BeginRevocation(now)
    BY <1>9
  <2>2. /\ proofs' = proofs /\ tiers' = tiers /\ consent' = consent /\ outages' = outages
        /\ submitting' = submitting /\ reviewing' = reviewing
        /\ revoking' = [on |-> TRUE, tiers |-> Reach!ActiveTiers, now |-> now]
        /\ clock' = clock /\ capability' = capability /\ consent = "active"
    BY <2>1 DEF Reach!BeginRevocation, Reach!rows
  <2>3. Reach!ActiveTiers \subseteq 1..MaxTiers
    <3>1. Len(tiers) = Cardinality(Verified)
      BY <1>1, ReachCounts DEF Reach!RowsAgree, Verified
    <3>2. Len(tiers) <= MaxTiers
      BY <1>1, <3>1, VerifiedAreFew, ReachRows DEF Reach!TypeOK
    <3> QED
      BY <1>1, <3>2, ReachRows DEF Reach!ActiveTiers
  <2>4. Reach!TypeOK'
    BY <1>1, <1>2, <2>1, <2>2, <2>3 DEF Reach!TypeOK, Reach!Revocation
  <2> QED
    BY <1>3, <2>2, <2>4
<1>10. CASE Reach!EndSubmission
  <2> DEFINE row == Reach!With("pending_review")
  <2>1. row \in Reach!ProofRow /\ Reach!IsActiveProof(row) /\ row.status # "verified"
    BY ReachWithIsRow DEF Reach!IsActiveProof, Reach!ProofStatus
  <2> HIDE DEF row
  <2>2. /\ tiers' = tiers /\ consent' = consent /\ outages' = outages
        /\ submitting' = FALSE /\ reviewing' = reviewing /\ revoking' = revoking
        /\ clock' = clock /\ capability' = capability /\ submitting /\ ~ revoking.on
    BY <1>10 DEF Reach!EndSubmission
  <2>3. CASE Reach!ActiveProofs # {}
    <3>1. proofs' = proofs
      BY <1>10, <2>3 DEF Reach!EndSubmission
    <3>2. Reach!TypeOK'
      BY <1>1, <2>2, <3>1 DEF Reach!TypeOK
    <3> QED
      BY <1>3, <2>2, <3>1, <3>2
  <2>4. CASE Reach!ActiveProofs = {}
    <3>1. proofs' = Append(proofs, row)
      BY <1>10, <2>4 DEF Reach!EndSubmission, row
    <3>2. /\ proofs' \in Seq(Reach!ProofRow) /\ Len(proofs') = Len(proofs) + 1
          /\ proofs'[Len(proofs) + 1] = row
          /\ \A p \in 1..Len(proofs) : proofs'[p] = proofs[p]
      BY <1>1, <2>1, <3>1, RowAppended DEF Reach!TypeOK
    <3>3. /\ Len(proofs) \in Nat /\ DOMAIN proofs = 1..Len(proofs)
          /\ DOMAIN proofs' = 1..(Len(proofs) + 1)
      BY <1>1, <3>2, ReachRows, RowsOfSequence
    <3>4. Reach!ActiveProofs' = {Len(proofs) + 1}
      BY <2>1, <2>4, <3>2, <3>3 DEF Reach!ActiveProofs
    <3>5. Verified' = Verified
      BY <2>1, <3>2, <3>3 DEF Verified
    <3>6. Reach!TypeOK'
      <4>1. Len(proofs') <= MaxTiers
        BY <1>1, <2>2, <3>2, <3>3
      <4> QED
        BY <1>1, <2>2, <3>2, <4>1 DEF Reach!TypeOK
    <3>7. Len(tiers') = Reach!Cardinality(Verified')
      BY <2>2, <3>5, CountIsKept
    <3>8. reviewing = Reach!NoReview
      BY <1>1, <2>4 DEF Reach!RowsAgree
    <3>9. Reach!ActiveTiers' = Reach!ActiveTiers
      BY <2>2 DEF Reach!ActiveTiers
    <3> QED
      BY <1>1, <2>2, <3>4, <3>6, <3>7, <3>8, <3>9
      DEF Reach!InductiveInvariant, Reach!RowsAgree, Verified
  <2> QED
    BY <2>3, <2>4
<1>11. CASE /\ Reach!Approve
            /\ \/ Reach!EndReview /\ Reach!ActiveTiers \cap Reach!LockedTiers = {}
               \/ \E now \in Reach!Nows : Reach!ApproveBeforeRevocation(now)
  <2>1. /\ proofs' \in Seq(Reach!ProofRow) /\ Len(proofs') = Len(proofs)
        /\ tiers' \in Seq(Reach!TierRow) /\ Len(tiers') = Len(tiers) + 1
        /\ Reach!ActiveProofs' = {} /\ Reach!ActiveTiers' = {Len(tiers')}
        /\ Len(tiers') = Reach!Cardinality(Verified')
        /\ \A t \in DOMAIN tiers : tiers'[t].grace = tiers[t].grace
        /\ DOMAIN tiers' = DOMAIN tiers \cup {Len(tiers')}
        /\ tiers'[Len(tiers')].grace = 0
        /\ reviewing' = Reach!NoReview
    BY <1>11, ApprovalAgrees
  <2>2. /\ clock' = clock /\ capability' = capability /\ outages' = outages
        /\ consent' = consent /\ submitting' = submitting
    BY <1>11 DEF Reach!EndReview, Reach!ApproveBeforeRevocation
  <2>3. /\ revoking' \in Reach!Revocation
        /\ revoking'.on => consent = "active" /\ revoking'.tiers = {}
    <3>1. CASE Reach!EndReview /\ Reach!ActiveTiers \cap Reach!LockedTiers = {}
      BY <1>1, <3>1 DEF Reach!EndReview, Reach!RowsAgree, Reach!LockedTiers, Reach!TypeOK
    <3>2. CASE \E now \in Reach!Nows : Reach!ApproveBeforeRevocation(now)
      BY <1>2, <3>2 DEF Reach!ApproveBeforeRevocation, Reach!Revocation
    <3> QED
      BY <1>11, <3>1, <3>2
  <2>4. Reach!TypeOK'
    BY <1>1, <2>1, <2>2, <2>3 DEF Reach!TypeOK
  <2>5. \A t \in DOMAIN tiers' : tiers'[t].grace <= outages'
    BY <1>1, <2>1, <2>2 DEF Reach!TypeOK
  <2> QED
    BY <1>1, <2>1, <2>2, <2>3, <2>4, <2>5
    DEF Reach!InductiveInvariant, Reach!RowsAgree, Reach!LockedTiers, Verified
<1>12. ASSUME NEW p \in DOMAIN proofs, NEW row \in Reach!ProofRow,
              proofs' = [proofs EXCEPT ![p] = row],
              row.status # "verified", p \notin Verified,
              tiers' = tiers, consent' = consent, outages' = outages,
              submitting' = submitting, revoking' = revoking,
              clock' = clock, capability' = capability,
              Reach!IsActiveProof(row) => Reach!ActiveProofs \subseteq {p},
              \/ reviewing' = Reach!NoReview
              \/ reviewing' = reviewing /\ reviewing.proof # p
       PROVE  Reach!InductiveInvariant'
  <2>1. /\ proofs' \in Seq(Reach!ProofRow) /\ Len(proofs') = Len(proofs)
        /\ DOMAIN proofs' = DOMAIN proofs
        /\ \A q \in DOMAIN proofs : q # p => proofs'[q] = proofs[q]
        /\ Reach!ActiveProofs' = IF Reach!IsActiveProof(row) THEN Reach!ActiveProofs \cup {p}
                                                             ELSE Reach!ActiveProofs \ {p}
        /\ Verified' = Verified \ {p}
    BY <1>1, <1>12, ReachProofIsWritten
  <2>2. Verified' = Verified /\ Reach!ActiveTiers' = Reach!ActiveTiers
    BY <1>12, <2>1 DEF Reach!ActiveTiers
  <2>3. Len(tiers') = Reach!Cardinality(Verified')
    BY <1>12, <2>2, CountIsKept
  <2>4. \A q, r \in Reach!ActiveProofs' : q = r
    BY <1>1, <1>12, <2>1 DEF Reach!RowsAgree
  <2>5. Reach!TypeOK'
    BY <1>1, <1>12, <2>1 DEF Reach!TypeOK
  <2>6. reviewing' # Reach!NoReview =>
          reviewing'.proof \in Reach!ActiveProofs'
            /\ Reach!MayReview(reviewing.proof, reviewing.by)'
    <3> SUFFICES ASSUME reviewing' # Reach!NoReview
                 PROVE  reviewing'.proof \in Reach!ActiveProofs'
                          /\ Reach!MayReview(reviewing.proof, reviewing.by)'
      OBVIOUS
    <3>1. /\ reviewing' = reviewing /\ reviewing.proof # p
          /\ reviewing.proof \in Reach!ActiveProofs
          /\ Reach!MayReview(reviewing.proof, reviewing.by)
      BY <1>1, <1>12 DEF Reach!RowsAgree
    <3>2. proofs'[reviewing.proof] = proofs[reviewing.proof]
      BY <2>1, <3>1 DEF Reach!ActiveProofs
    <3>3. reviewing'.proof \in Reach!ActiveProofs'
      BY <2>1, <3>1
    <3>4. Reach!MayReview(reviewing.proof, reviewing.by)'
      BY <3>1, <3>2 DEF Reach!MayReview
    <3> QED
      BY <3>3, <3>4
  <2> QED
    BY <1>1, <1>12, <2>2, <2>3, <2>4, <2>5, <2>6
    DEF Reach!InductiveInvariant, Reach!RowsAgree, Reach!LockedTiers, Verified
<1>13. CASE /\ reviewing # Reach!NoReview
            /\ proofs' = [proofs EXCEPT ![reviewing.proof] = Reach!Rejection(@)]
            /\ reviewing' = Reach!NoReview
            /\ UNCHANGED tiers
            /\ UNCHANGED <<clock, capability, outages, consent, submitting, revoking>>
  <2> DEFINE p == reviewing.proof
             row == Reach!Rejection(proofs[p])
  <2>1. p \in Reach!ActiveProofs /\ p \in DOMAIN proofs /\ p \notin Verified
    BY <1>1, <1>13 DEF Reach!RowsAgree, Reach!ActiveProofs, Reach!IsActiveProof, Verified
  <2>2. row \in Reach!ProofRow /\ row.status # "verified" /\ ~ Reach!IsActiveProof(row)
    BY <1>1, <1>13, <2>1, ReachRows, RejectionIsRow DEF Reach!IsActiveProof
  <2>3. proofs' = [proofs EXCEPT ![p] = row]
    BY <1>13
  <2>4. /\ reviewing' = Reach!NoReview /\ tiers' = tiers
        /\ clock' = clock /\ capability' = capability /\ outages' = outages
        /\ consent' = consent /\ submitting' = submitting /\ revoking' = revoking
    BY <1>13
  <2> HIDE DEF p, row
  <2> QED
    BY <1>12, <2>1, <2>2, <2>3, <2>4
<1>14. CASE \E p \in DOMAIN proofs, now \in Reach!Nows : Reach!AppealVerification(p, now)
  <2>1. PICK p \in DOMAIN proofs, now \in Reach!Nows : Reach!AppealVerification(p, now)
    BY <1>14
  <2> DEFINE row == [proofs[p] EXCEPT !.status = "appeal_pending"]
  <2>2. row \in Reach!ProofRow /\ row.status # "verified"
    BY <1>1, <2>1, ReachRows DEF Reach!ProofRow, Reach!ProofStatus
  <2>3. /\ proofs' = [proofs EXCEPT ![p] = row] /\ p \notin Verified
        /\ Reach!ActiveProofs = {}
        /\ reviewing' = reviewing /\ tiers' = tiers
        /\ clock' = clock /\ capability' = capability /\ outages' = outages
        /\ consent' = consent /\ submitting' = submitting /\ revoking' = revoking
    BY <2>1 DEF Reach!AppealVerification, Reach!MayAppeal, Reach!calls, Verified
  <2>4. reviewing' = Reach!NoReview
    BY <1>1, <2>3 DEF Reach!RowsAgree
  <2> HIDE DEF row
  <2> QED
    BY <1>12, <2>1, <2>2, <2>3, <2>4
<1>15. CASE \E p \in DOMAIN proofs, now \in Reach!Nows : Reach!DeleteEvidence(p, now)
  <2>1. PICK p \in DOMAIN proofs, now \in Reach!Nows : Reach!DeleteEvidence(p, now)
    BY <1>15
  <2> DEFINE row == [proofs[p] EXCEPT !.deleted = TRUE]
  <2>2. /\ row \in Reach!ProofRow /\ row.status = proofs[p].status
    BY <1>1, <2>1, ReachRows DEF Reach!ProofRow
  <2>3. /\ proofs' = [proofs EXCEPT ![p] = row]
        /\ proofs[p].status \in {"rejected", "appeal_pending"}
        /\ reviewing' = reviewing /\ reviewing.proof # p /\ tiers' = tiers
        /\ clock' = clock /\ capability' = capability /\ outages' = outages
        /\ consent' = consent /\ submitting' = submitting /\ revoking' = revoking
    BY <2>1 DEF Reach!DeleteEvidence, Reach!calls
  <2>4. /\ row.status # "verified" /\ p \notin Verified
        /\ Reach!IsActiveProof(row) => p \in Reach!ActiveProofs
    BY <2>1, <2>2, <2>3 DEF Reach!IsActiveProof, Reach!ActiveProofs, Verified
  <2>5. Reach!IsActiveProof(row) => Reach!ActiveProofs \subseteq {p}
    BY <1>1, <2>4 DEF Reach!RowsAgree
  <2> HIDE DEF row
  <2> QED
    BY <1>12, <2>1, <2>2, <2>3, <2>4, <2>5
<1>16. CASE Reach!EndRevocation
  <2>1. /\ proofs' = [p \in DOMAIN proofs |-> Reach!RevokedProof(proofs[p])]
        /\ tiers' = [t \in DOMAIN tiers |->
             IF t \in Reach!LockedTiers THEN [tiers[t] EXCEPT !.status = "revoked"] ELSE tiers[t]]
        /\ consent' = "revoked" /\ revoking' = Reach!NoRevocation
        /\ clock' = clock /\ capability' = capability /\ outages' = outages
        /\ submitting' = submitting /\ reviewing' = reviewing
        /\ reviewing.proof \notin Reach!ActiveProofs
    BY <1>16 DEF Reach!EndRevocation
  <2>2. \A p \in DOMAIN proofs :
          /\ Reach!RevokedProof(proofs[p]) \in Reach!ProofRow
          /\ ~ Reach!IsActiveProof(Reach!RevokedProof(proofs[p]))
          /\ Reach!RevokedProof(proofs[p]).status = "verified" <=> proofs[p].status = "verified"
    BY <1>1, ReachRows, ReachWithIsRow
    DEF Reach!RevokedProof, Reach!IsActiveProof, Reach!ProofStatus
  <2>3. /\ proofs' \in Seq(Reach!ProofRow) /\ Len(proofs') = Len(proofs)
        /\ DOMAIN proofs' = DOMAIN proofs
    <3>1. proofs' \in [1..Len(proofs) -> Reach!ProofRow]
      BY <1>1, <2>1, <2>2, ReachRows
    <3>2. proofs' \in Seq(Reach!ProofRow) /\ Len(proofs') = Len(proofs)
      BY <1>1, <3>1, ReachRows, FunctionIsSequence
    <3> QED
      BY <2>1, <3>2
  <2>4. Reach!ActiveProofs' = {} /\ Verified' = Verified
    BY <2>1, <2>2, <2>3 DEF Reach!ActiveProofs, Verified
  <2>5. /\ tiers' \in [DOMAIN tiers -> Reach!TierRow]
        /\ \A t \in DOMAIN tiers : /\ tiers'[t].grace = tiers[t].grace
                                   /\ tiers'[t].status = "active" => tiers[t].status = "active"
    BY <1>1, <2>1, ReachRows DEF Reach!TierRow, Reach!TierStatus
  <2>6. /\ tiers' \in Seq(Reach!TierRow) /\ Len(tiers') = Len(tiers)
        /\ DOMAIN tiers' = DOMAIN tiers
    BY <1>1, <2>5, TiersAreWritten
  <2>7. Reach!ActiveTiers' \subseteq Reach!ActiveTiers
    BY <2>5, <2>6 DEF Reach!ActiveTiers
  <2>8. Len(tiers') = Reach!Cardinality(Verified')
    BY <2>4, <2>6, CountIsKept
  <2>9. Reach!NoRevocation \in Reach!Revocation /\ Reach!NoRevocation.on = FALSE
    BY DEF Reach!NoRevocation, Reach!Revocation
  <2>10. Reach!TypeOK'
    BY <1>1, <2>1, <2>3, <2>6, <2>9 DEF Reach!TypeOK
  <2>11. reviewing = Reach!NoReview
    BY <1>1, <2>1 DEF Reach!RowsAgree
  <2> QED
    BY <1>1, <2>1, <2>3, <2>4, <2>5, <2>6, <2>7, <2>8, <2>9, <2>10, <2>11
    DEF Reach!InductiveInvariant, Reach!RowsAgree, Verified
<1>17. ASSUME proofs' = proofs, consent' = consent, submitting' = submitting,
              reviewing' = reviewing, revoking' = revoking, clock' = clock,
              capability' \in {"disabled", "enabled", "outage"},
              outages' \in 0..MaxOutages,
              tiers' \in [DOMAIN tiers -> Reach!TierRow],
              \A t \in DOMAIN tiers :
                /\ tiers'[t].grace <= outages'
                /\ tiers'[t].status = "active" => tiers[t].status = "active"
                /\ revoking.on /\ t \in Reach!LockedTiers => tiers'[t].status = tiers[t].status
       PROVE  Reach!InductiveInvariant'
  <2>1. /\ tiers' \in Seq(Reach!TierRow) /\ Len(tiers') = Len(tiers)
        /\ DOMAIN tiers' = DOMAIN tiers
    BY <1>1, <1>17, TiersAreWritten
  <2>2. /\ Reach!ActiveProofs' = Reach!ActiveProofs /\ Verified' = Verified
        /\ \A p, by : Reach!MayReview(p, by)' = Reach!MayReview(p, by)
    BY <1>17, Zenon DEF Reach!ActiveProofs, Verified, Reach!MayReview
  <2>3. /\ Reach!ActiveTiers' \subseteq Reach!ActiveTiers
        /\ revoking.on => revoking.tiers \subseteq Reach!ActiveTiers'
    BY <1>1, <1>17, <2>1 DEF Reach!ActiveTiers, Reach!RowsAgree, Reach!LockedTiers
  <2>4. Len(tiers') = Reach!Cardinality(Verified')
    BY <2>1, <2>2, CountIsKept
  <2>5. Reach!TypeOK'
    BY <1>1, <1>17, <2>1 DEF Reach!TypeOK
  <2> QED
    BY <1>1, <1>17, <2>1, <2>2, <2>3, <2>4, <2>5
    DEF Reach!InductiveInvariant, Reach!RowsAgree, Reach!LockedTiers, Verified
<1>18. CASE \E now \in Reach!Nows : Reach!StartProviderOutage(now)
  <2>1. PICK now \in Reach!Nows : Reach!StartProviderOutage(now)
    BY <1>18
  <2>2. /\ proofs' = proofs /\ consent' = consent /\ submitting' = submitting
        /\ reviewing' = reviewing /\ revoking' = revoking /\ clock' = clock
        /\ capability' = "outage" /\ outages' = outages + 1 /\ outages < MaxOutages
        /\ outages \in 0..MaxOutages
    BY <1>1, <2>1 DEF Reach!StartProviderOutage, Reach!calls, Reach!TypeOK
  <2>3. tiers' = [t \in DOMAIN tiers |->
                    IF Reach!MayHaveGrace(tiers[t], now)
                    THEN [tiers[t] EXCEPT !.grace = outages + 1] ELSE tiers[t]]
    BY <2>1 DEF Reach!StartProviderOutage
  <2>4. /\ outages + 1 \in 0..MaxOutages
        /\ \A t \in DOMAIN tiers : tiers[t] \in Reach!TierRow /\ tiers[t].grace <= outages + 1
    BY <1>1, <2>2, ReachRows DEF Reach!TierRow
  <2>5. /\ tiers' \in [DOMAIN tiers -> Reach!TierRow]
        /\ \A t \in DOMAIN tiers : /\ tiers'[t].grace <= outages'
                                   /\ tiers'[t].status = tiers[t].status
    BY <2>2, <2>3, <2>4 DEF Reach!TierRow
  <2> QED
    BY <1>17, <2>2, <2>4, <2>5
<1>19. CASE \E now \in Reach!Nows : Reach!ExpireDueQualifications(now)
  <2>1. PICK now \in Reach!Nows : Reach!ExpireDueQualifications(now)
    BY <1>19
  <2> DEFINE due == {t \in DOMAIN tiers : Reach!IsDue(tiers[t], now)}
  <2>2. /\ proofs' = proofs /\ consent' = consent /\ submitting' = submitting
        /\ reviewing' = reviewing /\ revoking' = revoking /\ clock' = clock
        /\ capability' = capability /\ outages' = outages
        /\ due \cap Reach!LockedTiers = {}
        /\ tiers' = [t \in DOMAIN tiers |->
                      IF t \in due THEN [tiers[t] EXCEPT !.status = "expired"] ELSE tiers[t]]
    BY <2>1 DEF Reach!ExpireDueQualifications, Reach!calls
  <2>3. due \subseteq DOMAIN tiers
    OBVIOUS
  <2> HIDE DEF due
  <2>4. /\ tiers' \in [DOMAIN tiers -> Reach!TierRow]
        /\ \A t \in DOMAIN tiers :
             /\ tiers'[t].grace <= outages'
             /\ tiers'[t].status = "active" => tiers[t].status = "active"
             /\ t \in Reach!LockedTiers => tiers'[t].status = tiers[t].status
    BY <1>1, <2>2, <2>3, ReachRows DEF Reach!TierRow, Reach!TierStatus
  <2>5. capability' \in {"disabled", "enabled", "outage"} /\ outages' \in 0..MaxOutages
    BY <1>1, <2>2 DEF Reach!TypeOK
  <2> QED
    BY <1>17, <2>2, <2>4, <2>5
<1>20. Reach!EndReview =>
         \/ Reach!Approve /\ Reach!ActiveTiers \cap Reach!LockedTiers = {}
         \/ /\ reviewing # Reach!NoReview
            /\ proofs' = [proofs EXCEPT ![reviewing.proof] = Reach!Rejection(@)]
            /\ reviewing' = Reach!NoReview
            /\ UNCHANGED tiers
            /\ UNCHANGED <<clock, capability, outages, consent, submitting, revoking>>
  BY DEF Reach!EndReview
<1>21. \A now : Reach!ApproveBeforeRevocation(now) => Reach!Approve
  BY DEF Reach!ApproveBeforeRevocation
<1> QED
  BY <1>4, <1>5, <1>6, <1>7, <1>8, <1>9, <1>10, <1>11, <1>13, <1>14, <1>15, <1>16, <1>18,
     <1>19, <1>20, <1>21 DEF Reach!Next

(* However reviews, appeals, revocations, submissions, outages and deadlocks
   interleave, one proof and one tier at most are active, and tiers are earned
   one by one; for any number of proofs, outages and reviewers, any validity,
   grace and windows. *)
THEOREM ReachInvariance == Reach!Spec => []Reach!InductiveInvariant
<1>1. Reach!InductiveInvariant /\ [Reach!Next]_Reach!vars => Reach!InductiveInvariant'
  <2> SUFFICES ASSUME Reach!InductiveInvariant, [Reach!Next]_Reach!vars
               PROVE  Reach!InductiveInvariant'
    OBVIOUS
  <2>1. CASE Reach!Next
    BY <2>1, ReachStep
  <2>2. CASE UNCHANGED Reach!vars
    BY <2>2, Zenon
    DEF Reach!vars, Reach!rows, Reach!calls, Reach!InductiveInvariant, Reach!RowsAgree,
        Reach!TypeOK, Reach!ActiveProofs, Reach!ActiveTiers, Reach!LockedTiers, Reach!MayReview
  <2> QED
    BY <2>1, <2>2
<1> QED
  BY <1>1, ReachInit, PTL DEF Reach!Spec

(* Tiers only end; and apart from the start of an outage, grace is what it was. *)
GraceIsKept ==
  \/ capability' # "outage"
  \/ /\ capability' = capability /\ outages' = outages
     /\ \A t \in DOMAIN tiers : tiers'[t].grace = tiers[t].grace

TiersOnlyEnd ==
  \A t \in DOMAIN tiers : /\ tiers'[t].expires = tiers[t].expires
                          /\ tiers'[t].status = "active" => tiers[t].status = "active"

LEMMA TiersEnd ==
  ASSUME Reach!InductiveInvariant, Reach!Next
  PROVE  /\ TiersOnlyEnd /\ clock' \in {clock, clock + 1}
         /\ GraceIsKept \/ \E now \in Reach!Nows : Reach!StartProviderOutage(now)
<1>1. Reach!TypeOK /\ \A t \in DOMAIN tiers : tiers[t] \in Reach!TierRow
  BY ReachRows DEF Reach!InductiveInvariant, Reach!RowsAgree
<1>2. CASE tiers' = tiers /\ ~ \E now \in Reach!Nows : Reach!StartProviderOutage(now)
  <2>1. TiersOnlyEnd
    BY <1>2 DEF TiersOnlyEnd
  <2>2. clock' \in {clock, clock + 1}
        /\ (capability' # "outage" \/ (capability' = capability /\ outages' = outages))
    BY <1>2
    DEF Reach!Next, Reach!ActivatePlatform, Reach!SetConsent, Reach!BeginSubmission,
        Reach!EndSubmission, Reach!EndReview, Reach!EndRevocation, Reach!AbortDeadlocked,
        Reach!ResolveProviderOutage, Reach!Tick, Reach!BeginRevocation,
        Reach!ApproveBeforeRevocation, Reach!ExpireDueQualifications,
        Reach!AppealVerification, Reach!DeleteEvidence, Reach!BeginReview, Reach!rows
  <2> QED
    BY <1>2, <2>1, <2>2 DEF GraceIsKept
<1>3. CASE /\ Reach!Approve
           /\ Reach!EndReview \/ \E now \in Reach!Nows : Reach!ApproveBeforeRevocation(now)
  <2>1. \A t \in DOMAIN tiers : /\ tiers'[t].expires = tiers[t].expires
                                /\ tiers'[t].grace = tiers[t].grace
                                /\ tiers'[t].status # "active"
    BY <1>3, ApprovalAgrees
  <2>2. clock' = clock /\ capability' = capability /\ outages' = outages
    BY <1>3 DEF Reach!EndReview, Reach!ApproveBeforeRevocation
  <2> QED
    BY <2>1, <2>2 DEF TiersOnlyEnd, GraceIsKept
<1>4. CASE Reach!EndRevocation
  BY <1>1, <1>4 DEF Reach!EndRevocation, TiersOnlyEnd, GraceIsKept, Reach!TierRow
<1>5. CASE \E now \in Reach!Nows : Reach!ExpireDueQualifications(now)
  BY <1>1, <1>5 DEF Reach!ExpireDueQualifications, TiersOnlyEnd, GraceIsKept, Reach!TierRow
<1>6. CASE \E now \in Reach!Nows : Reach!StartProviderOutage(now)
  BY <1>1, <1>6 DEF Reach!StartProviderOutage, TiersOnlyEnd, Reach!TierRow
<1> QED
  BY <1>2, <1>3, <1>4, <1>5, <1>6
  DEF Reach!Next, Reach!ActivatePlatform, Reach!SetConsent, Reach!BeginSubmission,
      Reach!EndSubmission, Reach!EndReview, Reach!AbortDeadlocked,
      Reach!ResolveProviderOutage, Reach!Tick, Reach!BeginRevocation,
      Reach!ApproveBeforeRevocation, Reach!AppealVerification, Reach!DeleteEvidence,
      Reach!BeginReview, Reach!rows, Reach!calls

LEMMA NoneRevived ==
  ASSUME Reach!InductiveInvariant, [Reach!Next]_Reach!vars, NEW t \in DOMAIN tiers
  PROVE  \/ clock < tiers[t].expires + MaxLockWait
         \/ Reach!IsUsable(tiers[t], clock)
         \/ ~ Reach!IsUsable(tiers[t], clock)'
<1>1. /\ Reach!TypeOK /\ tiers[t] \in Reach!TierRow /\ tiers[t].grace <= outages
      /\ clock \in Nat /\ tiers[t].expires \in Nat /\ outages \in Nat
  BY ReachRows DEF Reach!InductiveInvariant, Reach!RowsAgree, Reach!TypeOK, Reach!TierRow
<1> USE ReachIsAssumed DEF Reach!ReachAssumption
<1> SUFFICES ASSUME clock >= tiers[t].expires + MaxLockWait, ~ Reach!IsUsable(tiers[t], clock),
                    Reach!IsUsable(tiers[t], clock)'
             PROVE  FALSE
  BY <1>1
<1>2. CASE UNCHANGED Reach!vars
  BY <1>2 DEF Reach!vars, Reach!rows, Reach!IsUsable, Reach!InGrace
<1>3. CASE Reach!Next
  <2>1. /\ tiers'[t].expires = tiers[t].expires
        /\ tiers'[t].status = "active" /\ tiers[t].status = "active"
        /\ clock' \in {clock, clock + 1}
        /\ GraceIsKept \/ \E now \in Reach!Nows : Reach!StartProviderOutage(now)
    BY <1>3, TiersEnd DEF TiersOnlyEnd, Reach!IsUsable
  <2>2. /\ capability' = "outage" /\ tiers'[t].grace = outages'
        /\ clock' < tiers'[t].expires + Grace
    BY <1>1, <2>1 DEF Reach!IsUsable, Reach!InGrace
  <2>3. CASE GraceIsKept
    <3>1. capability = "outage" /\ tiers[t].grace = outages /\ clock < tiers[t].expires + Grace
      BY <1>1, <2>1, <2>2, <2>3 DEF GraceIsKept
    <3> QED
      BY <2>1, <3>1 DEF Reach!IsUsable, Reach!InGrace
  <2>4. CASE \E now \in Reach!Nows : Reach!StartProviderOutage(now)
    <3>1. PICK now \in Reach!Nows : Reach!StartProviderOutage(now)
      BY <2>4
    <3>2. now \in Nat /\ now >= clock - MaxLockWait
      BY <1>1, <3>1 DEF Reach!Nows
    <3>3. ~ Reach!MayHaveGrace(tiers[t], now)
      BY <1>1, <3>2 DEF Reach!MayHaveGrace
    <3>4. tiers'[t] = tiers[t] /\ outages' = outages + 1
      BY <3>1, <3>3 DEF Reach!StartProviderOutage
    <3> QED
      BY <1>1, <2>2, <3>4
  <2> QED
    BY <2>1, <2>3, <2>4
<1> QED
  BY <1>2, <1>3

(* A tier past its term that cannot be used never can be again, whatever outages
   begin and end. *)
THEOREM TiersStayEnded == Reach!Spec => Reach!NoTierIsRevived
<1>1. Reach!InductiveInvariant /\ [Reach!Next]_Reach!vars
        => [\A t \in DOMAIN tiers :
              \/ clock < tiers[t].expires + MaxLockWait
              \/ Reach!IsUsable(tiers[t], clock)
              \/ ~ Reach!IsUsable(tiers[t], clock)']_Reach!vars
  BY NoneRevived
<1> QED
  BY <1>1, ReachInvariance, PTL DEF Reach!Spec, Reach!NoTierIsRevived

-----------------------------------------------------------------------------
(* MobileSession: the session of one device.                               *)

(* A session the device may hold: none, or one whose sign-in redeemed its
   own code, with a mode and a workspace among those granted. *)
MayHold(s) ==
  \/ s = Device!EmptySession
  \/ /\ <<s.id, s.id>> \in redeemed
     /\ s.mode \in Device!Modes(s.access)
     /\ s.workspace # "none" => s.workspace \in s.access

HoldsOwn == \A s \in Device!Held : MayHold(s)

LEMMA AgreementIsHolding ==
  Device!CodesAreOwn /\ Device!SelectionIsGranted
    <=> HoldsOwn /\ \A r \in redeemed : r[1] = r[2]
BY DEF Device!CodesAreOwn, Device!SelectionIsGranted, HoldsOwn, MayHold

LEMMA AgreementKeeps ==
  (Device!CodesAreOwn /\ Device!SelectionIsGranted)'
    <=> (HoldsOwn /\ \A r \in redeemed : r[1] = r[2])'
BY DEF Device!CodesAreOwn, Device!SelectionIsGranted, HoldsOwn, MayHold

LEMMA EmptyIsSession == Device!EmptySession \in Device!Session
BY DEF Device!EmptySession, Device!Session

LEMMA DeviceCounts == \A S : Device!Cardinality(S) = Cardinality(S)
BY DEF Device!Cardinality, Cardinality

(* Whatever the server grants, the session made of it selects part of it.  *)
LEMMA SelectionOfGrant ==
  ASSUME NEW id \in {0} \cup Device!SignIns, NEW access \in Accesses,
         NEW mode, NEW workspace
  PROVE  LET s == Device!RuntimeSession(id, access, mode, workspace) IN
           /\ s \in Device!Session /\ s.id = id /\ s.access = access
           /\ s.mode \in Device!Modes(access)
           /\ s.workspace # "none" => s.workspace \in access
<1> DEFINE s == Device!RuntimeSession(id, access, mode, workspace)
<1>1. access # {} /\ access \subseteq Workspaces \cup {"creator", "venue_staff"}
  BY DeviceIsAssumed DEF Device!AccessAssumption
<1>2. Device!FirstMode(access) \in Device!Modes(access)
  BY <1>1 DEF Device!FirstMode, Device!Modes
<1>3. Device!Modes(access) \subseteq {"creator", "business", "venue_staff"}
  BY DEF Device!Modes
<1>4. s.id = id /\ s.access = access /\ s.mode \in Device!Modes(access)
  BY <1>2 DEF Device!RuntimeSession
<1>5. /\ s.workspace \in Workspaces \cup {"none"}
      /\ s.workspace # "none" => s.workspace \in access
  <2>1. CASE workspace \in access \cap Workspaces
    BY <2>1 DEF Device!RuntimeSession
  <2>2. CASE workspace \notin access \cap Workspaces /\ Cardinality(access \cap Workspaces) = 1
    <3>1. access \cap Workspaces # {}
      BY <2>2, FS_EmptySet
    <3>2. \E w \in Workspaces : w \in access
      BY <3>1
    <3> DEFINE only == CHOOSE w \in Workspaces : w \in access
    <3>3. only \in Workspaces /\ only \in access
      BY <3>2
    <3>4. s.workspace = only
      BY <2>2, DeviceCounts DEF Device!RuntimeSession
    <3> QED
      BY <3>3, <3>4
  <2>3. CASE workspace \notin access \cap Workspaces /\ Cardinality(access \cap Workspaces) # 1
    BY <2>3, DeviceCounts DEF Device!RuntimeSession
  <2> QED
    BY <2>1, <2>2, <2>3
<1>6. s = [id |-> s.id, access |-> s.access, mode |-> s.mode, workspace |-> s.workspace]
  BY DEF Device!RuntimeSession
<1>7. s \in Device!Session
  BY <1>3, <1>4, <1>5, <1>6 DEF Device!Session
<1> QED
  BY <1>4, <1>5, <1>7

(* What a step leaves on the device: copies it had, none, or one it may hold;
   and no code is forgotten. *)
Holds(old, new) ==
  /\ redeemed \subseteq redeemed' /\ \A r \in redeemed' : r[1] = r[2]
  /\ \A s \in new : s \in old \/ MayHold(s)'

LEMMA HoldingIsKept ==
  ASSUME HoldsOwn, Holds(Device!Held, Device!Held')
  PROVE  HoldsOwn' /\ \A r \in redeemed' : r[1] = r[2]
BY DEF HoldsOwn, Holds, MayHold, Device!Held, Device!EmptySession

LEMMA DeviceInit == Device!Init => Device!InductiveInvariant
<1> SUFFICES ASSUME Device!Init PROVE Device!InductiveInvariant
  OBVIOUS
<1> USE DEF Device!Init
<1>1. Device!TypeOK
  <2>1. 0 \in 0 .. MaxSignIns
    BY DeviceIsAssumed DEF Device!AccessAssumption
  <2>2. Device!NoSignIn \in [pc : {"idle", "prepare", "browser", "callback", "exchange",
                                  "bootstrap", "save"},
                            mode : {"creator", "business"}, code : {0} \cup Device!SignIns,
                            access : {{}} \cup Accesses]
    BY DEF Device!NoSignIn
  <2>3. Device!NoWrite \in [session : Device!Session, publish : BOOLEAN]
    BY EmptyIsSession DEF Device!NoWrite
  <2>4. Device!State("restoring") \in [phase : Device!Phase, session : Device!Session]
    BY EmptyIsSession DEF Device!State, Device!Phase
  <2> QED
    BY <2>1, <2>2, <2>3, <2>4, EmptyIsSession DEF Device!TypeOK
<1>2. HoldsOwn /\ \A r \in redeemed : r[1] = r[2]
  BY DEF HoldsOwn, MayHold, Device!Held, Device!NoWrite, Device!State
<1>3. Device!CallsProceed
  BY DEF Device!CallsProceed, Device!NoSignIn
<1> QED
  BY <1>1, <1>2, <1>3, AgreementIsHolding
  DEF Device!InductiveInvariant, Device!DeviceAgrees

LEMMA RefreshedMayBeHeld ==
  ASSUME NEW s \in Device!Session, s # Device!EmptySession, MayHold(s), NEW access \in Accesses
  PROVE  LET new == Device!RuntimeSession(s.id, access, s.mode, s.workspace) IN
           new \in Device!Session /\ MayHold(new)
<1> DEFINE new == Device!RuntimeSession(s.id, access, s.mode, s.workspace)
<1>1. s.id \in {0} \cup Device!SignIns /\ <<s.id, s.id>> \in redeemed
  BY DEF Device!Session, MayHold
<1>2. /\ new \in Device!Session /\ new.id = s.id /\ new.access = access
      /\ new.mode \in Device!Modes(access)
      /\ new.workspace # "none" => new.workspace \in access
  BY <1>1, SelectionOfGrant
<1>3. MayHold(new)
  BY <1>1, <1>2 DEF MayHold
<1> QED
  BY <1>2, <1>3

LEMMA DeviceStep ==
  ASSUME Device!InductiveInvariant, Device!Next
  PROVE  Device!InductiveInvariant'
<1>1. /\ Device!TypeOK /\ Device!CallsProceed
      /\ HoldsOwn /\ \A r \in redeemed : r[1] = r[2]
  BY AgreementIsHolding DEF Device!InductiveInvariant, Device!DeviceAgrees
<1>2. SUFFICES Device!TypeOK' /\ Device!CallsProceed' /\ Holds(Device!Held, Device!Held')
  BY <1>1, HoldingIsKept, AgreementIsHolding, AgreementKeeps
  DEF Device!InductiveInvariant, Device!DeviceAgrees
<1> USE <1>1, DeviceIsAssumed DEF Device!AccessAssumption
<1>3. CASE \E mode \in {"creator", "business"} : Device!BeginSignIn(mode)
  <2>1. Device!TypeOK'
    <3>1. PICK mode \in {"creator", "business"} : Device!BeginSignIn(mode)
      BY <1>3
    <3>2. signIn' = [pc |-> "prepare", mode |-> mode, code |-> 0, access |-> {}]
      BY <3>1 DEF Device!BeginSignIn, Device!NoSignIn
    <3>3. begun' \in 0 .. MaxSignIns
      BY <3>1 DEF Device!BeginSignIn, Device!TypeOK
    <3> QED
      BY <3>1, <3>2, <3>3 DEF Device!TypeOK, Device!BeginSignIn
  <2>2. Device!CallsProceed'
    BY <1>3 DEF Device!CallsProceed, Device!TypeOK, Device!BeginSignIn, Device!NoSignIn
  <2>3. Holds(Device!Held, Device!Held')
    BY <1>3 DEF Holds, Device!Held, HoldsOwn, MayHold, Device!BeginSignIn, Device!NoSignIn
  <2> QED
    BY <2>1, <2>2, <2>3
<1>4. CASE Device!SaveTransaction
  <2>1. Device!TypeOK'
    BY <1>4, EmptyIsSession
    DEF Device!TypeOK, Device!Phase, Device!SaveTransaction, Device!Proceed
  <2>2. Device!CallsProceed'
    BY <1>4 DEF Device!CallsProceed, Device!TypeOK, Device!SaveTransaction, Device!Proceed
  <2>3. Holds(Device!Held, Device!Held')
    BY <1>4 DEF Holds, Device!Held, HoldsOwn, MayHold, Device!SaveTransaction, Device!Proceed
  <2> QED
    BY <2>1, <2>2, <2>3
<1>5. CASE Device!BrowserGivesUp
  <2>1. Device!TypeOK'
    BY <1>5, EmptyIsSession
    DEF Device!TypeOK, Device!Phase, Device!BrowserGivesUp, Device!EndSignIn, Device!NoSignIn
  <2>2. Device!CallsProceed'
    BY <1>5
    DEF Device!CallsProceed, Device!TypeOK, Device!BrowserGivesUp, Device!EndSignIn,
        Device!NoSignIn
  <2>3. Holds(Device!Held, Device!Held')
    BY <1>5
    DEF Holds, Device!Held, HoldsOwn, MayHold, Device!BrowserGivesUp, Device!EndSignIn,
        Device!NoSignIn
  <2> QED
    BY <2>1, <2>2, <2>3
<1>6. CASE \E n \in Device!SignIns : Device!BrowserReturns(n)
  <2>1. Device!TypeOK'
    BY <1>6, EmptyIsSession DEF Device!TypeOK, Device!Phase, Device!BrowserReturns
  <2>2. Device!CallsProceed'
    BY <1>6 DEF Device!CallsProceed, Device!TypeOK, Device!BrowserReturns
  <2>3. Holds(Device!Held, Device!Held')
    BY <1>6 DEF Holds, Device!Held, HoldsOwn, MayHold, Device!BrowserReturns
  <2> QED
    BY <2>1, <2>2, <2>3
<1>7. CASE Device!ConsumeCallback
  <2>1. Device!TypeOK'
    BY <1>7, EmptyIsSession
    DEF Device!TypeOK, Device!Phase, Device!ConsumeCallback, Device!Matches, Device!Proceed,
        Device!EndSignIn, Device!NoSignIn
  <2>2. Device!CallsProceed'
    BY <1>7
    DEF Device!CallsProceed, Device!TypeOK, Device!ConsumeCallback, Device!Matches,
        Device!Proceed, Device!EndSignIn, Device!NoSignIn
  <2>3. Holds(Device!Held, Device!Held')
    BY <1>7
    DEF Holds, Device!Held, HoldsOwn, MayHold, Device!ConsumeCallback, Device!Matches,
        Device!Proceed, Device!EndSignIn, Device!NoSignIn
  <2> QED
    BY <2>1, <2>2, <2>3
<1>8. CASE Device!ExchangeCode
  <2>1. Device!TypeOK'
    <3>1. begun \in Device!SignIns /\ signIn.code = begun
      BY <1>8 DEF Device!CallsProceed, Device!TypeOK, Device!ExchangeCode, Device!SignIns
    <3>2. redeemed' \subseteq Device!SignIns \X Device!SignIns
      BY <1>8, <3>1 DEF Device!TypeOK, Device!ExchangeCode
    <3>3. CASE Device!Proceed("bootstrap")
      BY <1>8, <3>2, <3>3 DEF Device!TypeOK, Device!ExchangeCode, Device!Proceed
    <3>4. CASE Device!EndSignIn
      BY <1>8, <3>2, <3>4
      DEF Device!TypeOK, Device!ExchangeCode, Device!EndSignIn, Device!NoSignIn
    <3> QED
      BY <1>8, <3>3, <3>4 DEF Device!ExchangeCode
  <2>2. Device!CallsProceed'
    BY <1>8
    DEF Device!CallsProceed, Device!TypeOK, Device!ExchangeCode, Device!Proceed,
        Device!EndSignIn, Device!NoSignIn
  <2>3. Holds(Device!Held, Device!Held')
    <3>1. signIn.code = begun /\ redeemed' = redeemed \cup {<<begun, signIn.code>>}
      BY <1>8 DEF Device!CallsProceed, Device!ExchangeCode
    <3>2. redeemed \subseteq redeemed' /\ \A r \in redeemed' : r[1] = r[2]
      BY <3>1
    <3> QED
      BY <1>8, <3>2 DEF Holds, Device!Held, Device!ExchangeCode
  <2> QED
    BY <2>1, <2>2, <2>3
<1>9. CASE Device!BootstrapSession
  <2>1. ASSUME NEW access \in Accesses,
               signIn' = [signIn EXCEPT !.pc = "save", !.access = access],
               signIn.pc = "bootstrap", Device!TypeOK
        PROVE  /\ signIn' \in [pc : {"idle", "prepare", "browser", "callback", "exchange",
                                       "bootstrap", "save"},
                                 mode : {"creator", "business"}, code : {0} \cup Device!SignIns,
                                 access : {{}} \cup Accesses]
               /\ signIn'.pc = "save" /\ signIn'.access # {}
    BY <2>1 DEF Device!TypeOK
  <2>2. Device!TypeOK'
    <3>1. CASE Device!EndSignIn
      BY <1>9, <3>1 DEF Device!TypeOK, Device!BootstrapSession, Device!EndSignIn, Device!NoSignIn
    <3>2. CASE ~ Device!EndSignIn
      BY <1>9, <2>1, <3>2 DEF Device!TypeOK, Device!BootstrapSession
    <3> QED
      BY <3>1, <3>2
  <2>3. Device!CallsProceed'
    <3>1. CASE Device!EndSignIn
      BY <1>9, <3>1
      DEF Device!CallsProceed, Device!BootstrapSession, Device!EndSignIn, Device!NoSignIn
    <3>2. CASE ~ Device!EndSignIn
      BY <1>9, <2>1, <3>2 DEF Device!CallsProceed, Device!BootstrapSession
    <3> QED
      BY <3>1, <3>2
  <2>4. Holds(Device!Held, Device!Held')
    BY <1>9
    DEF Holds, Device!Held, HoldsOwn, MayHold, Device!BootstrapSession, Device!EndSignIn,
        Device!NoSignIn
  <2> QED
    BY <2>2, <2>3, <2>4
<1>10. CASE Device!FinishSignIn
  <2> DEFINE s == Device!RuntimeSession(begun, signIn.access, signIn.mode, "none")
  <2>1. /\ s \in Device!Session /\ MayHold(s)
        /\ stored' = s /\ memory' = [phase |-> "authenticated", session |-> s]
        /\ signIn' = Device!NoSignIn
        /\ begun' = begun /\ transaction' = transaction /\ redeemed' = redeemed
        /\ restore' = restore /\ write' = write /\ signOut' = signOut
    <3>1. begun \in Device!SignIns /\ <<begun, begun>> \in redeemed /\ signIn.access \in Accesses
      BY <1>10 DEF Device!FinishSignIn, Device!CallsProceed, Device!TypeOK, Device!SignIns
    <3>2. /\ s \in Device!Session /\ s.id = begun /\ s.access = signIn.access
          /\ s.mode \in Device!Modes(signIn.access)
          /\ s.workspace # "none" => s.workspace \in signIn.access
      BY <3>1, SelectionOfGrant
    <3>3. MayHold(s)
      BY <3>1, <3>2 DEF MayHold
    <3>4. stored' = s /\ memory' = [phase |-> "authenticated", session |-> s]
      BY <1>10 DEF Device!FinishSignIn, Device!SignedIn
    <3> QED
      BY <1>10, <3>2, <3>3, <3>4 DEF Device!FinishSignIn, Device!EndSignIn
  <2> HIDE DEF s
  <2>2. Device!TypeOK'
    BY <2>1 DEF Device!TypeOK, Device!Phase, Device!NoSignIn
  <2>3. Device!CallsProceed'
    BY <1>10
    DEF Device!CallsProceed, Device!TypeOK, Device!FinishSignIn, Device!EndSignIn,
        Device!NoSignIn, Device!SignedIn
  <2>4. Holds(Device!Held, Device!Held')
    BY <2>1 DEF Holds, Device!Held, MayHold
  <2> QED
    BY <2>2, <2>3, <2>4
<1>11. CASE Device!RestoreLoad
  <2>1. Device!TypeOK'
    BY <1>11, EmptyIsSession
    DEF Device!TypeOK, Device!Phase, Device!RestoreLoad, Device!RestoreEnds, Device!State
  <2>2. Device!CallsProceed'
    BY <1>11
    DEF Device!CallsProceed, Device!TypeOK, Device!RestoreLoad, Device!RestoreEnds,
        Device!State
  <2>3. Holds(Device!Held, Device!Held')
    BY <1>11
    DEF Holds, Device!Held, HoldsOwn, MayHold, Device!RestoreLoad, Device!RestoreEnds,
        Device!State
  <2> QED
    BY <2>1, <2>2, <2>3
<1>12. CASE Device!RestoreRefresh
  <2> DEFINE s == restore.session
  <2>1. /\ \/ /\ restore'.pc = "save"
              /\ restore'.session \in Device!Session /\ MayHold(restore'.session)
              /\ restore' = [pc |-> "save", session |-> restore'.session]
           \/ restore' = [restore EXCEPT !.pc = "drop"]
        /\ begun' = begun /\ transaction' = transaction /\ redeemed' = redeemed
        /\ signIn' = signIn /\ write' = write /\ signOut' = signOut
        /\ stored' = stored /\ memory' = memory
    <3>1. CASE restore' = [restore EXCEPT !.pc = "drop"]
      BY <1>12, <3>1 DEF Device!RestoreRefresh
    <3>2. CASE restore' # [restore EXCEPT !.pc = "drop"]
      <4>1. PICK access \in Accesses :
              restore' = [pc |-> "save",
                          session |-> Device!RuntimeSession(s.id, access, s.mode, s.workspace)]
        BY <1>12, <3>2 DEF Device!RestoreRefresh
      <4> DEFINE new == Device!RuntimeSession(s.id, access, s.mode, s.workspace)
      <4>2. s \in Device!Session /\ s # Device!EmptySession /\ MayHold(s)
        BY <1>12
        DEF Device!RestoreRefresh, Device!CallsProceed, Device!TypeOK, HoldsOwn, Device!Held
      <4>3. new \in Device!Session /\ MayHold(new)
        BY <4>1, <4>2, RefreshedMayBeHeld
      <4>4. restore' = [pc |-> "save", session |-> new]
        BY <4>1
      <4> HIDE DEF new
      <4> QED
        BY <1>12, <4>3, <4>4 DEF Device!RestoreRefresh
    <3> QED
      BY <3>1, <3>2
  <2> HIDE DEF s
  <2>2. Device!TypeOK'
    <3>1. restore' \in [pc : {"load", "refresh", "save", "drop", "done"},
                        session : Device!Session]
      BY <2>1 DEF Device!TypeOK
    <3> QED
      BY <2>1, <3>1 DEF Device!TypeOK
  <2>3. Device!CallsProceed'
    BY <2>1 DEF Device!CallsProceed, Device!TypeOK
  <2>4. Holds(Device!Held, Device!Held')
    <3>1. restore'.session = restore.session \/ MayHold(restore'.session)
      BY <2>1 DEF Device!TypeOK
    <3> QED
      BY <2>1, <3>1 DEF Holds, Device!Held, MayHold
  <2> QED
    BY <2>2, <2>3, <2>4
<1>13. CASE Device!RestoreSave
  <2>1. Device!TypeOK'
    BY <1>13, EmptyIsSession
    DEF Device!TypeOK, Device!Phase, Device!RestoreSave, Device!RestoreEnds, Device!SignedIn
  <2>2. Device!CallsProceed'
    BY <1>13
    DEF Device!CallsProceed, Device!TypeOK, Device!RestoreSave, Device!RestoreEnds,
        Device!SignedIn
  <2>3. Holds(Device!Held, Device!Held')
    BY <1>13
    DEF Holds, Device!Held, HoldsOwn, MayHold, Device!RestoreSave, Device!RestoreEnds,
        Device!SignedIn
  <2> QED
    BY <2>1, <2>2, <2>3
<1>14. CASE Device!RestoreDrop
  <2>1. Device!TypeOK'
    BY <1>14, EmptyIsSession
    DEF Device!TypeOK, Device!Phase, Device!RestoreDrop, Device!RestoreEnds, Device!State
  <2>2. Device!CallsProceed'
    BY <1>14
    DEF Device!CallsProceed, Device!TypeOK, Device!RestoreDrop, Device!RestoreEnds,
        Device!State
  <2>3. Holds(Device!Held, Device!Held')
    BY <1>14
    DEF Holds, Device!Held, HoldsOwn, MayHold, Device!RestoreDrop, Device!RestoreEnds,
        Device!State
  <2> QED
    BY <2>1, <2>2, <2>3
<1>15. CASE \E mode \in {"creator", "business", "venue_staff"} : Device!SelectMode(mode)
  <2>1. PICK mode \in {"creator", "business", "venue_staff"} : Device!SelectMode(mode)
    BY <1>15
  <2> DEFINE s == [memory.session EXCEPT !.mode = mode]
  <2>2. s \in Device!Session /\ MayHold(s)
    <3>1. memory.session \in Device!Session /\ MayHold(memory.session)
      BY DEF Device!TypeOK, HoldsOwn, Device!Held
    <3>2. memory.session # Device!EmptySession
      BY <2>1 DEF Device!SelectMode, Device!EmptySession, Device!Modes
    <3> QED
      BY <2>1, <3>1, <3>2 DEF Device!SelectMode, MayHold, Device!Session, Device!Modes
  <2>3. /\ memory' = [phase |-> "authenticated", session |-> s]
        /\ write' = [session |-> s, publish |-> FALSE]
        /\ begun' = begun /\ transaction' = transaction /\ redeemed' = redeemed
        /\ signIn' = signIn /\ restore' = restore /\ signOut' = signOut
        /\ stored' = stored
    BY <2>1 DEF Device!SelectMode, Device!SignedIn
  <2> HIDE DEF s
  <2>4. Device!TypeOK'
    BY <2>2, <2>3 DEF Device!TypeOK, Device!Phase
  <2>5. Device!CallsProceed'
    BY <2>3 DEF Device!CallsProceed
  <2>6. Holds(Device!Held, Device!Held')
    BY <2>2, <2>3 DEF Holds, Device!Held, MayHold
  <2> QED
    BY <2>4, <2>5, <2>6
<1>16. CASE \E w \in Workspaces : Device!ChooseWorkspace(w)
  <2>1. PICK w \in Workspaces : Device!ChooseWorkspace(w)
    BY <1>16
  <2> DEFINE s == [memory.session EXCEPT !.mode = "business", !.workspace = w]
  <2>2. s \in Device!Session /\ MayHold(s)
    <3>1. memory.session \in Device!Session /\ MayHold(memory.session)
      BY DEF Device!TypeOK, HoldsOwn, Device!Held
    <3>2. memory.session # Device!EmptySession
      BY <2>1 DEF Device!ChooseWorkspace, Device!EmptySession, Device!Modes
    <3> QED
      BY <2>1, <3>1, <3>2 DEF Device!ChooseWorkspace, MayHold, Device!Session, Device!Modes
  <2>3. /\ memory' = memory
        /\ write' = [session |-> s, publish |-> TRUE]
        /\ begun' = begun /\ transaction' = transaction /\ redeemed' = redeemed
        /\ signIn' = signIn /\ restore' = restore /\ signOut' = signOut
        /\ stored' = stored
    BY <2>1 DEF Device!ChooseWorkspace, Device!SignedIn
  <2> HIDE DEF s
  <2>4. Device!TypeOK'
    BY <2>2, <2>3 DEF Device!TypeOK, Device!Phase
  <2>5. Device!CallsProceed'
    BY <2>3 DEF Device!CallsProceed
  <2>6. Holds(Device!Held, Device!Held')
    BY <2>2, <2>3 DEF Holds, Device!Held, MayHold
  <2> QED
    BY <2>4, <2>5, <2>6
<1>17. CASE Device!WriteLands
  <2>1. Device!TypeOK'
    BY <1>17, EmptyIsSession
    DEF Device!TypeOK, Device!Phase, Device!WriteLands, Device!NoWrite, Device!SignedIn
  <2>2. Device!CallsProceed'
    BY <1>17
    DEF Device!CallsProceed, Device!TypeOK, Device!WriteLands, Device!NoWrite, Device!SignedIn
  <2>3. Holds(Device!Held, Device!Held')
    BY <1>17
    DEF Holds, Device!Held, HoldsOwn, MayHold, Device!WriteLands, Device!NoWrite,
        Device!SignedIn
  <2> QED
    BY <2>1, <2>2, <2>3
<1>18. CASE Device!BeginSignOut
  <2>1. Device!TypeOK'
    <3>1. memory' \in [phase : Device!Phase, session : Device!Session] /\ signOut' \in BOOLEAN
      <4>1. Device!State("logout") \in [phase : Device!Phase, session : Device!Session]
        BY EmptyIsSession DEF Device!State, Device!Phase
      <4>2. /\ memory' = Device!State("logout") \/ memory' = memory
            /\ signOut' \in BOOLEAN
        BY <1>18 DEF Device!BeginSignOut, Device!TypeOK
      <4> QED
        BY <4>1, <4>2 DEF Device!TypeOK
    <3> QED
      BY <1>18, <3>1 DEF Device!TypeOK, Device!BeginSignOut
  <2>2. Device!CallsProceed'
    BY <1>18 DEF Device!CallsProceed, Device!TypeOK, Device!BeginSignOut, Device!State
  <2>3. Holds(Device!Held, Device!Held')
    BY <1>18 DEF Holds, Device!Held, HoldsOwn, MayHold, Device!BeginSignOut, Device!State
  <2> QED
    BY <2>1, <2>2, <2>3
<1>19. CASE Device!ClearSensitiveLocalState
  <2>1. Device!TypeOK'
    BY <1>19, EmptyIsSession
    DEF Device!TypeOK, Device!Phase, Device!ClearSensitiveLocalState, Device!State
  <2>2. Device!CallsProceed'
    BY <1>19 DEF Device!CallsProceed, Device!TypeOK, Device!ClearSensitiveLocalState, Device!State
  <2>3. Holds(Device!Held, Device!Held')
    BY <1>19
    DEF Holds, Device!Held, HoldsOwn, MayHold, Device!ClearSensitiveLocalState, Device!State
  <2> QED
    BY <2>1, <2>2, <2>3
<1>20. CASE Device!RestartApp
  <2>1. Device!TypeOK'
    BY <1>20, EmptyIsSession
    DEF Device!TypeOK, Device!Phase, Device!RestartApp, Device!NoSignIn, Device!NoWrite,
        Device!State
  <2>2. Device!CallsProceed'
    BY <1>20
    DEF Device!CallsProceed, Device!TypeOK, Device!RestartApp, Device!NoSignIn, Device!NoWrite,
        Device!State
  <2>3. Holds(Device!Held, Device!Held')
    BY <1>20
    DEF Holds, Device!Held, HoldsOwn, MayHold, Device!RestartApp, Device!NoSignIn,
        Device!NoWrite, Device!State
  <2> QED
    BY <2>1, <2>2, <2>3
<1> QED
  BY <1>3, <1>4, <1>5, <1>6, <1>7, <1>8, <1>9, <1>10, <1>11, <1>12, <1>13, <1>14, <1>15, <1>16, <1>17, <1>18, <1>19, <1>20
  DEF Device!Next

LEMMA DeviceWaits ==
  ASSUME Device!InductiveInvariant, UNCHANGED device
  PROVE  Device!InductiveInvariant'
BY Zenon
DEF device, Device!InductiveInvariant, Device!DeviceAgrees, Device!TypeOK,
    Device!CodesAreOwn, Device!SelectionIsGranted, Device!Held, Device!CallsProceed

(* Every step of one device keeps the invariant: for any number of sign-ins,
   workspaces and any grants of the server. *)
THEOREM DeviceInvariance == Device!Spec => []Device!InductiveInvariant
<1>1. UNCHANGED Device!vars => UNCHANGED device
  BY DEF Device!vars, device
<1>2. Device!InductiveInvariant /\ [Device!Next]_Device!vars => Device!InductiveInvariant'
  BY <1>1, DeviceStep, DeviceWaits
<1> QED
  BY <1>2, DeviceInit, PTL DEF Device!Spec

-----------------------------------------------------------------------------
(* MCCreatorRecords: one of the four moves, the clock at most by a tick.   *)

LEMMA LocalityWaits ==
  ASSUME Locality!InductiveInvariant, UNCHANGED localityRows, clock' \in {clock, clock + 1}
  PROVE  Locality!InductiveInvariant'
<1>1. Locality!TypeOK /\ Locality!BadgeIsCredential /\ Locality!CallsAgree
  BY DEF Locality!InductiveInvariant, Locality!BadgeIsCredential
<1>2. /\ verifications' = verifications /\ profile' = profile
      /\ submission' = submission /\ review' = review
      /\ change' = change /\ expiry' = expiry
  BY DEF localityRows
<1>3. /\ Locality!OpenProofs' = Locality!OpenProofs
      /\ Locality!Credentials' = Locality!Credentials
  BY <1>2, Zenon DEF Locality!OpenProofs, Locality!Credentials, Locality!Proofs
<1>4. /\ clock \in Nat
      /\ \A p \in Locality!Credentials : verifications[p].expires \in Nat
  BY <1>1, ProofRows DEF Locality!TypeOK, Locality!Credentials, Locality!Verification
<1>5. Locality!TypeOK'
  BY <1>1, <1>2, <1>4 DEF Locality!TypeOK
<1>6. Locality!CallsAgree'
  BY <1>1, <1>2, <1>4, CallTypes DEF Locality!CallsAgree
<1> QED
  BY <1>1, <1>2, <1>3, <1>4, <1>5, <1>6
  DEF Locality!InductiveInvariant, Locality!BadgeIsCredential

LEMMA ReachWaits ==
  ASSUME Reach!InductiveInvariant, UNCHANGED reachRows, clock' \in {clock, clock + 1}
  PROVE  Reach!InductiveInvariant'
<1>1. Reach!TypeOK /\ Reach!RowsAgree
  BY DEF Reach!InductiveInvariant, Reach!RowsAgree
<1>2. /\ capability' = capability /\ outages' = outages /\ consent' = consent
      /\ proofs' = proofs /\ tiers' = tiers
      /\ submitting' = submitting /\ reviewing' = reviewing /\ revoking' = revoking
  BY DEF reachRows
<1>3. Reach!TypeOK'
  BY <1>1, <1>2 DEF Reach!TypeOK
<1> QED
  BY <1>1, <1>2, <1>3, Zenon
  DEF Reach!InductiveInvariant, Reach!RowsAgree, Reach!ActiveProofs, Reach!ActiveTiers,
      Reach!LockedTiers, Reach!MayReview

LEMMA RightsClock == Next => clock' \in {clock, clock + 1}
BY DEF Next, MissionMoves, PublishLegalDocumentVersion, ConfigureRightsOffer,
    AcceptMissionContract, Tick, ActivateInitialLicenses, ExpireDueLicenses, RequestRenewal,
    RecordAuthoritativeRenewalFunding, DecideRenewal, BeginRenewalFunding, CloseRenewalFunding

LEMMA LocalityClock == Locality!Next => clock' \in {clock, clock + 1}
BY DEF Locality!Next, Locality!EndSubmission, Locality!EndReview, Locality!EndAddressChange,
    Locality!EndExpiry, Locality!Abort, Locality!Tick, Locality!ResubmitCorrection,
    Locality!BeginSubmission, Locality!Appeal, Locality!BeginAddressChange,
    Locality!BeginExpiry, Locality!BeginReview

(* What a step of the run is to each of the three. *)
LEMMA RecordSteps ==
  ASSUME Reach!InductiveInvariant, [MCNext]_records
  PROVE  /\ clock' \in {clock, clock + 1}
         /\ Locality!Next \/ UNCHANGED localityRows
         /\ Reach!Next \/ UNCHANGED reachRows
         /\ Device!Next \/ UNCHANGED device
<1>1. CASE UNCHANGED records
  BY <1>1 DEF records
<1>2. CASE store = "rights" /\ Next /\ UNCHANGED <<localityRows, reachRows, device>>
  BY <1>2, RightsClock
<1>3. CASE store = "locality" /\ Locality!Next /\ UNCHANGED <<reachRows, device>>
  BY <1>3, LocalityClock
<1>4. CASE store = "reach" /\ Reach!Next /\ UNCHANGED <<localityRows, device>>
  BY <1>4, TiersEnd
<1>5. CASE /\ store = "device" /\ Device!Next
           /\ UNCHANGED <<clock, localityRows, reachRows>>
  BY <1>5
<1>6. CASE store = "pass" /\ UNCHANGED <<clock, localityRows, reachRows, device>>
  BY <1>6
<1> QED
  BY <1>1, <1>2, <1>3, <1>4, <1>5, <1>6 DEF MCNext

(* In the run the pass is a behaviour of LocalPass.                        *)
LEMMA PassIsAPart == MCSpec => Pass!Spec
<1>1. MCInit => Pass!Init
  BY DEF MCInit
<1>2. [MCNext]_records => [Pass!Next]_(Pass!vars)
  BY DEF MCNext, records, passRows, Pass!vars, Pass!stock, Pass!pass, Pass!codes, Pass!time
<1> QED
  BY <1>1, <1>2, PTL DEF MCSpec, Pass!Spec

(* Stock, claims and tokens of the pass agree: only an active claim has a  *)
(* live token, its newest (LocalPassProofs, for the run).                  *)
THEOREM TokensAgreeAlways == MCSpec => []TokensAgree
<1>1. Pass!Spec => []Pass!TokensAgree
  BY PassIsAssumed, Pass!TokensMatch
<1> QED
  BY <1>1, PassIsAPart, PTL DEF TokensAgree

(* Calls of the pass that wait for each other share a customer or a link.  *)
THEOREM CirclesShareALinkAlways == MCSpec => []CirclesShareALink
<1>1. Pass!Spec => []Pass!CirclesShareALink
  BY PassIsAssumed, Pass!CirclesStayInALink
<1> QED
  BY <1>1, PassIsAPart, PTL DEF CirclesShareALink

(* A claim is bound to one creator, honoured once or expires.              *)
THEOREM PassIsPromised == MCSpec => ImplementsPassPromise
<1>1. Pass!Spec => Pass!ImplementsPassPromise
  BY PassIsAssumed, Pass!PassImplements
<1> QED
  BY <1>1, PassIsAPart, PTL DEF ImplementsPassPromise

RecordsInvariant ==
  Locality!InductiveInvariant /\ Reach!InductiveInvariant /\ Device!InductiveInvariant

(* Whichever store moves, the rows of badge, tier and device agree.        *)
THEOREM RecordsInvariance == MCSpec => []RecordsInvariant
<1>1. MCInit => RecordsInvariant
  BY LocalityInit, ReachInit, DeviceInit DEF MCInit, RecordsInvariant
<1>2. RecordsInvariant /\ [MCNext]_records => RecordsInvariant'
  <2> SUFFICES ASSUME RecordsInvariant, [MCNext]_records PROVE RecordsInvariant'
    OBVIOUS
  <2>1. /\ Locality!InductiveInvariant /\ Reach!InductiveInvariant
        /\ Device!InductiveInvariant
    BY DEF RecordsInvariant
  <2>2. /\ clock' \in {clock, clock + 1}
        /\ Locality!Next \/ UNCHANGED localityRows
        /\ Reach!Next \/ UNCHANGED reachRows
        /\ Device!Next \/ UNCHANGED device
    BY <2>1, RecordSteps
  <2>3. Locality!InductiveInvariant'
    BY <2>1, <2>2, LocalityStep, LocalityWaits
  <2>4. Reach!InductiveInvariant'
    BY <2>1, <2>2, ReachStep, ReachWaits
  <2>5. Device!InductiveInvariant'
    <3>1. CASE Device!Next
      BY <2>1, <3>1, DeviceStep
    <3>2. CASE UNCHANGED device
      BY <2>1, <3>2, DeviceWaits
    <3> QED
      BY <2>2, <3>1, <3>2
  <2> QED
    BY <2>3, <2>4, <2>5 DEF RecordsInvariant
<1> QED
  BY <1>1, <1>2, PTL DEF MCSpec

(* The badge is the credential, and proofs, tiers and calls agree.         *)
THEOREM CredentialsAgreeAlways == MCSpec => []CredentialsAgree
<1>1. RecordsInvariant => CredentialsAgree
  BY DEF RecordsInvariant, CredentialsAgree, Locality!InductiveInvariant,
      Reach!InductiveInvariant
<1> QED
  BY <1>1, RecordsInvariance, PTL

(* What a device holds is of its own sign-ins, and granted.                *)
THEOREM DeviceAgreesAlways == MCSpec => []DeviceAgrees
<1>1. RecordsInvariant => DeviceAgrees
  BY DEF RecordsInvariant, DeviceAgrees, Device!InductiveInvariant
<1> QED
  BY <1>1, RecordsInvariance, PTL

(* No tier past its term that cannot be used is revived, whichever store moves. *)
THEOREM NoTierIsRevivedEver == MCSpec => NoTierIsRevived
<1>1. RecordsInvariant /\ [MCNext]_records
        => [\A t \in DOMAIN tiers :
              \/ clock < tiers[t].expires + MaxLockWait
              \/ Reach!IsUsable(tiers[t], clock)
              \/ ~ Reach!IsUsable(tiers[t], clock)']_Reach!vars
  <2> SUFFICES ASSUME RecordsInvariant, [MCNext]_records, NEW t \in DOMAIN tiers
               PROVE  \/ clock < tiers[t].expires + MaxLockWait
                      \/ Reach!IsUsable(tiers[t], clock)
                      \/ ~ Reach!IsUsable(tiers[t], clock)'
    OBVIOUS
  <2>1. Reach!InductiveInvariant
    BY DEF RecordsInvariant
  <2>2. clock' \in {clock, clock + 1} /\ (Reach!Next \/ UNCHANGED reachRows)
    BY <2>1, RecordSteps
  <2>3. CASE Reach!Next
    BY <2>1, <2>3, NoneRevived
  <2>4. CASE UNCHANGED reachRows
    <3>1. tiers' = tiers /\ capability' = capability /\ outages' = outages
      BY <2>4 DEF reachRows
    <3>2. clock \in Nat /\ tiers[t] \in Reach!TierRow
      BY <2>1, ReachRows DEF Reach!InductiveInvariant, Reach!RowsAgree, Reach!TypeOK
    <3> QED
      BY <2>2, <3>1, <3>2, ReachIsAssumed
      DEF Reach!IsUsable, Reach!InGrace, Reach!TierRow, Reach!ReachAssumption
  <2> QED
    BY <2>2, <2>3, <2>4
<1> QED
  BY <1>1, RecordsInvariance, PTL DEF MCSpec, NoTierIsRevived, Reach!NoTierIsRevived

-----------------------------------------------------------------------------
(* The rights in the run, where another store may move the clock.          *)
LEMMA RightsMoveOrRest ==
  ASSUME InductiveInvariant, RecordsInvariant, [MCNext]_records
  PROVE  Next \/ (UNCHANGED rightsRows /\ clock' \in Nat)
<1>1. clock \in Nat /\ clock' \in {clock, clock + 1}
  BY RecordSteps DEF RecordsInvariant, InductiveInvariant, TypeOK
<1>2. clock' \in Nat
  BY <1>1
<1> QED
  BY <1>2 DEF MCNext, records, rightsRows

LEMMA RightsInvariance == MCSpec => []InductiveInvariant
<1>1. MCInit => InductiveInvariant
  BY InitInvariant DEF MCInit
<1>2. InductiveInvariant /\ RecordsInvariant /\ [MCNext]_records => InductiveInvariant'
  BY RightsMoveOrRest, NextInvariant, RightsWait
<1> QED
  BY <1>1, <1>2, RecordsInvariance, PTL DEF MCSpec

(* Whichever store moves, paid renewals have left one of everything, paid
   terms are ahead, and rights follow their promise. *)
THEOREM RightsHoldOfRecords ==
  MCSpec => []RenewalsAgree /\ PaidTermsAreAhead /\ ImplementsRightsPromise
<1>1. InductiveInvariant => RenewalsAgree
  BY DEF InductiveInvariant
<1>2. InductiveInvariant /\ RecordsInvariant /\ [MCNext]_records
        => [\A k \in Kinds : TermIsAhead(k)]_vars
  BY RightsMoveOrRest, TermsAreAhead, NoTermIsAdded
<1>3. [][\A k \in Kinds : TermIsAhead(k)]_vars => PaidTermsAreAhead
  BY DEF PaidTermsAreAhead, TermIsAhead
<1>4. InductiveInvariant /\ RecordsInvariant /\ [MCNext]_records
        => [Promise!Next]_(Promise!promise)
  BY RightsMoveOrRest, StepsArePromised, StutterIsNoPromise
<1>5. MCInit => Promise!Init
  BY PromiseBegins DEF MCInit
<1> QED
  BY <1>1, <1>2, <1>3, <1>4, <1>5, RightsInvariance, RecordsInvariance, PTL
  DEF MCSpec, ImplementsRightsPromise, Promise!Spec
=============================================================================
