-------------------------- MODULE ReachQualification --------------------------
(***************************************************************************)
(* One creator's Reach tier on one platform                                *)
(* (packages/db/src/reach-qualification-store.ts with its tables): the     *)
(* platform's capability and outages, the creator's consent, proofs with   *)
(* their review and deletion, the tiers they earn, grace and expiry.       *)
(*                                                                         *)
(* A review holds its proof, and a revocation its consent and then the     *)
(* tiers it found, while each goes on to rows the other may hold; both,    *)
(* and a submission, decide on a consent they read before.  These three    *)
(* are two steps each; the other methods are one.  now() is the start of   *)
(* a transaction, up to MaxLockWait before it takes effect.                *)
(***************************************************************************)
EXTENDS Integers, Sequences, FiniteSets

CONSTANTS
  Reviewers,
  Nobody,
  Validity,     \* of a tier: 90 days
  Grace,        \* in an outage: 14 days
  AppealWindow, \* 14 days
  Retention,    \* of a decided proof's evidence: 30 days
  MaxProofs,    \* bound: proofs submitted
  MaxOutages,   \* bound: outages
  MaxTime,      \* bound: the clock
  MaxLockWait   \* bound: ticks between BEGIN and the lock

\* What the constants must be.
ReachAssumption ==
  /\ Nobody \notin Reviewers
  /\ Validity \in Nat \ {0} /\ Grace \in Nat /\ AppealWindow \in Nat /\ Retention \in Nat
  /\ MaxProofs \in Nat /\ MaxOutages \in Nat /\ MaxTime \in Nat /\ MaxLockWait \in Nat

VARIABLES
  clock,
  capability,  \* reach_platform_capabilities.status
  outages,     \* reach_provider_outages so far; the last is active in an outage
  consent,     \* reach_analytics_consents.status
  proofs,      \* reach_verifications, in order of submission
  tiers,       \* reach_qualifications, in order of creation
  submitting,  \* has a submission passed its gate?
  reviewing,   \* the review in flight
  revoking     \* the revocation in flight

rows == <<capability, outages, consent, proofs, tiers>>
calls == <<submitting, reviewing, revoking>>
vars == <<clock, rows, calls>>

ProofStatus == {"pending_review", "verified", "rejected", "appeal_pending", "final_rejected"}
TierStatus == {"active", "superseded", "revoked", "expired"}
\* reviewer and rejectedAt matter until an appeal ends.
ProofRow == [status: ProofStatus, reviewer: Reviewers \cup {Nobody},
             rejectedAt: Nat, deleted: BOOLEAN]
With(status) == [status |-> status, reviewer |-> Nobody, rejectedAt |-> 0, deleted |-> FALSE]
TierRow == [status: TierStatus, expires: Nat, grace: 0..MaxOutages]
Review == [proof: 1..MaxProofs, by: Reviewers, now: Nat]
NoReview == [proof |-> 0, by |-> Nobody, now |-> 0]
Revocation == [on: BOOLEAN, tiers: SUBSET (1..MaxProofs), now: Nat]
NoRevocation == [on |-> FALSE, tiers |-> {}, now |-> 0]

Init ==
  /\ clock = 0
  /\ capability = "disabled" /\ outages = 0
  /\ consent = "none"
  /\ proofs = <<>> /\ tiers = <<>>
  /\ submitting = FALSE /\ reviewing = NoReview /\ revoking = NoRevocation

Nows == {b \in 0..clock : b >= clock - MaxLockWait}

IsActiveProof(proof) == proof.status \in {"pending_review", "appeal_pending"}
ActiveProofs == {p \in DOMAIN proofs : IsActiveProof(proofs[p])}
ActiveTiers == {t \in DOMAIN tiers : tiers[t].status = "active"}
LockedTiers == revoking.tiers

-----------------------------------------------------------------------------
ActivatePlatform ==
  /\ capability = "disabled" /\ capability' = "enabled"
  /\ UNCHANGED <<clock, outages, consent, proofs, tiers, calls>>

SetConsent ==
  /\ consent # "active" /\ ~ revoking.on
  /\ consent' = "active"
  /\ UNCHANGED <<clock, capability, outages, proofs, tiers, calls>>

(* The gate is read without a lock... *)
BeginSubmission ==
  /\ capability = "enabled" /\ consent = "active"
  /\ ~ submitting /\ Len(proofs) < MaxProofs
  /\ submitting' = TRUE
  /\ UNCHANGED <<clock, rows, reviewing, revoking>>

(* ...and the row goes in if no proof is active; its foreign key waits for a
   revocation that holds the consent. *)
EndSubmission ==
  /\ submitting /\ ~ revoking.on
  /\ IF ActiveProofs = {}
     THEN proofs' = Append(proofs, With("pending_review"))
     ELSE reviewing = NoReview /\ UNCHANGED proofs
  /\ submitting' = FALSE
  /\ UNCHANGED <<clock, capability, outages, consent, tiers, reviewing, revoking>>

-----------------------------------------------------------------------------
(* reviewVerification and decideAppeal: lock the proof, read the consent.  The
   decision of an appeal writes the corrected count, which
   reach_verifications_deleted_shape_ck refuses once the evidence is gone. *)
MayReview(p, by) ==
  \/ proofs[p].status = "pending_review"
  \/ proofs[p].status = "appeal_pending" /\ proofs[p].reviewer # by /\ ~ proofs[p].deleted

BeginReview(p, by, now) ==
  /\ reviewing = NoReview
  /\ MayReview(p, by) /\ consent = "active"
  /\ reviewing' = [proof |-> p, by |-> by, now |-> now]
  /\ UNCHANGED <<clock, rows, submitting, revoking>>

Rejection(proof) ==
  IF proof.status = "pending_review"
  THEN [With("rejected") EXCEPT !.reviewer = reviewing.by, !.rejectedAt = reviewing.now]
  ELSE With("final_rejected")

LeftActive(tier) == tier
Superseded(tier) == IF tier.status = "active" THEN [tier EXCEPT !.status = "superseded"] ELSE tier

CreateQualification(expires) ==
  tiers' = Append([t \in DOMAIN tiers |-> Superseded(tiers[t])],
                  [status |-> "active", expires |-> expires, grace |-> 0])

Approve ==
  /\ reviewing # NoReview
  /\ proofs' = [proofs EXCEPT ![reviewing.proof] = With("verified")]
  /\ CreateQualification(reviewing.now + Validity)
  /\ reviewing' = NoReview

EndReview ==
  /\ \/ Approve /\ ActiveTiers \cap LockedTiers = {}
     \/ /\ reviewing # NoReview
        /\ proofs' = [proofs EXCEPT ![reviewing.proof] = Rejection(@)]
        /\ reviewing' = NoReview
        /\ UNCHANGED tiers
  /\ UNCHANGED <<clock, capability, outages, consent, submitting, revoking>>

(* A revocation that waits for the tier an approval replaces finds it replaced,
   and its statement does not see the new one. *)
ApproveBeforeRevocation(now) ==
  /\ Approve
  /\ consent = "active" /\ ~ revoking.on
  /\ revoking' = [on |-> TRUE, tiers |-> {}, now |-> now]
  /\ UNCHANGED <<clock, capability, outages, consent, submitting>>

MayAppeal(p, now) ==
  /\ proofs[p].status = "rejected" /\ now <= proofs[p].rejectedAt + AppealWindow
  /\ ActiveProofs = {}

AppealVerification(p, now) ==
  /\ MayAppeal(p, now)
  /\ proofs' = [proofs EXCEPT ![p].status = "appeal_pending"]
  /\ UNCHANGED <<clock, capability, outages, consent, tiers, calls>>

(* completeEvidenceDeletion, by the job the rejection scheduled, which no appeal
   puts off; it waits for a review that holds the proof.  (The evidence of a
   proof that no appeal can reach is left to LeasedJobs.) *)
DeleteEvidence(p, now) ==
  /\ proofs[p].status \in {"rejected", "appeal_pending"} /\ ~ proofs[p].deleted
  /\ proofs[p].rejectedAt + Retention <= now
  /\ reviewing.proof # p
  /\ proofs' = [proofs EXCEPT ![p].deleted = TRUE]
  /\ UNCHANGED <<clock, capability, outages, consent, tiers, calls>>

-----------------------------------------------------------------------------
(* revokeConsent: lock the consent and end the active tiers it sees... *)
BeginRevocation(now) ==
  /\ consent = "active" /\ ~ revoking.on
  /\ revoking' = [on |-> TRUE, tiers |-> ActiveTiers, now |-> now]
  /\ UNCHANGED <<clock, rows, submitting, reviewing>>

RevokedProof(proof) == IF IsActiveProof(proof) THEN With("final_rejected") ELSE proof

(* ...then, once no review holds a pending proof, reject those and commit. *)
EndRevocation ==
  /\ revoking.on /\ reviewing.proof \notin ActiveProofs
  /\ consent' = "revoked"
  /\ tiers' = [t \in DOMAIN tiers |->
                 IF t \in LockedTiers THEN [tiers[t] EXCEPT !.status = "revoked"] ELSE tiers[t]]
  /\ proofs' = [p \in DOMAIN proofs |-> RevokedProof(proofs[p])]
  /\ revoking' = NoRevocation
  /\ UNCHANGED <<clock, capability, outages, submitting, reviewing>>

(* A review wants a tier the revocation holds, which wants the review's proof:
   PostgreSQL aborts one of the two. *)
AbortDeadlocked ==
  /\ revoking.on /\ reviewing # NoReview
  /\ ActiveTiers \cap LockedTiers # {}
  /\ \/ reviewing' = NoReview /\ UNCHANGED revoking
     \/ revoking' = NoRevocation /\ UNCHANGED reviewing
  /\ UNCHANGED <<clock, rows, submitting>>

-----------------------------------------------------------------------------
MayHaveGraceAgain(tier, now) == tier.status = "active" /\ now < tier.expires + Grace
MayHaveGrace(tier, now) == tier.status = "active" /\ now < tier.expires /\ tier.grace = 0

StartProviderOutage(now) ==
  /\ capability = "enabled" /\ outages < MaxOutages
  /\ {t \in DOMAIN tiers : MayHaveGrace(tiers[t], now)} \cap LockedTiers = {}
  /\ capability' = "outage" /\ outages' = outages + 1
  /\ tiers' = [t \in DOMAIN tiers |->
                 IF MayHaveGrace(tiers[t], now) THEN [tiers[t] EXCEPT !.grace = outages + 1]
                                                ELSE tiers[t]]
  /\ UNCHANGED <<clock, consent, proofs, calls>>

ResolveProviderOutage ==
  /\ capability = "outage" /\ capability' = "enabled"
  /\ UNCHANGED <<clock, outages, consent, proofs, tiers, calls>>

InGrace(tier, now) ==
  /\ capability = "outage" /\ tier.grace = outages /\ now < tier.expires + Grace

IsDue(tier, now) == tier.status = "active" /\ tier.expires <= now /\ ~ InGrace(tier, now)

ExpireDueQualifications(now) ==
  LET due == {t \in DOMAIN tiers : IsDue(tiers[t], now)} IN
  /\ due # {} /\ due \cap LockedTiers = {}
  /\ tiers' = [t \in DOMAIN tiers |->
                 IF t \in due THEN [tiers[t] EXCEPT !.status = "expired"] ELSE tiers[t]]
  /\ UNCHANGED <<clock, capability, outages, consent, proofs, calls>>

(* Calls in flight end within MaxLockWait of their now(). *)
Tick ==
  /\ clock < MaxTime
  /\ reviewing # NoReview => clock - reviewing.now < MaxLockWait
  /\ revoking.on => clock - revoking.now < MaxLockWait
  /\ clock' = clock + 1
  /\ UNCHANGED <<rows, calls>>

Next ==
  \/ ActivatePlatform \/ SetConsent
  \/ BeginSubmission \/ EndSubmission
  \/ EndReview \/ EndRevocation \/ AbortDeadlocked
  \/ ResolveProviderOutage \/ Tick
  \/ \E now \in Nows :
        \/ BeginRevocation(now)
        \/ ApproveBeforeRevocation(now)
        \/ StartProviderOutage(now)
        \/ ExpireDueQualifications(now)
        \/ \E p \in DOMAIN proofs :
              \/ AppealVerification(p, now)
              \/ DeleteEvidence(p, now)
              \/ \E by \in Reviewers : BeginReview(p, by, now)

Spec == Init /\ [][Next]_vars

-----------------------------------------------------------------------------
(* What a reservation asks of a tier, besides the creator's consent
   (selectCurrentQualification). *)
IsUsable(tier, now) ==
  /\ tier.status = "active"
  /\ \/ capability = "enabled" /\ now < tier.expires
     \/ InGrace(tier, now)

TypeOK ==
  /\ clock \in Nat
  /\ capability \in {"disabled", "enabled", "outage"} /\ outages \in 0..MaxOutages
  /\ consent \in {"none", "active", "revoked"}
  /\ proofs \in Seq(ProofRow) /\ Len(proofs) <= MaxProofs
  /\ tiers \in Seq(TierRow)
  /\ submitting \in BOOLEAN
  /\ reviewing \in Review \cup {NoReview}
  /\ revoking \in Revocation

(* However reviews, revocations and submissions interleave: at most one proof
   is active and at most one tier, so the partial unique indexes never refuse
   a review; a proof earns a tier if and only if it is verified; and the row a
   review holds stays as the review found it
   (reach-qualification-store.ts:988, schema.ts:1128 and 1243). *)
RowsAgree ==
  /\ TypeOK
  /\ \A p, q \in ActiveProofs : p = q
  /\ Len(tiers) = Cardinality({p \in DOMAIN proofs : proofs[p].status = "verified"})
  /\ \A t \in ActiveTiers : t = Len(tiers)
  /\ reviewing # NoReview =>
        reviewing.proof \in ActiveProofs /\ MayReview(reviewing.proof, reviewing.by)
  /\ revoking.on => consent = "active" /\ LockedTiers \subseteq ActiveTiers

(* A submission past its gate has room; a tier had its grace in an outage. *)
InductiveInvariant ==
  /\ RowsAgree
  /\ submitting => Len(proofs) < MaxProofs
  /\ \A t \in DOMAIN tiers : tiers[t].grace <= outages

(* Grace is given once, to tiers that were valid when an outage began, and ends
   with that outage: a tier past its 90 days that cannot be used never can be
   again (docs/evidence/M03/reach-qualification.md:20 and 32).  A tier may run
   out while the outage's transaction waits for a lock. *)
NoTierIsRevived ==
  [][\A t \in DOMAIN tiers :
        \/ clock < tiers[t].expires + MaxLockWait
        \/ IsUsable(tiers[t], clock)
        \/ ~ IsUsable(tiers[t], clock)']_vars

(* "Raw analytics are deleted 30 days after verification or appeal closure,
   whichever is later" (architecture.md:443): an appeal that waits has its
   evidence. *)
AppealKeepsEvidence ==
  \A p \in DOMAIN proofs : proofs[p].status = "appeal_pending" => ~ proofs[p].deleted
=============================================================================
