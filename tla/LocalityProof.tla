---------------------------- MODULE LocalityProof -----------------------------
(***************************************************************************)
(* One creator's locality credential (packages/db/src/                     *)
(* locality-proof-store.ts with its table, and the creator's profile): the *)
(* proofs, their review, correction and appeal, the badge on the profile   *)
(* that follows from them, the declared address change and the expiry.     *)
(*                                                                         *)
(* submit locks the profile and then meets the index on active proofs; a   *)
(* review locks a proof, then the credential it replaces, then the         *)
(* profile; a declared change and the expiry lock a credential and then    *)
(* the profile.  Each of the four is two steps, the second of which waits  *)
(* for the rows the others hold, and any may be rolled back in between, by *)
(* deadlock detection or a lost connection.  The others are one step.  The *)
(* evidence and its deletion are in LeasedJobs.                            *)
(***************************************************************************)
EXTENDS Integers, Sequences

CONSTANTS
  Reviewers,
  Nobody,
  Validity,     \* of a credential: 1 year
  AppealWindow, \* 14 days
  MaxProofs,    \* bound: proofs submitted
  MaxTime,      \* bound: the clock
  MaxLockWait   \* bound: ticks between BEGIN and the end of a call

\* What the constants must be.
LocalityAssumption ==
  /\ Nobody \notin Reviewers
  /\ Validity \in Nat \ {0} /\ AppealWindow \in Nat
  /\ MaxProofs \in Nat /\ MaxTime \in Nat /\ MaxLockWait \in Nat

VARIABLES
  clock,
  verifications, \* locality_verifications, in order of submission
  profile,       \* creator_profiles.locality_status and locality_expires_at
  submission,    \* the submit in flight: it holds the profile
  review,        \* the review or appeal decision in flight: it holds a proof
  change,        \* the declared change in flight: it holds a credential
  expiry         \* the expiry sweep in flight: it holds a credential

rows == <<verifications, profile>>
calls == <<submission, review, change, expiry>>
vars == <<clock, rows, calls>>

Open == {"pending_review", "correction_needed", "appeal_pending"}
VerificationStatus ==
  Open \cup {"verified", "rejected", "final_rejected", "expired", "invalidated"}
\* reviewer and appealBy matter until an appeal ends, expires while verified.
Verification == [status: VerificationStatus, reviewer: Reviewers \cup {Nobody},
                 appealBy: Nat, expires: Nat]
With(status) == [status |-> status, reviewer |-> Nobody, appealBy |-> 0, expires |-> 0]
Profile == [status: {"unverified", "pending", "verified", "expired", "rejected"},
            expires: Nat]
NoCall == [now |-> 0, row |-> 0]
Call == [now: Nat, row: 1..MaxProofs] \cup {NoCall}

Init ==
  /\ clock = 0
  /\ verifications = <<>>
  /\ profile = [status |-> "unverified", expires |-> 0]
  /\ submission = NoCall /\ review = NoCall /\ change = NoCall /\ expiry = NoCall

Nows == {b \in 0..clock : b >= clock - MaxLockWait}

Proofs == DOMAIN verifications
OpenProofs == {p \in Proofs : verifications[p].status \in Open}
Credentials == {p \in Proofs : verifications[p].status = "verified"}
IsCurrent(badge, now) == badge.status = "verified" /\ badge.expires > now
ProfileIsFree == submission = NoCall

Cleared(status) == [status |-> status, expires |-> 0]
ClearAnyProfile(status, now) == Cleared(status)
ClearProfileUnlessCurrent(status, now) ==
  IF IsCurrent(profile, now) THEN profile ELSE Cleared(status)

-----------------------------------------------------------------------------
(* submit: lock the profile... *)
BeginSubmission(now) ==
  /\ ProfileIsFree /\ Len(verifications) < MaxProofs
  /\ submission' = [now |-> now, row |-> Len(verifications) + 1]
  /\ UNCHANGED <<clock, rows, review, change, expiry>>

(* ...and insert the proof, unless one is open. *)
EndSubmission ==
  /\ submission # NoCall
  /\ IF OpenProofs = {}
     THEN /\ verifications' = Append(verifications, With("pending_review"))
          /\ profile' = ClearProfileUnlessCurrent("pending", submission.now)
     ELSE UNCHANGED rows
  /\ submission' = NoCall
  /\ UNCHANGED <<clock, review, change, expiry>>

ResubmitCorrection(p) ==
  /\ verifications[p].status = "correction_needed" /\ review.row # p
  /\ verifications' = [verifications EXCEPT ![p] = With("pending_review")]
  /\ UNCHANGED <<clock, profile, calls>>

-----------------------------------------------------------------------------
(* review and decideAppeal: lock the proof... *)
BeginReview(p, by, now) ==
  /\ review = NoCall
  /\ \/ verifications[p].status = "pending_review"
     \/ verifications[p].status = "appeal_pending" /\ verifications[p].reviewer # by
  /\ review' = [now |-> now, row |-> p, by |-> by]
  /\ UNCHANGED <<clock, rows, submission, change, expiry>>

Decided(status) ==
  CASE status = "verified" -> [With(status) EXCEPT !.expires = review.now + Validity]
    [] status = "rejected" -> [With(status) EXCEPT !.reviewer = review.by,
                                                   !.appealBy = review.now + AppealWindow]
    [] OTHER -> With(status)

KeptPrior(proof) == proof
SupersededPrior(proof) == IF proof.status = "verified" THEN With("invalidated") ELSE proof

(* ...end the credentials it replaces and put the badge on the profile... *)
Approve ==
  /\ {change.row, expiry.row} \cap Credentials = {} /\ ProfileIsFree
  /\ verifications' = [p \in Proofs |->
       IF p = review.row THEN Decided("verified")
                         ELSE SupersededPrior(verifications[p])]
  /\ profile' = [status |-> "verified", expires |-> review.now + Validity]

(* ...or clear a badge that has run out. *)
Refuse(outcome, shown) ==
  /\ verifications' = [verifications EXCEPT ![review.row] = Decided(outcome)]
  /\ profile' = ClearProfileUnlessCurrent(shown, review.now)
  /\ profile' # profile => ProfileIsFree

EndReview ==
  /\ review # NoCall
  /\ \/ Approve
     \/ /\ verifications[review.row].status = "pending_review"
        /\ Refuse("rejected", "rejected") \/ Refuse("correction_needed", "pending")
     \/ /\ verifications[review.row].status = "appeal_pending"
        /\ Refuse("final_rejected", "rejected")
  /\ review' = NoCall
  /\ UNCHANGED <<clock, submission, change, expiry>>

(* The index on open proofs refuses an appeal beside a newer one. *)
Appeal(p, now) ==
  /\ verifications[p].status = "rejected" /\ now <= verifications[p].appealBy
  /\ OpenProofs = {}
  /\ verifications' = [verifications EXCEPT ![p].status = "appeal_pending"]
  /\ UNCHANGED <<clock, profile, calls>>

-----------------------------------------------------------------------------
BeginAddressChange(p, now) ==
  /\ change = NoCall
  /\ p \in Credentials /\ expiry.row # p
  /\ change' = [now |-> now, row |-> p]
  /\ UNCHANGED <<clock, rows, submission, review, expiry>>

EndAddressChange ==
  /\ change # NoCall /\ ProfileIsFree
  /\ verifications' = [verifications EXCEPT ![change.row] = With("invalidated")]
  /\ profile' = Cleared("unverified")
  /\ change' = NoCall
  /\ UNCHANGED <<clock, submission, review, expiry>>

BeginExpiry(p, now) ==
  /\ expiry = NoCall
  /\ p \in Credentials /\ verifications[p].expires <= now
  /\ change.row # p
  /\ expiry' = [now |-> now, row |-> p]
  /\ UNCHANGED <<clock, rows, submission, review, change>>

ExpireDue(badge, now) ==
  IF badge.status = "verified" /\ badge.expires <= now
  THEN [badge EXCEPT !.status = "expired"] ELSE badge

EndExpiry ==
  /\ expiry # NoCall
  /\ verifications' = [verifications EXCEPT ![expiry.row] = With("expired")]
  /\ profile' = ExpireDue(profile, expiry.now)
  /\ profile' # profile => ProfileIsFree
  /\ expiry' = NoCall
  /\ UNCHANGED <<clock, submission, review, change>>

-----------------------------------------------------------------------------
Abort ==
  /\ calls # <<NoCall, NoCall, NoCall, NoCall>>
  /\ submission' \in {submission, NoCall} /\ review' \in {review, NoCall}
  /\ change' \in {change, NoCall} /\ expiry' \in {expiry, NoCall}
  /\ UNCHANGED <<clock, rows>>

Tick ==
  /\ clock < MaxTime
  /\ \A call \in {submission, review, change, expiry} :
        call # NoCall => clock - call.now < MaxLockWait
  /\ clock' = clock + 1
  /\ UNCHANGED <<rows, calls>>

Next ==
  \/ EndSubmission \/ EndReview \/ EndAddressChange \/ EndExpiry
  \/ Abort \/ Tick
  \/ \E p \in Proofs : ResubmitCorrection(p)
  \/ \E now \in Nows :
        \/ BeginSubmission(now)
        \/ \E p \in Proofs :
              \/ Appeal(p, now)
              \/ BeginAddressChange(p, now)
              \/ BeginExpiry(p, now)
              \/ \E by \in Reviewers : BeginReview(p, by, now)

Spec == Init /\ [][Next]_vars

-----------------------------------------------------------------------------
TypeOK ==
  /\ clock \in Nat
  /\ verifications \in Seq(Verification) /\ Len(verifications) <= MaxProofs
  /\ profile \in Profile
  /\ submission \in Call /\ change \in Call /\ expiry \in Call
  /\ review \in [now: Nat, row: 1..MaxProofs, by: Reviewers] \cup {NoCall}

(* However the four calls meet, the badge businesses see is the credential:
   one proof at most is open and one at most verified; a verified profile has
   the expiry of the verified proof; and a credential that has not run out is
   on the profile, so no refused or corrected renewal takes it away
   (locality-proof-store.ts:1057, docs/evidence/M03/
   locality-proof-retention-lifecycle.md:22).  Every call finds at its end the
   row it locked as it found it. *)
BadgeIsCredential ==
  /\ TypeOK
  /\ \A p, q \in OpenProofs : p = q
  /\ \A p, q \in Credentials : p = q
  /\ profile.status = "verified" =>
        \E p \in Credentials : verifications[p].expires = profile.expires
  /\ \A p \in Credentials : verifications[p].expires > clock =>
        profile = [status |-> "verified", expires |-> verifications[p].expires]
  /\ review # NoCall => review.row \in OpenProofs
  /\ {change.row, expiry.row} \subseteq Credentials \cup {0}

(* What a call knows of its rows, and that none began after now. *)
CallsAgree ==
  /\ submission.now <= clock /\ review.now <= clock
  /\ change.now <= clock /\ expiry.now <= clock
  /\ submission # NoCall => submission.row = Len(verifications) + 1
  /\ expiry # NoCall => verifications[expiry.row].expires <= expiry.now
  /\ change.row = 0 \/ expiry.row = 0

InductiveInvariant == BadgeIsCredential /\ CallsAgree
=============================================================================
