--------------------------- MODULE MCCreatorRecords ---------------------------
(***************************************************************************)
(* What is on record of a creator, for TLC: the licences of a mission's    *)
(* content, the locality badge, a Reach tier, the passes claimed by way of *)
(* the creator's links, and on the creator's device the session.  They     *)
(* share no row, so a behaviour is one of the one store picked at its      *)
(* start, and the others stay as they begin.                               *)
(***************************************************************************)
EXTENDS ContentRights, TLC

CONSTANTS
  Reviewers, Nobody, Validity, AppealWindow, Retention, Grace,
  MaxProofs, MaxTiers, MaxOutages,
  BadgeTime, TierTime,
  MaxSignIns, Workspaces, Accesses,
  Customers, Links, Calls, Quantity, Rotations, LiveCodes

VARIABLES
  store,
  verifications, profile, submission, review, change, expiry,
  capability, outages, consent, proofs, tiers, submitting, reviewing, revoking,
  begun, transaction, redeemed, signIn, restore, write, signOut, stored, memory,
  passes, committed, honoured, claim, source, token, code, sentTo, open, overdue,
  stale, serving

Locality == INSTANCE LocalityProof WITH MaxTime <- BadgeTime
Reach    == INSTANCE ReachQualification WITH MaxTime <- TierTime, MaxProofs <- MaxTiers
Device   == INSTANCE MobileSession
\* LocalPass with its theorems, which hold of the run.
Pass     == INSTANCE LocalPassProofs WITH
  offer <- passes, redeemed <- honoured, call <- serving

ASSUME LocalityIsAssumed == Locality!LocalityAssumption
ASSUME ReachIsAssumed == Reach!ReachAssumption
ASSUME DeviceIsAssumed == Device!AccessAssumption
ASSUME PassIsAssumed == Pass!PassAssumption

rightsRows   == <<mission, documents, offer, acceptance, licenses, renewals, payables>>
localityRows == <<verifications, profile, submission, review, change, expiry>>
reachRows    == <<capability, outages, consent, proofs, tiers, submitting, reviewing, revoking>>
device       == <<begun, transaction, redeemed, signIn, restore, write, signOut, stored, memory>>
passRows     ==
  <<passes, committed, honoured, claim, source, token, code, sentTo, open, overdue,
    stale, serving>>
records == <<store, clock, rightsRows, localityRows, reachRows, device, passRows>>

MCInit ==
  /\ store \in {"rights", "locality", "reach", "device", "pass"}
  /\ Init /\ Locality!Init /\ Reach!Init /\ Device!Init /\ Pass!Init

MCNext ==
  \/ store = "rights" /\ Next
       /\ UNCHANGED <<store, localityRows, reachRows, device, passRows>>
  \/ store = "locality" /\ Locality!Next
       /\ UNCHANGED <<store, rightsRows, reachRows, device, passRows>>
  \/ store = "reach" /\ Reach!Next
       /\ UNCHANGED <<store, rightsRows, localityRows, device, passRows>>
  \/ store = "device" /\ Device!Next
       /\ UNCHANGED <<store, clock, rightsRows, localityRows, reachRows, passRows>>
  \/ store = "pass" /\ Pass!Next
       /\ UNCHANGED <<store, clock, rightsRows, localityRows, reachRows, device>>

MCSpec == MCInit /\ [][MCNext]_records

MCLength == [k \in Kinds |-> IF k = "organic" THEN 3 ELSE 1]

\* An account is a creator's and of two businesses, then of one or of a venue.
MCAccesses == {{"creator", "w1", "w2"}, {"w1"}, {"venue_staff"}}

\* Links are named like events and customers like reviewers, as no store has
\* both: one permutation serves two stores.
Symmetry == Permutations(Events) \cup Permutations(Reviewers) \cup Permutations(Calls)

-----------------------------------------------------------------------------
\* LocalityProof: the badge is the credential.  ReachQualification: proofs, tiers
\* and calls in flight agree.
CredentialsAgree == Locality!BadgeIsCredential /\ Reach!RowsAgree

\* ReachQualification: grace revives no tier.
NoTierIsRevived == Reach!NoTierIsRevived

\* MobileSession: what the device holds is its own and granted.
DeviceAgrees == Device!DeviceAgrees

\* ReachQualification: an appeal that waits has its evidence.
AppealKeepsEvidence == Reach!AppealKeepsEvidence

\* LocalPass: the live token of a claim is its newest and ends with it.
TokensAgree == Pass!TokensAgree

\* LocalPass: two calls that wait for each other share a customer or a link.
CirclesShareALink == Pass!CirclesShareALink

\* LocalPass: the store implements PassPromise.
ImplementsPassPromise == Pass!ImplementsPassPromise
=============================================================================
