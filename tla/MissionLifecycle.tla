-------------------------- MODULE MissionLifecycle --------------------------
(***************************************************************************)
(* The life of the missions of one published campaign, from a creator's    *)
(* application to the settled financial intent, as the PostgreSQL stores   *)
(* of packages/db/src execute it.                                          *)
(*                                                                         *)
(* Every store method is one transaction that first locks the rows it      *)
(* reads (SELECT ... FOR UPDATE), then checks, writes and commits; a       *)
(* rejected call rolls back.  So an action is one committed call, and its  *)
(* guard is the conjunction of the checks that would have thrown.          *)
(*                                                                         *)
(* Time.  now() is the instant at which the transaction BEGAN, and the     *)
(* transaction may have waited for its row locks since.  A deadline is     *)
(* kept as the ticks left until it, and a call that began b ticks ago      *)
(* compares it with a clock that is b ticks slow.                          *)
(***************************************************************************)
EXTENDS Integers, FiniteSets

CONSTANTS
  Slots,        \* mission_slots of the campaign that a creator may reserve
  NoSlot,       \* "the creator holds no reservation row"
  Creators,     \* creators that pass the eligibility query of apply
  Window,       \* 48 hours, in ticks: review window and correction window
  MaxLockWait   \* the longest wait for a row lock, in ticks

ASSUME SlotsAssumption  == NoSlot \notin Slots
ASSUME WindowAssumption == Window \in Nat \ {0}
ASSUME WaitAssumption   == MaxLockWait \in Nat

VARIABLES
  slot,            \* mission_slots.status
  application,     \* mission_applications.status, "none" when there is no row
  reservation,     \* slot_reservations.status of the creator's application
  reserved,        \* slot_reservations.mission_slot_id, NoSlot when no row
  assignment,      \* mission_assignments.status of the application
  attempt,         \* submission_attempts.status of attempts 1 and 2
  reviewLeft,      \* ticks until submission_attempts.review_deadline_at
  correction,      \* is there a correction_requests row for the assignment?
  correctionLeft,  \* ticks until correction_requests.due_at
  dispute,         \* submission_disputes.status of the assignment
  disputed,        \* the attempt number the dispute names, 0 without dispute
  intents          \* the rows of financial_action_intents

claimVars   == <<slot, application, reservation, reserved>>
reviewVars  == <<attempt, reviewLeft, correction, correctionLeft>>
disputeVars == <<dispute, disputed>>
vars == <<claimVars, assignment, reviewVars, disputeVars, intents>>

-----------------------------------------------------------------------------
(* Types.                                                                  *)

FinalStatus == {"completed", "no_payout"}

SlotStatus        == {"available", "reserved", "accepted"} \cup FinalStatus
ApplicationStatus == {"none", "submitted", "accepted", "withdrawn"}
                       \cup FinalStatus
ReservationStatus == {"none", "active", "converted", "released"}
AssignmentStatus  == {"none", "scheduled", "checked_in"} \cup FinalStatus

ApprovedStatus == {"approved", "auto_approved", "resolved_approved"}
AttemptStatus  == {"none", "under_review", "correction_requested", "disputed",
                   "resolved_no_payout"} \cup ApprovedStatus
DisputeStatus  == {"none", "open", "resolved_earned_full",
                   "resolved_no_payout"}

AttemptNumber == {1, 2}
Left          == (-MaxLockWait) .. Window

IntentAction == {"creator_payable_full", "slot_refund_full"}
Intent == [mission : Creators,
           action  : IntentAction,
           source  : {"submission_approval", "dispute_resolution"},
           status  : {"pending_ledger", "posted"}]

TypeOK ==
  /\ slot           \in [Slots -> SlotStatus]
  /\ application    \in [Creators -> ApplicationStatus]
  /\ reservation    \in [Creators -> ReservationStatus]
  /\ reserved       \in [Creators -> Slots \cup {NoSlot}]
  /\ assignment     \in [Creators -> AssignmentStatus]
  /\ attempt        \in [Creators -> [AttemptNumber -> AttemptStatus]]
  /\ reviewLeft     \in [Creators -> [AttemptNumber -> Left]]
  /\ correction     \in [Creators -> BOOLEAN]
  /\ correctionLeft \in [Creators -> Left]
  /\ dispute        \in [Creators -> DisputeStatus]
  /\ disputed       \in [Creators -> {0} \cup AttemptNumber]
  /\ intents        \subseteq Intent

-----------------------------------------------------------------------------
(* Time as a transaction sees it.                                          *)

Begun == 0 .. MaxLockWait

\* now() < deadline and now() >= deadline, for a call that began b ticks ago.
Before(left, b)  == left + b > 0
Elapsed(left, b) == ~Before(left, b)

\* now() + interval '48 hours'
FortyEightHours(b) == Window - b

(* A tick brings every deadline nearer.  Once a deadline is MaxLockWait    *)
(* ticks in the past no call can still take it for ahead.                  *)
Nearer(left) == IF left > -MaxLockWait THEN left - 1 ELSE left

Tick ==
  /\ reviewLeft' = [c \in Creators |->
                      [n \in AttemptNumber |-> Nearer(reviewLeft[c][n])]]
  /\ correctionLeft' = [c \in Creators |-> Nearer(correctionLeft[c])]
  /\ UNCHANGED <<claimVars, assignment, attempt, correction, disputeVars,
                 intents>>

-----------------------------------------------------------------------------
(* Applications: mission-application-store.ts.                             *)

Init ==
  /\ slot           = [s \in Slots |-> "available"]
  /\ application    = [c \in Creators |-> "none"]
  /\ reservation    = [c \in Creators |-> "none"]
  /\ reserved       = [c \in Creators |-> NoSlot]
  /\ assignment     = [c \in Creators |-> "none"]
  /\ attempt        = [c \in Creators |-> [n \in AttemptNumber |-> "none"]]
  /\ reviewLeft     = [c \in Creators |-> [n \in AttemptNumber |-> -MaxLockWait]]
  /\ correction     = [c \in Creators |-> FALSE]
  /\ correctionLeft = [c \in Creators |-> -MaxLockWait]
  /\ dispute        = [c \in Creators |-> "none"]
  /\ disputed       = [c \in Creators |-> 0]
  /\ intents        = {}

(* The query takes the first available slot by ordinal that no other       *)
(* transaction has locked (SKIP LOCKED): any available one.  The unique    *)
(* index on (campaign, creator) refuses a second application for ever.     *)
ApplyForCommunityMission(c, s) ==
  /\ slot[s] = "available"
  /\ application[c] = "none"
  /\ application' = [application EXCEPT ![c] = "submitted"]
  /\ slot'        = [slot EXCEPT ![s] = "reserved"]
  /\ reservation' = [reservation EXCEPT ![c] = "active"]
  /\ reserved'    = [reserved EXCEPT ![c] = s]
  /\ UNCHANGED <<assignment, reviewVars, disputeVars, intents>>

\* Mutant: forgets the reservation row.
MoveNoReservation(c, to) == UNCHANGED reservation

(* Each of the two UPDATEs of a transition has its own WHERE clause and    *)
(* its row count is not looked at: a row in another status stays as it is. *)
MoveReservation(c, to) ==
  reservation' = [reservation EXCEPT ![c] = IF @ = "active" THEN to ELSE @]

MoveReservedSlot(c, to) ==
  slot' = [s \in Slots |-> IF s = reserved[c] /\ slot[s] = "reserved"
                             THEN to ELSE slot[s]]

AcceptApplication(c) ==
  /\ application[c] = "submitted"
  /\ application' = [application EXCEPT ![c] = "accepted"]
  /\ MoveReservation(c, "converted")
  /\ MoveReservedSlot(c, "accepted")
  /\ UNCHANGED <<reserved, assignment, reviewVars, disputeVars, intents>>

WithdrawApplication(c) ==
  /\ application[c] = "submitted"
  /\ application' = [application EXCEPT ![c] = "withdrawn"]
  /\ MoveReservation(c, "released")
  /\ MoveReservedSlot(c, "available")
  /\ UNCHANGED <<reserved, assignment, reviewVars, disputeVars, intents>>

-----------------------------------------------------------------------------
(* Schedule and check-in: check-in-store.ts.                               *)

\* The unique index mission_assignments_slot_uq: the slot has no assignment.
SlotUnscheduled(s) ==
  ~\E d \in Creators : assignment[d] # "none" /\ reserved[d] = s

ScheduleAcceptedApplication(c) ==
  /\ application[c] = "accepted"
  /\ reservation[c] = "converted"
  /\ slot[reserved[c]] = "accepted"
  /\ assignment[c] = "none"
  /\ SlotUnscheduled(reserved[c])
  /\ assignment' = [assignment EXCEPT ![c] = "scheduled"]
  /\ UNCHANGED <<claimVars, reviewVars, disputeVars, intents>>

(* The effect of a consumed challenge on the assignment.  That the right   *)
(* creator presented a live challenge at the venue during the window is    *)
(* the subject of module CheckIn; here any scheduled mission may check in. *)
ConsumeChallenge(c) ==
  /\ assignment[c] = "scheduled"
  /\ assignment' = [assignment EXCEPT ![c] = "checked_in"]
  /\ UNCHANGED <<claimVars, reviewVars, disputeVars, intents>>

-----------------------------------------------------------------------------
(* Submission and review: submission-store.ts.                             *)

\* The attempt a complete submission would become, for a call begun b ago.
IsFirstAttempt(c) == \A n \in AttemptNumber : attempt[c][n] = "none"

IsCorrectedAttempt(c, b) ==
  /\ attempt[c][1] = "correction_requested"
  /\ attempt[c][2] = "none"
  /\ correction[c] /\ Before(correctionLeft[c], b)

(* The corrected attempt leaves the first one in correction_requested.     *)
SubmitComplete(c, n, b) ==
  /\ assignment[c] = "checked_in"
  /\ \/ n = 1 /\ IsFirstAttempt(c)
     \/ n = 2 /\ IsCorrectedAttempt(c, b)
  /\ attempt'    = [attempt EXCEPT ![c][n] = "under_review"]
  /\ reviewLeft' = [reviewLeft EXCEPT ![c][n] = FortyEightHours(b)]
  /\ UNCHANGED <<claimVars, assignment, correction, correctionLeft,
                 disputeVars, intents>>

RequestCorrection(c, n, b) ==
  /\ attempt[c][n] = "under_review"
  /\ Before(reviewLeft[c][n], b)
  /\ n = 1
  /\ ~correction[c]
  /\ attempt'        = [attempt EXCEPT ![c][n] = "correction_requested"]
  /\ correction'     = [correction EXCEPT ![c] = TRUE]
  /\ correctionLeft' = [correctionLeft EXCEPT ![c] = FortyEightHours(b)]
  /\ UNCHANGED <<claimVars, assignment, reviewLeft, disputeVars, intents>>

(* Closing a mission moves its assignment, application and slot together,  *)
(* and only from the statuses an unsettled, checked-in mission has.        *)
JointlyEligible(c) ==
  /\ assignment[c] = "checked_in"
  /\ application[c] = "accepted"
  /\ slot[reserved[c]] = "accepted"

\* Mutant: leaves the application accepted.
CloseWithoutApplication(c, final) ==
  /\ assignment'  = [assignment EXCEPT ![c] = final]
  /\ slot'        = [slot EXCEPT ![reserved[c]] = final]
  /\ UNCHANGED application

CloseMission(c, final) ==
  /\ assignment'  = [assignment EXCEPT ![c] = final]
  /\ application' = [application EXCEPT ![c] = final]
  /\ slot'        = [slot EXCEPT ![reserved[c]] = final]

\* Mutant: the intent is born posted, before the ledger has seen it.
AddPostedIntent(c, action, source) ==
  /\ ~\E i \in intents : i.mission = c
  /\ intents' = intents \cup {[mission |-> c, action |-> action,
                               source |-> source, status |-> "posted"]}

(* Inserts the intent; financial_action_intents_assignment_uq refuses a    *)
(* second one for the assignment.                                          *)
AddIntent(c, action, source) ==
  /\ ~\E i \in intents : i.mission = c
  /\ intents' = intents \cup {[mission |-> c, action |-> action,
                               source |-> source,
                               status |-> "pending_ledger"]}

FinalizeApproval(c, n, approved) ==
  /\ JointlyEligible(c)
  /\ attempt' = [attempt EXCEPT ![c][n] = approved]
  /\ AddIntent(c, "creator_payable_full", "submission_approval")
  /\ CloseMission(c, "completed")
  /\ UNCHANGED <<reservation, reserved, reviewLeft, correction,
                 correctionLeft, disputeVars>>

ApproveSubmission(c, n, b) ==
  /\ attempt[c][n] = "under_review"
  /\ Before(reviewLeft[c][n], b)
  /\ FinalizeApproval(c, n, "approved")

\* Mutant: the deadline compared the wrong way round.
AutoApproveBeforeDeadline(c, n, b) ==
  /\ attempt[c][n] = "under_review"
  /\ Before(reviewLeft[c][n], b)
  /\ FinalizeApproval(c, n, "auto_approved")

AutoApproveSubmission(c, n, b) ==
  /\ attempt[c][n] = "under_review"
  /\ Elapsed(reviewLeft[c][n], b)
  /\ FinalizeApproval(c, n, "auto_approved")

-----------------------------------------------------------------------------
(* Disputes: dispute-store.ts.                                             *)

\* Mutant: the dispute always names the first attempt.
AddDisputeOfFirst(c, n) ==
  /\ dispute[c] = "none"
  /\ dispute'  = [dispute EXCEPT ![c] = "open"]
  /\ disputed' = [disputed EXCEPT ![c] = 1]
  /\ attempt'  = [attempt EXCEPT ![c][n] = "disputed"]
  /\ UNCHANGED <<claimVars, assignment, reviewLeft, correction,
                 correctionLeft, intents>>

\* Inserts the assignment's one dispute and marks the attempt it names.
AddDispute(c, n) ==
  /\ dispute[c] = "none"
  /\ dispute'  = [dispute EXCEPT ![c] = "open"]
  /\ disputed' = [disputed EXCEPT ![c] = n]
  /\ attempt'  = [attempt EXCEPT ![c][n] = "disputed"]
  /\ UNCHANGED <<claimVars, assignment, reviewLeft, correction,
                 correctionLeft, intents>>

OpenBusinessDispute(c, n, b) ==
  /\ attempt[c][n] = "under_review"
  /\ Before(reviewLeft[c][n], b)
  /\ AddDispute(c, n)

(* The creator contests the correction of the attempt the correction       *)
(* names, whether or not the corrected attempt has been submitted.         *)
OpenCreatorDispute(c, n, b) ==
  /\ attempt[c][n] = "correction_requested"
  /\ correction[c] /\ Before(correctionLeft[c], b)
  /\ AddDispute(c, n)

\* Mutant: a creator who lost the dispute is paid.
ResolutionPayingBoth ==
  [earned_full |-> [dispute |-> "resolved_earned_full",
                    attempt |-> "resolved_approved",
                    final   |-> "completed",
                    action  |-> "creator_payable_full"],
   no_payout   |-> [dispute |-> "resolved_no_payout",
                    attempt |-> "resolved_no_payout",
                    final   |-> "no_payout",
                    action  |-> "creator_payable_full"]]

\* What a reviewer's outcome writes into each of the rows it touches.
Resolution ==
  [earned_full |-> [dispute |-> "resolved_earned_full",
                    attempt |-> "resolved_approved",
                    final   |-> "completed",
                    action  |-> "creator_payable_full"],
   no_payout   |-> [dispute |-> "resolved_no_payout",
                    attempt |-> "resolved_no_payout",
                    final   |-> "no_payout",
                    action  |-> "slot_refund_full"]]

DisputeOutcome == {"earned_full", "no_payout"}

ResolveDispute(c, outcome) ==
  LET to == Resolution[outcome] IN
  /\ dispute[c] = "open"
  /\ attempt[c][disputed[c]] = "disputed"
  /\ JointlyEligible(c)
  /\ dispute' = [dispute EXCEPT ![c] = to.dispute]
  /\ attempt' = [attempt EXCEPT ![c][disputed[c]] = to.attempt]
  /\ CloseMission(c, to.final)
  /\ AddIntent(c, to.action, "dispute_resolution")
  /\ UNCHANGED <<reservation, reserved, reviewLeft, correction,
                 correctionLeft, disputed>>

-----------------------------------------------------------------------------
(* Intent consumption: ledger-store.ts (the journal it writes is modelled  *)
(* in CampaignLedger).                                                     *)

\* Mutant: only completed missions are expected.
ExpectCompleted(action) == "completed"

ExpectedFinal(action) ==
  IF action = "creator_payable_full" THEN "completed" ELSE "no_payout"

PostIntent(i) ==
  intents' = (intents \ {i}) \cup {[i EXCEPT !.status = "posted"]}

ConsumeFinancialActionIntent(i) ==
  /\ i \in intents
  /\ i.status = "pending_ledger"
  /\ assignment[i.mission]  = ExpectedFinal(i.action)
  /\ application[i.mission] = ExpectedFinal(i.action)
  /\ slot[reserved[i.mission]] = ExpectedFinal(i.action)
  /\ PostIntent(i)
  /\ UNCHANGED <<claimVars, assignment, reviewVars, disputeVars>>

-----------------------------------------------------------------------------
MissionCall(c) ==
  \/ \E s \in Slots : ApplyForCommunityMission(c, s)
  \/ AcceptApplication(c)
  \/ WithdrawApplication(c)
  \/ ScheduleAcceptedApplication(c)
  \/ ConsumeChallenge(c)

ReviewCall(c, n, b) ==
  \/ SubmitComplete(c, n, b)
  \/ RequestCorrection(c, n, b)
  \/ ApproveSubmission(c, n, b)
  \/ AutoApproveSubmission(c, n, b)
  \/ OpenBusinessDispute(c, n, b)
  \/ OpenCreatorDispute(c, n, b)

Next ==
  \/ Tick
  \/ \E c \in Creators : MissionCall(c)
  \/ \E c \in Creators, n \in AttemptNumber, b \in Begun : ReviewCall(c, n, b)
  \/ \E c \in Creators, outcome \in DisputeOutcome : ResolveDispute(c, outcome)
  \/ \E i \in intents : ConsumeFinancialActionIntent(i)

Spec == Init /\ [][Next]_vars

(* The platform's side of the bargain: the clock runs, the service that    *)
(* approves overdue submissions and the one that posts intents are called  *)
(* again until they succeed, and a reviewer eventually decides a dispute   *)
(* that can be decided.  No fairness for creators or businesses.           *)
PlatformFairness ==
  /\ WF_vars(Tick)
  /\ \A c \in Creators :
       /\ \A n \in AttemptNumber :
            WF_vars(\E b \in Begun : AutoApproveSubmission(c, n, b))
       /\ WF_vars(\E outcome \in DisputeOutcome : ResolveDispute(c, outcome))
       /\ WF_vars(\E i \in intents : i.mission = c
                                       /\ ConsumeFinancialActionIntent(i))

FairSpec == Spec /\ PlatformFairness
-----------------------------------------------------------------------------
(* Safety.                                                                 *)

LiveReservation == {"active", "converted"}

Holders(s) == {c \in Creators : reserved[c] = s
                                  /\ reservation[c] \in LiveReservation}

(* One creator at most holds a slot, a slot is available exactly when      *)
(* nobody holds it, and the three rows of a claim (slot, reservation,      *)
(* application) tell the same story, although apply, accept, withdraw and  *)
(* the closing of a mission each update them with separate statements.     *)
SlotAgreement ==
  \A s \in Slots :
    /\ \A c, d \in Holders(s) : c = d
    /\ slot[s] = "available" <=> Holders(s) = {}
    /\ \A c \in Holders(s) :
         /\ slot[s] = "reserved" <=> reservation[c] = "active"
         /\ application[c] = IF slot[s] = "reserved" THEN "submitted"
                                                     ELSE slot[s]

(* The assignment, the application and the slot of a mission become final  *)
(* together and with the same outcome, whichever of review, automatic      *)
(* approval and dispute resolution closed the mission.                     *)
OutcomeAgreement ==
  \A c \in Creators, final \in FinalStatus :
    /\ assignment[c] = final <=> application[c] = final
    /\ assignment[c] = final => slot[reserved[c]] = final

IntentsOf(c) == {i \in intents : i.mission = c}

(* A closed mission has exactly one financial intent and it pays for the   *)
(* outcome the mission closed with; an open mission has none.  So no       *)
(* earned reward and no refund is lost, doubled or crossed.                *)
OneIntentPerOutcome ==
  \A c \in Creators :
    IF assignment[c] \in FinalStatus
      THEN \E i \in intents : /\ IntentsOf(c) = {i}
                              /\ ExpectedFinal(i.action) = assignment[c]
      ELSE IntentsOf(c) = {}

(* The allocation of a slot is spent at most once, over all the creators   *)
(* that ever held a reservation of it.                                     *)
SlotSettledOnce ==
  \A i, j \in intents : reserved[i.mission] = reserved[j.mission] => i = j

\* The attempts of a mission that carry a verdict.
Verdicts(c) == {n \in AttemptNumber :
                  attempt[c][n] \in ApprovedStatus \cup {"resolved_no_payout"}}

\* The statuses of a dispute a reviewer has decided.
ResolvedStatus == {"resolved_earned_full", "resolved_no_payout"}

(* Money follows a verdict: at most one attempt of a mission carries one,  *)
(* a payable needs an approval of some kind and a refund needs a dispute   *)
(* resolved against the creator; an intent raised by a dispute belongs to  *)
(* a resolved dispute.                                                     *)
VerdictAgreement ==
  \A c \in Creators :
    /\ \A m, n \in Verdicts(c) : m = n
    /\ Verdicts(c) = {} <=> IntentsOf(c) = {}
    /\ \A i \in IntentsOf(c), n \in Verdicts(c) :
         /\ i.action = "creator_payable_full" <=> attempt[c][n] \in ApprovedStatus
         /\ i.source = "dispute_resolution" <=> dispute[c] \in ResolvedStatus

(* A second attempt exists only in the one correction round the business   *)
(* asked for, and never beside a first attempt that review approved.       *)
OneCorrectionRound ==
  \A c \in Creators :
    attempt[c][2] # "none" =>
      /\ correction[c]
      /\ attempt[c][1] \notin {"none", "under_review", "approved",
                               "auto_approved"}
      /\ attempt[c][2] # "correction_requested"

-----------------------------------------------------------------------------
(* The inductive strengthening of the invariants above: what holds between *)
(* the rows of one mission at every step of its life.                      *)

\* The reservation row a creator's application has.
ReservationOf(status) ==
  IF status = "none" THEN "none"
  ELSE IF status = "submitted" THEN "active"
  ELSE IF status = "withdrawn" THEN "released"
  ELSE "converted"

Holds(c) == reservation[c] \in LiveReservation

ClaimInv ==
  /\ \A c \in Creators :
       /\ reservation[c] = ReservationOf(application[c])
       /\ reserved[c] = NoSlot <=> application[c] = "none"
       /\ Holds(c) => slot[reserved[c]] = IF application[c] = "submitted"
                                            THEN "reserved"
                                            ELSE application[c]
  /\ \A s \in Slots : slot[s] # "available" =>
       \E c \in Creators : Holds(c) /\ reserved[c] = s
  /\ \A c, d \in Creators :
       Holds(c) /\ Holds(d) /\ reserved[c] = reserved[d] => c = d

MissionInv ==
  \A c \in Creators :
    /\ assignment[c] \in {"scheduled", "checked_in"}
         => application[c] = "accepted"
    /\ assignment[c] \in FinalStatus \/ application[c] \in FinalStatus
         => assignment[c] = application[c]

ReviewInv ==
  \A c \in Creators :
    /\ \A n \in AttemptNumber :
         attempt[c][n] # "none" => assignment[c] \in {"checked_in"} \cup FinalStatus
    /\ assignment[c] \in FinalStatus <=> Verdicts(c) # {}
    /\ \A m, n \in Verdicts(c) : m = n
    /\ dispute[c] \in ResolvedStatus => assignment[c] \in FinalStatus
    /\ dispute[c] # "none" => disputed[c] \in AttemptNumber
    /\ attempt[c][1] = "none" => attempt[c][2] = "none"

IntentInv ==
  /\ \A i, j \in intents : i.mission = j.mission => i = j
  /\ \A c \in Creators : assignment[c] \in FinalStatus =>
       \E i \in intents : i.mission = c
  /\ \A i \in intents :
       /\ assignment[i.mission] = ExpectedFinal(i.action)
       /\ i.source = "dispute_resolution"
            <=> dispute[i.mission] \in ResolvedStatus
       /\ \A n \in Verdicts(i.mission) :
            i.action = "creator_payable_full"
              <=> attempt[i.mission][n] \in ApprovedStatus

(* Everything the proofs carry from one state to the next.                 *)
InductiveInvariant ==
  /\ TypeOK
  /\ ClaimInv
  /\ MissionInv
  /\ ReviewInv
  /\ IntentInv
  /\ OneCorrectionRound

-----------------------------------------------------------------------------
(* Action properties.                                                      *)

SettlementKept ==
  /\ \A s \in Slots : slot[s] \in FinalStatus => slot'[s] = slot[s]
  /\ \A c \in Creators :
       /\ assignment[c] \in FinalStatus => assignment'[c] = assignment[c]
       /\ \A n \in Verdicts(c) : attempt'[c][n] = attempt[c][n]
       /\ dispute[c] \in ResolvedStatus => dispute'[c] = dispute[c]
  /\ \A i \in intents : \E j \in intents' :
       /\ j.mission = i.mission
       /\ j.action = i.action
       /\ j.source = i.source
       /\ i.status = "posted" => j.status = "posted"

(* No step reopens a closed mission, changes a verdict or a resolved       *)
(* dispute, drops or rewrites an intent, or takes a posted one back.       *)
SettlementIsFinal == [][SettlementKept]_vars

(* architecture.md:551, "a timely evidence-backed dispute can prevent      *)
(* auto-approval while the dispute is resolved": no submission of a        *)
(* mission is approved automatically while its dispute is open.            *)
OpenDisputeHoldsApproval ==
  [][\A c \in Creators, n \in AttemptNumber :
       attempt[c][n] = "under_review" /\ attempt'[c][n] = "auto_approved"
         => dispute[c] # "open"]_vars

-----------------------------------------------------------------------------
(* Liveness, under PlatformFairness.                                       *)

Posted(c) == \E i \in intents : i.mission = c /\ i.status = "posted"

\* A mission that closes gets its intent posted.
ClosedMissionIsPosted ==
  \A c \in Creators : assignment[c] \in FinalStatus ~> Posted(c)

(* A first submission under review either settles or is answered by the    *)
(* correction round, however late the business and however long it waits.  *)
ReviewIsAnswered ==
  \A c \in Creators :
    attempt[c][1] = "under_review"
      ~> Posted(c) \/ attempt[c][1] = "correction_requested"

(* A corrected submission settles the mission: neither the open dispute    *)
(* the creator may still raise about the first attempt nor a dispute about *)
(* the second one can leave the money undecided.  (The submission itself   *)
(* stays under review for ever when that dispute closes the mission first. *)
(* architecture.md:549 would have it approved.)                            *)
CorrectedMissionSettles ==
  \A c \in Creators : attempt[c][2] = "under_review" ~> Posted(c)

-----------------------------------------------------------------------------
(* The stores implement the reward obligation of SlotObligation.           *)

PostedFor(s) ==
  \E i \in intents : reserved[i.mission] = s /\ i.status = "posted"

ObligationOf(s) ==
  IF slot[s] \notin FinalStatus
    THEN IF slot[s] = "accepted" THEN "completion_pending" ELSE "reserved"
  ELSE IF slot[s] = "completed"
    THEN IF PostedFor(s) THEN "payout_ready" ELSE "earned_full"
    ELSE IF PostedFor(s) THEN "business_refund_pending"
                         ELSE "cancelled_no_payout"

Obligation == INSTANCE SlotObligation
                WITH obligation <- [s \in Slots |-> ObligationOf(s)]

(* Each slot's money moves forward through the obligation's states, one    *)
(* step at a time, whatever the calls on its missions do.                  *)
ImplementsObligation == Obligation!Spec
=============================================================================
