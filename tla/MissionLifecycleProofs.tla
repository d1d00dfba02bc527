----------------------- MODULE MissionLifecycleProofs -----------------------
(* Proofs about MissionLifecycle, for every set of slots and creators,     *)
(* every window and every bound on lock waits.                             *)
EXTENDS MissionLifecycle, TLAPS

(* The deadlines a call writes and a tick moves stay in range.             *)
LEMMA LeftInRange ==
  /\ \A left \in Left : Nearer(left) \in Left
  /\ \A b \in Begun : FortyEightHours(b) \in Left
  BY WindowAssumption, WaitAssumption
     DEF Left, Nearer, Begun, FortyEightHours

-----------------------------------------------------------------------------
(* Type correctness.                                                       *)

LEMMA InitType == Init => TypeOK
  BY WindowAssumption, WaitAssumption
     DEF Init, TypeOK, SlotStatus, ApplicationStatus, ReservationStatus,
         AssignmentStatus, AttemptStatus, DisputeStatus, Left, AttemptNumber

LEMMA TickType == TypeOK /\ Tick => TypeOK'
  <1> SUFFICES ASSUME TypeOK, Tick PROVE TypeOK'
    OBVIOUS
  <1>1. reviewLeft' \in [Creators -> [AttemptNumber -> Left]]
    BY LeftInRange DEF TypeOK, Tick
  <1>2. correctionLeft' \in [Creators -> Left]
    BY LeftInRange DEF TypeOK, Tick
  <1>3. QED
    BY <1>1, <1>2 DEF TypeOK, Tick, claimVars, disputeVars

LEMMA MissionCallType ==
  ASSUME TypeOK, NEW c \in Creators, MissionCall(c)
  PROVE  TypeOK'
  <1> USE DEF TypeOK, reviewVars, disputeVars, claimVars
  <1>1. ASSUME NEW s \in Slots, ApplyForCommunityMission(c, s)
        PROVE  TypeOK'
    BY <1>1 DEF ApplyForCommunityMission, SlotStatus, ApplicationStatus,
                ReservationStatus
  <1>2. ASSUME AcceptApplication(c) PROVE TypeOK'
    BY <1>2 DEF AcceptApplication, MoveReservation, MoveReservedSlot,
                SlotStatus, ApplicationStatus, ReservationStatus
  <1>3. ASSUME WithdrawApplication(c) PROVE TypeOK'
    BY <1>3 DEF WithdrawApplication, MoveReservation, MoveReservedSlot,
                SlotStatus, ApplicationStatus, ReservationStatus
  <1>4. ASSUME ScheduleAcceptedApplication(c) PROVE TypeOK'
    BY <1>4 DEF ScheduleAcceptedApplication, AssignmentStatus
  <1>5. ASSUME ConsumeChallenge(c) PROVE TypeOK'
    BY <1>5 DEF ConsumeChallenge, AssignmentStatus
  <1>6. QED
    BY <1>1, <1>2, <1>3, <1>4, <1>5 DEF MissionCall

LEMMA CloseMissionType ==
  ASSUME TypeOK, NEW c \in Creators, NEW final \in FinalStatus,
         CloseMission(c, final)
  PROVE  /\ slot' \in [Slots -> SlotStatus]
         /\ application' \in [Creators -> ApplicationStatus]
         /\ assignment' \in [Creators -> AssignmentStatus]
  BY DEF TypeOK, CloseMission, SlotStatus, ApplicationStatus,
         AssignmentStatus

LEMMA AddIntentType ==
  ASSUME TypeOK, NEW c \in Creators, NEW action \in IntentAction,
         NEW source \in {"submission_approval", "dispute_resolution"},
         AddIntent(c, action, source)
  PROVE  intents' \subseteq Intent
  BY DEF TypeOK, AddIntent, Intent

LEMMA FinalizeApprovalType ==
  ASSUME TypeOK, NEW c \in Creators, NEW n \in AttemptNumber,
         NEW approved \in ApprovedStatus, FinalizeApproval(c, n, approved)
  PROVE  TypeOK'
  <1>1. intents' \subseteq Intent
    BY AddIntentType DEF FinalizeApproval, IntentAction
  <1>2. /\ slot' \in [Slots -> SlotStatus]
        /\ application' \in [Creators -> ApplicationStatus]
        /\ assignment' \in [Creators -> AssignmentStatus]
    BY CloseMissionType DEF FinalizeApproval, FinalStatus
  <1>3. attempt' \in [Creators -> [AttemptNumber -> AttemptStatus]]
    BY DEF TypeOK, FinalizeApproval, AttemptStatus
  <1>4. QED
    BY <1>1, <1>2, <1>3 DEF TypeOK, FinalizeApproval, disputeVars

LEMMA ReviewCallType ==
  ASSUME TypeOK, NEW c \in Creators, NEW n \in AttemptNumber,
         NEW b \in Begun, ReviewCall(c, n, b)
  PROVE  TypeOK'
  <1>1. ASSUME SubmitComplete(c, n, b) PROVE TypeOK'
    BY <1>1, LeftInRange DEF SubmitComplete, TypeOK, AttemptStatus,
                             claimVars, disputeVars
  <1>2. ASSUME RequestCorrection(c, n, b) PROVE TypeOK'
    BY <1>2, LeftInRange DEF RequestCorrection, TypeOK, AttemptStatus,
                             claimVars, disputeVars
  <1>3. ASSUME ApproveSubmission(c, n, b) PROVE TypeOK'
    BY <1>3, FinalizeApprovalType DEF ApproveSubmission, ApprovedStatus
  <1>4. ASSUME AutoApproveSubmission(c, n, b) PROVE TypeOK'
    BY <1>4, FinalizeApprovalType DEF AutoApproveSubmission, ApprovedStatus
  <1>5. ASSUME AddDispute(c, n) PROVE TypeOK'
    BY <1>5 DEF AddDispute, TypeOK, AttemptStatus, DisputeStatus, claimVars
  <1>6. QED
    BY <1>1, <1>2, <1>3, <1>4, <1>5
       DEF ReviewCall, OpenBusinessDispute, OpenCreatorDispute

LEMMA ResolveDisputeType ==
  ASSUME TypeOK, NEW c \in Creators, NEW outcome \in DisputeOutcome,
         ResolveDispute(c, outcome)
  PROVE  TypeOK'
  <1>0. /\ Resolution[outcome].dispute \in DisputeStatus
        /\ Resolution[outcome].attempt \in AttemptStatus
        /\ Resolution[outcome].final \in FinalStatus
        /\ Resolution[outcome].action \in IntentAction
    BY DEF Resolution, DisputeOutcome, DisputeStatus, AttemptStatus,
           ApprovedStatus, FinalStatus, IntentAction
  <1>1. intents' \subseteq Intent
    BY <1>0, AddIntentType DEF ResolveDispute
  <1>2. /\ slot' \in [Slots -> SlotStatus]
        /\ application' \in [Creators -> ApplicationStatus]
        /\ assignment' \in [Creators -> AssignmentStatus]
    BY <1>0, CloseMissionType DEF ResolveDispute
  <1>3. /\ attempt' \in [Creators -> [AttemptNumber -> AttemptStatus]]
        /\ dispute' \in [Creators -> DisputeStatus]
    BY <1>0 DEF TypeOK, ResolveDispute
  <1>4. QED
    BY <1>1, <1>2, <1>3 DEF TypeOK, ResolveDispute

LEMMA ConsumeType ==
  ASSUME TypeOK, NEW i \in intents, ConsumeFinancialActionIntent(i)
  PROVE  TypeOK'
  BY DEF TypeOK, ConsumeFinancialActionIntent, PostIntent, Intent,
         claimVars, reviewVars, disputeVars

LEMMA NextType == TypeOK /\ [Next]_vars => TypeOK'
  <1> SUFFICES ASSUME TypeOK, [Next]_vars PROVE TypeOK'
    OBVIOUS
  <1>1. CASE Next
    BY <1>1, TickType, MissionCallType, ReviewCallType, ResolveDisputeType,
       ConsumeType DEF Next
  <1>2. CASE UNCHANGED vars
    BY <1>2 DEF TypeOK, vars, claimVars, reviewVars, disputeVars
  <1>3. QED
    BY <1>1, <1>2

(* Every table of the model keeps rows of its declared type: no call of    *)
(* the stores writes a status outside the enumerations of the schema, or a *)
(* deadline further away than 48 hours.                                    *)
THEOREM TypeCorrect == Spec => []TypeOK
  BY InitType, NextType, PTL DEF Spec
-----------------------------------------------------------------------------
(* The inductive invariant.  What an action cannot disturb is carried over *)
(* by the two framing lemmas; each action then has a lemma for the parts   *)
(* it touches.                                                             *)

LEMMA InitInductive == Init => InductiveInvariant
  <1> SUFFICES ASSUME Init PROVE InductiveInvariant
    OBVIOUS
  <1>1. TypeOK
    BY InitType
  <1>2. ClaimInv
    BY DEF Init, ClaimInv, Holds, LiveReservation, ReservationOf
  <1>3. MissionInv /\ ReviewInv /\ IntentInv /\ OneCorrectionRound
    BY DEF Init, MissionInv, ReviewInv, IntentInv, OneCorrectionRound,
           FinalStatus, Verdicts, ApprovedStatus, AttemptNumber,
           ResolvedStatus
  <1>4. QED
    BY <1>1, <1>2, <1>3 DEF InductiveInvariant

LEMMA ClaimFrame ==
  ASSUME ClaimInv, UNCHANGED claimVars
  PROVE  ClaimInv'
  BY DEF ClaimInv, claimVars, Holds, LiveReservation, ReservationOf

LEMMA VerdictFrame ==
  ASSUME MissionInv, ReviewInv, IntentInv, OneCorrectionRound,
         UNCHANGED <<application, assignment, attempt, correction,
                     disputeVars, intents>>
  PROVE  (MissionInv /\ ReviewInv /\ IntentInv /\ OneCorrectionRound)'
  BY DEF MissionInv, ReviewInv, IntentInv, OneCorrectionRound, Verdicts,
         disputeVars

-----------------------------------------------------------------------------
(* Claims: apply, accept, withdraw.                                        *)

LEMMA ApplyClaim ==
  ASSUME TypeOK, ClaimInv, NEW c \in Creators, NEW s \in Slots,
         ApplyForCommunityMission(c, s)
  PROVE  ClaimInv'
  <1> USE DEF ClaimInv, Holds, LiveReservation, ReservationOf
  <1>1. reservation[c] = "none" /\ reserved[c] = NoSlot
    BY DEF ApplyForCommunityMission
  <1>2. ASSUME NEW d \in Creators, Holds(d) PROVE reserved[d] # s
    <2>1. slot[reserved[d]] = IF application[d] = "submitted"
                                THEN "reserved" ELSE application[d]
      BY <1>2
    <2>2. application[d] # "available"
      BY DEF TypeOK, ApplicationStatus, FinalStatus
    <2>3. slot[s] = "available"
      BY DEF ApplyForCommunityMission
    <2>4. QED
      BY <2>1, <2>2, <2>3
  <1>3. \A d \in Creators :
          /\ application'[d] = IF d = c THEN "submitted" ELSE application[d]
          /\ reservation'[d] = IF d = c THEN "active" ELSE reservation[d]
          /\ reserved'[d] = IF d = c THEN s ELSE reserved[d]
    BY DEF ApplyForCommunityMission, TypeOK
  <1>4. \A t \in Slots : slot'[t] = IF t = s THEN "reserved" ELSE slot[t]
    BY DEF ApplyForCommunityMission, TypeOK
  <1>5. \A d \in Creators : reserved[d] \in Slots \cup {NoSlot}
    BY DEF TypeOK
  <1>6. QED
    BY <1>1, <1>2, <1>3, <1>4, <1>5, SlotsAssumption

(* A submitted application holds its slot, alone.                          *)
LEMMA SubmittedHolds ==
  ASSUME TypeOK, ClaimInv, NEW c \in Creators, application[c] = "submitted"
  PROVE  /\ reservation[c] = "active"
         /\ reserved[c] \in Slots
         /\ slot[reserved[c]] = "reserved"
         /\ \A d \in Creators : Holds(d) /\ reserved[d] = reserved[c] => d = c
  BY DEF TypeOK, ClaimInv, Holds, LiveReservation, ReservationOf

LEMMA AcceptClaim ==
  ASSUME TypeOK, ClaimInv, NEW c \in Creators, AcceptApplication(c)
  PROVE  ClaimInv'
  <1>1. /\ reservation[c] = "active" /\ reserved[c] \in Slots
        /\ slot[reserved[c]] = "reserved"
        /\ \A d \in Creators : Holds(d) /\ reserved[d] = reserved[c] => d = c
    BY SubmittedHolds DEF AcceptApplication
  <1>2. \A d \in Creators :
          /\ application'[d] = IF d = c THEN "accepted" ELSE application[d]
          /\ reservation'[d] = IF d = c THEN "converted" ELSE reservation[d]
          /\ reserved'[d] = reserved[d]
    BY <1>1 DEF AcceptApplication, MoveReservation, TypeOK
  <1>3. \A t \in Slots :
          slot'[t] = IF t = reserved[c] THEN "accepted" ELSE slot[t]
    BY <1>1 DEF AcceptApplication, MoveReservedSlot, TypeOK
  <1>4. \A d \in Creators : reserved[d] \in Slots \cup {NoSlot}
    BY DEF TypeOK
  <1>5. application[c] = "submitted"
    BY DEF AcceptApplication
  <1>6. QED
    BY <1>1, <1>2, <1>3, <1>4, <1>5, SlotsAssumption
       DEF ClaimInv, Holds, LiveReservation, ReservationOf

LEMMA WithdrawClaim ==
  ASSUME TypeOK, ClaimInv, NEW c \in Creators, WithdrawApplication(c)
  PROVE  ClaimInv'
  <1>1. /\ reservation[c] = "active" /\ reserved[c] \in Slots
        /\ slot[reserved[c]] = "reserved"
        /\ \A d \in Creators : Holds(d) /\ reserved[d] = reserved[c] => d = c
    BY SubmittedHolds DEF WithdrawApplication
  <1>2. \A d \in Creators :
          /\ application'[d] = IF d = c THEN "withdrawn" ELSE application[d]
          /\ reservation'[d] = IF d = c THEN "released" ELSE reservation[d]
          /\ reserved'[d] = reserved[d]
    BY <1>1 DEF WithdrawApplication, MoveReservation, TypeOK
  <1>3. \A t \in Slots :
          slot'[t] = IF t = reserved[c] THEN "available" ELSE slot[t]
    BY <1>1 DEF WithdrawApplication, MoveReservedSlot, TypeOK
  <1>4. \A d \in Creators : reserved[d] \in Slots \cup {NoSlot}
    BY DEF TypeOK
  <1>5. application[c] = "submitted"
    BY DEF WithdrawApplication
  <1>6. QED
    BY <1>1, <1>2, <1>3, <1>4, <1>5, SlotsAssumption
       DEF ClaimInv, Holds, LiveReservation, ReservationOf

(* A step that only moves an application between statuses that are not     *)
(* final leaves the mission parts alone, if the mission is not scheduled.  *)
LEMMA ApplicationStep ==
  ASSUME TypeOK, MissionInv, ReviewInv, IntentInv, OneCorrectionRound,
         NEW c \in Creators,
         application[c] \in {"none", "submitted"},
         NEW to \in {"submitted", "accepted", "withdrawn"},
         application' = [application EXCEPT ![c] = to],
         UNCHANGED <<assignment, reviewVars, disputeVars, intents>>
  PROVE  (MissionInv /\ ReviewInv /\ IntentInv /\ OneCorrectionRound)'
  <1>1. MissionInv'
    BY DEF TypeOK, MissionInv, FinalStatus, AssignmentStatus
  <1>2. QED
    BY <1>1 DEF ReviewInv, IntentInv, OneCorrectionRound, Verdicts,
                reviewVars, disputeVars

LEMMA MissionCallInductive ==
  ASSUME InductiveInvariant, NEW c \in Creators, MissionCall(c)
  PROVE  InductiveInvariant'
  <1> USE DEF InductiveInvariant
  <1>0. TypeOK'
    BY MissionCallType
  <1>1. ASSUME NEW s \in Slots, ApplyForCommunityMission(c, s)
        PROVE  InductiveInvariant'
    BY <1>0, <1>1, ApplyClaim, ApplicationStep DEF ApplyForCommunityMission
  <1>2. ASSUME AcceptApplication(c) PROVE InductiveInvariant'
    BY <1>0, <1>2, AcceptClaim, ApplicationStep DEF AcceptApplication
  <1>3. ASSUME WithdrawApplication(c) PROVE InductiveInvariant'
    BY <1>0, <1>3, WithdrawClaim, ApplicationStep DEF WithdrawApplication
  <1>4. ASSUME ScheduleAcceptedApplication(c) PROVE InductiveInvariant'
    <2>1. ClaimInv'
      BY <1>4, ClaimFrame DEF ScheduleAcceptedApplication
    <2>2. MissionInv'
      BY <1>4 DEF ScheduleAcceptedApplication, MissionInv, TypeOK,
                  FinalStatus, claimVars
    <2>3. ReviewInv' /\ IntentInv' /\ OneCorrectionRound'
      BY <1>4 DEF ScheduleAcceptedApplication, ReviewInv, IntentInv,
                  OneCorrectionRound, Verdicts, TypeOK, FinalStatus,
                  ExpectedFinal, Intent, reviewVars, disputeVars
    <2>4. QED
      BY <1>0, <2>1, <2>2, <2>3
  <1>5. ASSUME ConsumeChallenge(c) PROVE InductiveInvariant'
    <2>1. ClaimInv'
      BY <1>5, ClaimFrame DEF ConsumeChallenge
    <2>2. MissionInv'
      BY <1>5 DEF ConsumeChallenge, MissionInv, TypeOK, FinalStatus,
                  claimVars
    <2>3. ReviewInv' /\ IntentInv' /\ OneCorrectionRound'
      BY <1>5 DEF ConsumeChallenge, ReviewInv, IntentInv,
                  OneCorrectionRound, Verdicts, TypeOK, FinalStatus,
                  ExpectedFinal, Intent, reviewVars, disputeVars
    <2>4. QED
      BY <1>0, <2>1, <2>2, <2>3
  <1>6. QED
    BY <1>1, <1>2, <1>3, <1>4, <1>5 DEF MissionCall
-----------------------------------------------------------------------------
(* Closing a mission: the part that approval and resolution share.         *)

(* An accepted application holds its slot, alone.                          *)
LEMMA AcceptedHolds ==
  ASSUME TypeOK, ClaimInv, NEW c \in Creators, JointlyEligible(c)
  PROVE  /\ reservation[c] = "converted"
         /\ reserved[c] \in Slots
         /\ \A d \in Creators : Holds(d) /\ reserved[d] = reserved[c] => d = c
  <1>1. application[c] = "accepted"
    BY DEF JointlyEligible
  <1>2. reservation[c] = "converted"
    BY <1>1 DEF ClaimInv, ReservationOf
  <1>3. reserved[c] \in Slots
    BY <1>1 DEF ClaimInv, TypeOK
  <1>4. QED
    BY <1>2, <1>3 DEF ClaimInv, Holds, LiveReservation

LEMMA CloseClaim ==
  ASSUME TypeOK, ClaimInv, NEW c \in Creators, NEW final \in FinalStatus,
         JointlyEligible(c), CloseMission(c, final),
         UNCHANGED <<reservation, reserved>>
  PROVE  ClaimInv'
  <1>1. /\ reservation[c] = "converted" /\ reserved[c] \in Slots
        /\ \A d \in Creators : Holds(d) /\ reserved[d] = reserved[c] => d = c
    BY AcceptedHolds
  <1>2. \A d \in Creators :
          application'[d] = IF d = c THEN final ELSE application[d]
    BY DEF CloseMission, TypeOK
  <1>3. \A t \in Slots : slot'[t] = IF t = reserved[c] THEN final ELSE slot[t]
    BY DEF CloseMission, TypeOK
  <1>4. \A d \in Creators : reserved[d] \in Slots \cup {NoSlot}
    BY DEF TypeOK
  <1>5. application[c] = "accepted"
    BY DEF JointlyEligible
  <1>6. final \in {"completed", "no_payout"}
    BY DEF FinalStatus
  <1>7. QED
    BY <1>1, <1>2, <1>3, <1>4, <1>5, <1>6, SlotsAssumption
       DEF ClaimInv, Holds, LiveReservation, ReservationOf

LEMMA CloseMissionInv ==
  ASSUME TypeOK, MissionInv, NEW c \in Creators, NEW final \in FinalStatus,
         JointlyEligible(c), CloseMission(c, final)
  PROVE  MissionInv'
  BY DEF TypeOK, MissionInv, JointlyEligible, CloseMission, FinalStatus

(* Closing a mission with a verdict on one attempt, an intent of the       *)
(* matching action, and a dispute row that is resolved exactly if the      *)
(* intent comes from a resolution.                                         *)
LEMMA CloseReview ==
  ASSUME TypeOK, ReviewInv, IntentInv, OneCorrectionRound,
         NEW c \in Creators, NEW n \in AttemptNumber,
         NEW verdict \in ApprovedStatus \cup {"resolved_no_payout"},
         NEW final \in FinalStatus, NEW action \in IntentAction,
         NEW source \in {"submission_approval", "dispute_resolution"},
         JointlyEligible(c), CloseMission(c, final),
         AddIntent(c, action, source),
         attempt[c][n] # "none",
         n = 1 => \/ attempt[c][2] = "none"
                  \/ verdict \notin {"approved", "auto_approved"},
         attempt' = [attempt EXCEPT ![c][n] = verdict],
         final = ExpectedFinal(action),
         action = "creator_payable_full" <=> verdict \in ApprovedStatus,
         \A d \in Creators : d # c => dispute'[d] = dispute[d],
         \A d \in Creators : d # c => disputed'[d] = disputed[d],
         source = "dispute_resolution" <=> dispute'[c] \in ResolvedStatus,
         dispute'[c] # "none" => disputed'[c] \in AttemptNumber,
         UNCHANGED correction
  PROVE  ReviewInv' /\ IntentInv' /\ OneCorrectionRound'
  <1>1. \A d \in Creators, m \in AttemptNumber :
          attempt'[d][m] = IF d = c /\ m = n THEN verdict ELSE attempt[d][m]
    BY DEF TypeOK
  <1>2. \A d \in Creators :
          assignment'[d] = IF d = c THEN final ELSE assignment[d]
    BY DEF TypeOK, CloseMission
  <1>3. assignment[c] = "checked_in"
    BY DEF JointlyEligible
  <1>4. Verdicts(c) = {}
    BY <1>3 DEF ReviewInv, FinalStatus
  <1>5. Verdicts(c)' = {n}
    BY <1>1, <1>4 DEF Verdicts
  <1>6. \A d \in Creators : d # c => Verdicts(d)' = Verdicts(d)
    BY <1>1 DEF Verdicts
  <1>7. ReviewInv'
    BY <1>1, <1>2, <1>3, <1>5, <1>6 DEF ReviewInv, AttemptNumber,
       ApprovedStatus
  <1>8. IntentInv'
    <2> DEFINE new == [mission |-> c, action |-> action,
                       source |-> source, status |-> "pending_ledger"]
    <2>1. /\ \A i \in intents : i.mission # c /\ i.mission \in Creators
          /\ intents' = intents \cup {new}
      BY DEF AddIntent, TypeOK, Intent
    <2>2. /\ new.mission = c
          /\ new.action = action
          /\ new.source = source
      OBVIOUS
    <2> HIDE DEF new
    <2>3. \A i, j \in intents' : i.mission = j.mission => i = j
      BY <2>1, <2>2 DEF IntentInv
    <2>4. \A d \in Creators : assignment'[d] \in FinalStatus =>
            \E i \in intents' : i.mission = d
      BY <1>2, <2>1, <2>2 DEF IntentInv
    <2>5. ASSUME NEW i \in intents', i = new
          PROVE  /\ assignment'[i.mission] = ExpectedFinal(i.action)
                 /\ i.source = "dispute_resolution"
                      <=> dispute'[i.mission] \in ResolvedStatus
                 /\ \A m \in Verdicts(i.mission)' :
                      i.action = "creator_payable_full"
                        <=> attempt'[i.mission][m] \in ApprovedStatus
      BY <1>1, <1>2, <1>5, <2>2, <2>5
    <2>6. ASSUME NEW i \in intents', i # new
          PROVE  /\ assignment'[i.mission] = ExpectedFinal(i.action)
                 /\ i.source = "dispute_resolution"
                      <=> dispute'[i.mission] \in ResolvedStatus
                 /\ \A m \in Verdicts(i.mission)' :
                      i.action = "creator_payable_full"
                        <=> attempt'[i.mission][m] \in ApprovedStatus
      <3>1. i \in intents /\ i.mission # c /\ i.mission \in Creators
        BY <2>1, <2>6
      <3>2. Verdicts(i.mission)' = Verdicts(i.mission)
        BY <1>6, <3>1
      <3>3. \A m \in AttemptNumber :
              attempt'[i.mission][m] = attempt[i.mission][m]
        BY <1>1, <3>1
      <3>4. QED
        BY <1>2, <3>1, <3>2, <3>3 DEF IntentInv, Verdicts
    <2>7. QED
      BY <2>3, <2>4, <2>5, <2>6 DEF IntentInv
  <1>9. OneCorrectionRound'
    BY <1>1 DEF OneCorrectionRound, AttemptNumber, ApprovedStatus
  <1>10. QED
    BY <1>7, <1>8, <1>9
-----------------------------------------------------------------------------
(* Review: submission, correction, approval.                               *)

LEMMA FinalizeApprovalInductive ==
  ASSUME InductiveInvariant, NEW c \in Creators, NEW n \in AttemptNumber,
         NEW approved \in {"approved", "auto_approved"},
         attempt[c][n] = "under_review",
         FinalizeApproval(c, n, approved)
  PROVE  InductiveInvariant'
  <1> USE DEF InductiveInvariant
  <1>1. /\ JointlyEligible(c)
        /\ CloseMission(c, "completed")
        /\ AddIntent(c, "creator_payable_full", "submission_approval")
        /\ attempt' = [attempt EXCEPT ![c][n] = approved]
        /\ UNCHANGED <<reservation, reserved, correction, disputeVars>>
    BY DEF FinalizeApproval
  <1>2. /\ "completed" \in FinalStatus
        /\ "creator_payable_full" \in IntentAction
        /\ "completed" = ExpectedFinal("creator_payable_full")
        /\ approved \in ApprovedStatus
    BY DEF FinalStatus, IntentAction, ExpectedFinal, ApprovedStatus
  <1>3. TypeOK'
    BY <1>2, FinalizeApprovalType
  <1>4. ClaimInv' /\ MissionInv'
    BY <1>1, <1>2, CloseClaim, CloseMissionInv
  <1>5. dispute[c] \notin ResolvedStatus
    BY <1>1 DEF JointlyEligible, ReviewInv, FinalStatus
  <1>6. dispute[c] # "none" => disputed[c] \in AttemptNumber
    BY DEF ReviewInv
  <1>7. n = 1 => attempt[c][2] = "none"
    BY DEF OneCorrectionRound
  <1>8. ReviewInv' /\ IntentInv' /\ OneCorrectionRound'
    BY <1>1, <1>2, <1>5, <1>6, <1>7, CloseReview DEF disputeVars
  <1>9. QED
    BY <1>3, <1>4, <1>8

(* A step that gives an attempt a status which is not a verdict, and       *)
(* resolves no dispute, leaves the verdicts and the intents in step.       *)
LEMMA OpenReviewStep ==
  ASSUME TypeOK, ReviewInv, IntentInv,
         NEW c \in Creators, NEW n \in AttemptNumber,
         NEW to \in {"under_review", "correction_requested", "disputed"},
         attempt[c][n] \in {"none", "under_review", "correction_requested"},
         assignment[c] \in {"checked_in"} \cup FinalStatus,
         n = 2 => attempt[c][1] # "none",
         attempt' = [attempt EXCEPT ![c][n] = to],
         \A d \in Creators :
           /\ dispute'[d] \in ResolvedStatus <=> dispute[d] \in ResolvedStatus
           /\ dispute'[d] # "none" => disputed'[d] \in AttemptNumber,
         UNCHANGED <<assignment, intents>>
  PROVE  ReviewInv' /\ IntentInv'
  <1>1. \A d \in Creators, m \in AttemptNumber :
          attempt'[d][m] = IF d = c /\ m = n THEN to ELSE attempt[d][m]
    BY DEF TypeOK
  <1>2. \A d \in Creators : Verdicts(d)' = Verdicts(d)
    BY <1>1 DEF Verdicts, ApprovedStatus
  <1>3. ReviewInv'
    BY <1>1, <1>2 DEF ReviewInv, AttemptNumber
  <1>4. \A d \in Creators : \A m \in Verdicts(d) :
          attempt'[d][m] = attempt[d][m]
    BY <1>1 DEF Verdicts, ApprovedStatus
  <1>5. \A i \in intents : i.mission \in Creators
    BY DEF TypeOK, Intent
  <1>6. IntentInv'
    BY <1>2, <1>4, <1>5 DEF IntentInv
  <1>7. QED
    BY <1>3, <1>6

LEMMA SubmitCompleteInductive ==
  ASSUME InductiveInvariant, NEW c \in Creators, NEW n \in AttemptNumber,
         NEW b \in Begun, SubmitComplete(c, n, b)
  PROVE  InductiveInvariant'
  <1> USE DEF InductiveInvariant
  <1>1. TypeOK'
    BY ReviewCallType DEF ReviewCall
  <1>2. ClaimInv'
    BY ClaimFrame DEF SubmitComplete
  <1>3. MissionInv'
    BY DEF SubmitComplete, MissionInv, claimVars
  <1>4. /\ assignment[c] = "checked_in"
        /\ attempt[c][n] = "none"
        /\ n = 2 => attempt[c][1] = "correction_requested" /\ correction[c]
        /\ attempt' = [attempt EXCEPT ![c][n] = "under_review"]
        /\ UNCHANGED <<assignment, correction, disputeVars, intents>>
        /\ n = 1 => attempt[c][2] = "none"
    BY DEF SubmitComplete, IsFirstAttempt, IsCorrectedAttempt, AttemptNumber
  <1>5. ReviewInv' /\ IntentInv'
    <2>1. \A d \in Creators :
            dispute[d] # "none" => disputed[d] \in AttemptNumber
      BY DEF ReviewInv
    <2>2. QED
      BY <1>4, <2>1, OpenReviewStep DEF disputeVars
  <1>6. OneCorrectionRound'
    BY <1>4 DEF OneCorrectionRound, TypeOK, AttemptNumber
  <1>7. QED
    BY <1>1, <1>2, <1>3, <1>5, <1>6

LEMMA RequestCorrectionInductive ==
  ASSUME InductiveInvariant, NEW c \in Creators, NEW n \in AttemptNumber,
         NEW b \in Begun, RequestCorrection(c, n, b)
  PROVE  InductiveInvariant'
  <1> USE DEF InductiveInvariant
  <1>1. TypeOK'
    BY ReviewCallType DEF ReviewCall
  <1>2. ClaimInv'
    BY ClaimFrame DEF RequestCorrection
  <1>3. MissionInv'
    BY DEF RequestCorrection, MissionInv, claimVars
  <1>4. /\ n = 1 /\ attempt[c][1] = "under_review"
        /\ attempt[c][2] = "none"
        /\ attempt' = [attempt EXCEPT ![c][n] = "correction_requested"]
        /\ \A d \in Creators : correction[d] => correction'[d]
        /\ UNCHANGED <<assignment, disputeVars, intents>>
    BY DEF RequestCorrection, OneCorrectionRound, TypeOK
  <1>5. ReviewInv' /\ IntentInv'
    <2>1. \A d \in Creators :
            dispute[d] # "none" => disputed[d] \in AttemptNumber
      BY DEF ReviewInv
    <2>2. assignment[c] \in {"checked_in"} \cup FinalStatus
      BY <1>4 DEF ReviewInv, AttemptNumber
    <2>3. QED
      BY <1>4, <2>1, <2>2, OpenReviewStep DEF disputeVars
  <1>6. OneCorrectionRound'
    BY <1>4 DEF OneCorrectionRound, TypeOK, AttemptNumber
  <1>7. QED
    BY <1>1, <1>2, <1>3, <1>5, <1>6

LEMMA AddDisputeInductive ==
  ASSUME InductiveInvariant, NEW c \in Creators, NEW n \in AttemptNumber,
         attempt[c][n] \in {"under_review", "correction_requested"},
         AddDispute(c, n), TypeOK'
  PROVE  InductiveInvariant'
  <1> USE DEF InductiveInvariant
  <1>1. ClaimInv'
    BY ClaimFrame DEF AddDispute
  <1>2. MissionInv'
    BY DEF AddDispute, MissionInv, claimVars
  <1>3. /\ attempt' = [attempt EXCEPT ![c][n] = "disputed"]
        /\ dispute[c] = "none"
        /\ UNCHANGED <<assignment, correction, intents>>
        /\ \A d \in Creators :
             /\ dispute'[d] = IF d = c THEN "open" ELSE dispute[d]
             /\ disputed'[d] = IF d = c THEN n ELSE disputed[d]
    BY DEF AddDispute, TypeOK
  <1>4. ReviewInv' /\ IntentInv'
    <2>1. \A d \in Creators :
            /\ dispute'[d] \in ResolvedStatus <=> dispute[d] \in ResolvedStatus
            /\ dispute'[d] # "none" => disputed'[d] \in AttemptNumber
      BY <1>3 DEF ReviewInv, ResolvedStatus
    <2>2. assignment[c] \in {"checked_in"} \cup FinalStatus
      BY DEF ReviewInv
    <2>3. n = 2 => attempt[c][1] # "none"
      BY DEF ReviewInv
    <2>4. QED
      BY <1>3, <2>1, <2>2, <2>3, OpenReviewStep
  <1>5. OneCorrectionRound'
    BY <1>3 DEF OneCorrectionRound, TypeOK, AttemptNumber
  <1>6. QED
    BY <1>1, <1>2, <1>4, <1>5

LEMMA ReviewCallInductive ==
  ASSUME InductiveInvariant, NEW c \in Creators, NEW n \in AttemptNumber,
         NEW b \in Begun, ReviewCall(c, n, b)
  PROVE  InductiveInvariant'
  <1>1. TypeOK'
    BY ReviewCallType DEF InductiveInvariant
  <1>2. CASE SubmitComplete(c, n, b)
    BY <1>2, SubmitCompleteInductive
  <1>3. CASE RequestCorrection(c, n, b)
    BY <1>3, RequestCorrectionInductive
  <1>4. CASE ApproveSubmission(c, n, b)
    BY <1>4, FinalizeApprovalInductive DEF ApproveSubmission
  <1>5. CASE AutoApproveSubmission(c, n, b)
    BY <1>5, FinalizeApprovalInductive DEF AutoApproveSubmission
  <1>6. CASE OpenBusinessDispute(c, n, b)
    BY <1>1, <1>6, AddDisputeInductive DEF OpenBusinessDispute
  <1>7. CASE OpenCreatorDispute(c, n, b)
    BY <1>1, <1>7, AddDisputeInductive DEF OpenCreatorDispute
  <1>8. QED
    BY <1>2, <1>3, <1>4, <1>5, <1>6, <1>7 DEF ReviewCall
-----------------------------------------------------------------------------
(* Resolution, consumption, time.                                          *)

LEMMA ResolveDisputeInductive ==
  ASSUME InductiveInvariant, NEW c \in Creators,
         NEW outcome \in DisputeOutcome, ResolveDispute(c, outcome)
  PROVE  InductiveInvariant'
  <1> USE DEF InductiveInvariant
  <1> DEFINE verdict == Resolution[outcome].attempt
             final   == Resolution[outcome].final
             action  == Resolution[outcome].action
             n       == disputed[c]
  <1>1. /\ JointlyEligible(c)
        /\ CloseMission(c, final)
        /\ AddIntent(c, action, "dispute_resolution")
        /\ attempt[c][n] = "disputed"
        /\ attempt' = [attempt EXCEPT ![c][n] = verdict]
        /\ UNCHANGED <<reservation, reserved, correction, disputed>>
    BY DEF ResolveDispute
  <1>2. /\ verdict \in ApprovedStatus \cup {"resolved_no_payout"}
        /\ verdict \notin {"approved", "auto_approved"}
        /\ final \in FinalStatus
        /\ action \in IntentAction
        /\ final = ExpectedFinal(action)
        /\ action = "creator_payable_full" <=> verdict \in ApprovedStatus
        /\ Resolution[outcome].dispute \in ResolvedStatus
    BY DEF Resolution, DisputeOutcome, FinalStatus, IntentAction,
           ExpectedFinal, ApprovedStatus, ResolvedStatus
  <1>3. TypeOK'
    BY ResolveDisputeType
  <1>4. /\ \A d \in Creators : d # c => dispute'[d] = dispute[d]
        /\ dispute'[c] \in ResolvedStatus
    BY <1>2 DEF ResolveDispute, TypeOK
  <1>5. n \in AttemptNumber
    BY DEF ResolveDispute, ReviewInv
  <1> HIDE DEF verdict, final, action, n
  <1>6. ClaimInv' /\ MissionInv'
    BY <1>1, <1>2, CloseClaim, CloseMissionInv
  <1>7. ReviewInv' /\ IntentInv' /\ OneCorrectionRound'
    BY <1>1, <1>2, <1>4, <1>5, CloseReview DEF n
  <1>8. QED
    BY <1>3, <1>6, <1>7

LEMMA ConsumeInductive ==
  ASSUME InductiveInvariant, NEW i \in intents,
         ConsumeFinancialActionIntent(i)
  PROVE  InductiveInvariant'
  <1> USE DEF InductiveInvariant
  <1>1. TypeOK'
    BY ConsumeType
  <1>2. ClaimInv'
    BY ClaimFrame DEF ConsumeFinancialActionIntent
  <1>3. MissionInv' /\ ReviewInv' /\ OneCorrectionRound'
    BY DEF ConsumeFinancialActionIntent, MissionInv, ReviewInv,
           OneCorrectionRound, Verdicts, claimVars, reviewVars, disputeVars
  <1> DEFINE j == [i EXCEPT !.status = "posted"]
  <1>4. /\ j.mission = i.mission
        /\ j.action = i.action
        /\ j.source = i.source
    BY Zenon DEF TypeOK, Intent
  <1>5. intents' = (intents \ {i}) \cup {j}
    BY DEF ConsumeFinancialActionIntent, PostIntent
  <1> HIDE DEF j
  <1>6. \A d \in Creators : Verdicts(d)' = Verdicts(d)
    BY DEF ConsumeFinancialActionIntent, Verdicts, reviewVars
  <1>7. UNCHANGED <<assignment, attempt, dispute>>
    BY DEF ConsumeFinancialActionIntent, reviewVars, disputeVars
  <1>8. \A k \in intents' : \E o \in intents :
          /\ o.mission = k.mission
          /\ o.action = k.action
          /\ o.source = k.source
          /\ k = (IF o = i THEN j ELSE o)
    BY <1>4, <1>5
  <1>9. \A o \in intents : o.mission \in Creators
    BY DEF TypeOK, Intent
  <1>10. \A k, l \in intents' : k.mission = l.mission => k = l
    BY <1>8 DEF IntentInv
  <1>11. \A d \in Creators : assignment'[d] \in FinalStatus =>
           \E k \in intents' : k.mission = d
    BY <1>4, <1>5, <1>7 DEF IntentInv
  <1>12. ASSUME NEW k \in intents'
         PROVE  /\ assignment'[k.mission] = ExpectedFinal(k.action)
                /\ k.source = "dispute_resolution"
                     <=> dispute'[k.mission] \in ResolvedStatus
                /\ \A n \in Verdicts(k.mission)' :
                     k.action = "creator_payable_full"
                       <=> attempt'[k.mission][n] \in ApprovedStatus
    <2>1. PICK o \in intents : /\ o.mission = k.mission
                               /\ o.action = k.action
                               /\ o.source = k.source
      BY <1>8
    <2>2. Verdicts(k.mission)' = Verdicts(o.mission)
      BY <1>6, <1>9, <2>1
    <2>3. QED
      BY <1>7, <2>1, <2>2 DEF IntentInv
  <1>13. IntentInv'
    BY <1>10, <1>11, <1>12 DEF IntentInv
  <1>14. QED
    BY <1>1, <1>2, <1>3, <1>13

LEMMA NextInductive == InductiveInvariant /\ [Next]_vars => InductiveInvariant'
  <1> SUFFICES ASSUME InductiveInvariant, [Next]_vars
               PROVE  InductiveInvariant'
    OBVIOUS
  <1>1. TypeOK'
    BY NextType DEF InductiveInvariant
  <1>2. CASE Tick
    <2>1. UNCHANGED claimVars
      BY <1>2 DEF Tick
    <2>2. UNCHANGED <<application, assignment, attempt, correction,
                      disputeVars, intents>>
      BY <1>2 DEF Tick, claimVars
    <2>3. QED
      BY <1>1, <2>1, <2>2, ClaimFrame, VerdictFrame DEF InductiveInvariant
  <1>3. CASE \E c \in Creators : MissionCall(c)
    BY <1>3, MissionCallInductive
  <1>4. CASE \E c \in Creators, n \in AttemptNumber, b \in Begun :
               ReviewCall(c, n, b)
    BY <1>4, ReviewCallInductive
  <1>5. CASE \E c \in Creators, outcome \in DisputeOutcome :
               ResolveDispute(c, outcome)
    BY <1>5, ResolveDisputeInductive
  <1>6. CASE \E i \in intents : ConsumeFinancialActionIntent(i)
    BY <1>6, ConsumeInductive
  <1>7. CASE UNCHANGED vars
    <2>1. UNCHANGED claimVars
      BY <1>7 DEF vars
    <2>2. UNCHANGED <<application, assignment, attempt, correction,
                      disputeVars, intents>>
      BY <1>7 DEF vars, claimVars, reviewVars
    <2>3. QED
      BY <1>1, <2>1, <2>2, ClaimFrame, VerdictFrame DEF InductiveInvariant
  <1>8. QED
    BY <1>2, <1>3, <1>4, <1>5, <1>6, <1>7 DEF Next

(* The rows of every mission agree at every step: the strengthening from   *)
(* which the safety theorems below follow.                                 *)
THEOREM Invariance == Spec => []InductiveInvariant
  BY InitInductive, NextInductive, PTL DEF Spec

-----------------------------------------------------------------------------
(* The safety properties.                                                  *)

LEMMA SlotAgreementHolds == InductiveInvariant => SlotAgreement
  <1> SUFFICES ASSUME InductiveInvariant, NEW s \in Slots
               PROVE  /\ \A c, d \in Holders(s) : c = d
                      /\ slot[s] = "available" <=> Holders(s) = {}
                      /\ \A c \in Holders(s) :
                           /\ slot[s] = "reserved" <=> reservation[c] = "active"
                           /\ application[c] = IF slot[s] = "reserved"
                                                 THEN "submitted" ELSE slot[s]
    BY DEF SlotAgreement
  <1>1. \A c \in Creators : c \in Holders(s) <=> Holds(c) /\ reserved[c] = s
    BY DEF Holders, Holds
  <1>2. Holders(s) \subseteq Creators
    BY DEF Holders
  <1>3. \A c, d \in Holders(s) : c = d
    BY <1>1, <1>2 DEF InductiveInvariant, ClaimInv
  <1>4. ASSUME NEW c \in Holders(s)
        PROVE  /\ slot[s] # "available"
               /\ slot[s] = "reserved" <=> reservation[c] = "active"
               /\ application[c] = IF slot[s] = "reserved"
                                     THEN "submitted" ELSE slot[s]
    <2>1. /\ c \in Creators
          /\ reservation[c] = ReservationOf(application[c])
          /\ slot[s] = IF application[c] = "submitted"
                         THEN "reserved" ELSE application[c]
      BY <1>1, <1>2 DEF InductiveInvariant, ClaimInv
    <2>2. /\ application[c] \notin {"available", "reserved"}
      BY <2>1 DEF InductiveInvariant, TypeOK, ApplicationStatus, FinalStatus
    <2>3. application[c] \notin {"none", "withdrawn"}
      BY <1>1, <2>1 DEF Holds, LiveReservation, ReservationOf
    <2>4. QED
      BY <2>1, <2>2, <2>3 DEF ReservationOf
  <1>5. slot[s] # "available" => Holders(s) # {}
    BY <1>1 DEF InductiveInvariant, ClaimInv
  <1>6. QED
    BY <1>3, <1>4, <1>5

(* No slot is ever held by two creators, lost while somebody holds it, or  *)
(* out of step with the reservation and the application that hold it.      *)
THEOREM SlotsAgree == Spec => []SlotAgreement
  BY Invariance, SlotAgreementHolds, PTL

LEMMA FinalHolds ==
  ASSUME InductiveInvariant, NEW c \in Creators,
         assignment[c] \in FinalStatus
  PROVE  Holds(c) /\ slot[reserved[c]] = assignment[c]
  <1>1. application[c] = assignment[c]
    BY DEF InductiveInvariant, MissionInv
  <1>2. application[c] \in {"completed", "no_payout"}
    BY <1>1 DEF FinalStatus
  <1>3. Holds(c)
    BY <1>2 DEF InductiveInvariant, ClaimInv, ReservationOf, Holds,
                LiveReservation
  <1>4. QED
    BY <1>1, <1>2, <1>3 DEF InductiveInvariant, ClaimInv

(* Whoever closes a mission, the assignment, the application and the slot  *)
(* take the same outcome.                                                  *)
THEOREM OutcomesAgree == Spec => []OutcomeAgreement
  <1>1. InductiveInvariant => OutcomeAgreement
    BY FinalHolds DEF InductiveInvariant, MissionInv, OutcomeAgreement
  <1>2. QED
    BY <1>1, Invariance, PTL

(* A mission owes exactly one intent, of its outcome, from the moment it   *)
(* closes, and none before.                                                *)
THEOREM OneIntent == Spec => []OneIntentPerOutcome
  <1>1. InductiveInvariant => OneIntentPerOutcome
    <2> SUFFICES ASSUME InductiveInvariant, NEW c \in Creators
                 PROVE  IF assignment[c] \in FinalStatus
                          THEN \E i \in intents :
                                 /\ IntentsOf(c) = {i}
                                 /\ ExpectedFinal(i.action) = assignment[c]
                          ELSE IntentsOf(c) = {}
      BY DEF OneIntentPerOutcome
    <2>1. CASE assignment[c] \in FinalStatus
      <3>1. PICK i \in intents : i.mission = c
        BY <2>1 DEF InductiveInvariant, IntentInv
      <3>2. IntentsOf(c) = {i}
        BY <3>1 DEF IntentsOf, InductiveInvariant, IntentInv
      <3>3. QED
        BY <2>1, <3>1, <3>2 DEF InductiveInvariant, IntentInv
    <2>2. CASE assignment[c] \notin FinalStatus
      BY <2>2 DEF IntentsOf, InductiveInvariant, IntentInv, ExpectedFinal,
                  FinalStatus
    <2>3. QED
      BY <2>1, <2>2
  <1>2. QED
    BY <1>1, Invariance, PTL

(* The allocation of a slot backs at most one intent, over all creators.   *)
THEOREM SlotsSettleOnce == Spec => []SlotSettledOnce
  <1>1. InductiveInvariant => SlotSettledOnce
    <2> SUFFICES ASSUME InductiveInvariant, NEW i \in intents,
                        NEW j \in intents,
                        reserved[i.mission] = reserved[j.mission]
                 PROVE  i = j
      BY DEF SlotSettledOnce
    <2>1. i.mission \in Creators /\ j.mission \in Creators
      BY DEF InductiveInvariant, TypeOK, Intent
    <2>2. Holds(i.mission) /\ Holds(j.mission)
      BY <2>1, FinalHolds
         DEF InductiveInvariant, IntentInv, ExpectedFinal, FinalStatus
    <2>3. i.mission = j.mission
      BY <2>1, <2>2 DEF InductiveInvariant, ClaimInv
    <2>4. QED
      BY <2>3 DEF InductiveInvariant, IntentInv
  <1>2. QED
    BY <1>1, Invariance, PTL

(* Money follows one verdict: a payable an approval, a refund a dispute    *)
(* resolved against the creator.                                           *)
THEOREM VerdictsAgree == Spec => []VerdictAgreement
  <1>1. InductiveInvariant => VerdictAgreement
    <2> SUFFICES ASSUME InductiveInvariant, NEW c \in Creators
        PROVE  /\ \A m, n \in Verdicts(c) : m = n
               /\ Verdicts(c) = {} <=> IntentsOf(c) = {}
               /\ \A i \in IntentsOf(c), n \in Verdicts(c) :
                    /\ i.action = "creator_payable_full"
                         <=> attempt[c][n] \in ApprovedStatus
                    /\ i.source = "dispute_resolution"
                         <=> dispute[c] \in ResolvedStatus
      BY DEF VerdictAgreement
    <2>1. \A m, n \in Verdicts(c) : m = n
      BY DEF InductiveInvariant, ReviewInv
    <2>2. Verdicts(c) = {} <=> assignment[c] \notin FinalStatus
      BY DEF InductiveInvariant, ReviewInv
    <2>3. IntentsOf(c) = {} <=> assignment[c] \notin FinalStatus
      BY DEF IntentsOf, InductiveInvariant, IntentInv, ExpectedFinal,
             FinalStatus
    <2>4. \A i \in IntentsOf(c) : i \in intents /\ i.mission = c
      BY DEF IntentsOf
    <2>5. QED
      BY <2>1, <2>2, <2>3, <2>4 DEF InductiveInvariant, IntentInv
  <1>2. QED
    BY <1>1, Invariance, PTL

(* The second attempt belongs to the one correction round the business     *)
(* asked for.                                                              *)
THEOREM OneCorrection == Spec => []OneCorrectionRound
  BY Invariance, PTL DEF InductiveInvariant
-----------------------------------------------------------------------------
(* Settlement is final.                                                    *)

LEMMA ClosingKeeps ==
  ASSUME InductiveInvariant, NEW c \in Creators, NEW n \in AttemptNumber,
         NEW verdict, NEW final, NEW action, NEW source,
         JointlyEligible(c), CloseMission(c, final),
         AddIntent(c, action, source),
         attempt' = [attempt EXCEPT ![c][n] = verdict],
         \A d \in Creators : dispute[d] \in ResolvedStatus =>
           dispute'[d] = dispute[d]
  PROVE  SettlementKept
  <1> USE DEF InductiveInvariant
  <1>1. assignment[c] = "checked_in" /\ slot[reserved[c]] = "accepted"
    BY DEF JointlyEligible
  <1>2. Verdicts(c) = {}
    BY <1>1 DEF ReviewInv, FinalStatus
  <1>3. \A d \in Creators : d # c =>
          assignment'[d] = assignment[d] /\ attempt'[d] = attempt[d]
    BY DEF CloseMission, TypeOK
  <1>4. \A s \in Slots : slot[s] \in FinalStatus => slot'[s] = slot[s]
    BY <1>1 DEF CloseMission, TypeOK, FinalStatus
  <1>5. intents \subseteq intents'
    BY DEF AddIntent
  <1>6. assignment[c] \notin FinalStatus
    BY <1>1 DEF FinalStatus
  <1>7. QED
    BY <1>2, <1>3, <1>4, <1>5, <1>6 DEF SettlementKept

LEMMA MissionCallKeeps ==
  ASSUME InductiveInvariant, NEW c \in Creators, MissionCall(c)
  PROVE  SettlementKept
  <1> USE DEF InductiveInvariant, TypeOK, SettlementKept, FinalStatus
  <1>1. ASSUME NEW s \in Slots, ApplyForCommunityMission(c, s)
        PROVE  SettlementKept
    BY <1>1 DEF ApplyForCommunityMission, reviewVars, disputeVars
  <1>2. ASSUME AcceptApplication(c) PROVE SettlementKept
    BY <1>2 DEF AcceptApplication, MoveReservedSlot, reviewVars, disputeVars
  <1>3. ASSUME WithdrawApplication(c) PROVE SettlementKept
    BY <1>3 DEF WithdrawApplication, MoveReservedSlot, reviewVars,
                disputeVars
  <1>4. ASSUME ScheduleAcceptedApplication(c) PROVE SettlementKept
    BY <1>4 DEF ScheduleAcceptedApplication, claimVars, reviewVars,
                disputeVars
  <1>5. ASSUME ConsumeChallenge(c) PROVE SettlementKept
    BY <1>5 DEF ConsumeChallenge, claimVars, reviewVars, disputeVars
  <1>6. QED
    BY <1>1, <1>2, <1>3, <1>4, <1>5 DEF MissionCall

(* A step that writes one attempt without a verdict, opens a dispute at    *)
(* most, and leaves slots, assignments and intents alone.                  *)
LEMMA OpenStepKeeps ==
  ASSUME InductiveInvariant, NEW c \in Creators, NEW n \in AttemptNumber,
         NEW to, n \notin Verdicts(c),
         attempt' = [attempt EXCEPT ![c][n] = to],
         \A d \in Creators : dispute[d] \in ResolvedStatus =>
           dispute'[d] = dispute[d],
         UNCHANGED <<slot, assignment, intents>>
  PROVE  SettlementKept
  BY DEF InductiveInvariant, TypeOK, SettlementKept, Verdicts

LEMMA ReviewCallKeeps ==
  ASSUME InductiveInvariant, NEW c \in Creators, NEW n \in AttemptNumber,
         NEW b \in Begun, ReviewCall(c, n, b)
  PROVE  SettlementKept
  <1>1. CASE SubmitComplete(c, n, b)
    <2>1. attempt[c][n] = "none"
      BY <1>1 DEF SubmitComplete, IsFirstAttempt, IsCorrectedAttempt
    <2>2. n \notin Verdicts(c)
      BY <2>1 DEF Verdicts, ApprovedStatus
    <2>3. QED
      BY <1>1, <2>2, OpenStepKeeps
         DEF SubmitComplete, claimVars, disputeVars
  <1>2. CASE RequestCorrection(c, n, b)
    <2>1. n \notin Verdicts(c)
      BY <1>2 DEF RequestCorrection, Verdicts, ApprovedStatus
    <2>2. QED
      BY <1>2, <2>1, OpenStepKeeps
         DEF RequestCorrection, claimVars, disputeVars
  <1>3. ASSUME NEW approved, FinalizeApproval(c, n, approved)
        PROVE  SettlementKept
    BY <1>3, ClosingKeeps DEF FinalizeApproval, disputeVars
  <1>4. ASSUME AddDispute(c, n),
               attempt[c][n] \in {"under_review", "correction_requested"}
        PROVE  SettlementKept
    <2>1. n \notin Verdicts(c)
      BY <1>4 DEF Verdicts, ApprovedStatus
    <2>2. \A d \in Creators : dispute[d] \in ResolvedStatus =>
            dispute'[d] = dispute[d]
      BY <1>4 DEF AddDispute, InductiveInvariant, TypeOK, ResolvedStatus
    <2>3. QED
      BY <1>4, <2>1, <2>2, OpenStepKeeps DEF AddDispute, claimVars
  <1>5. QED
    BY <1>1, <1>2, <1>3, <1>4
       DEF ReviewCall, ApproveSubmission, AutoApproveSubmission,
           OpenBusinessDispute, OpenCreatorDispute

LEMMA ResolveDisputeKeeps ==
  ASSUME InductiveInvariant, NEW c \in Creators,
         NEW outcome \in DisputeOutcome, ResolveDispute(c, outcome)
  PROVE  SettlementKept
  <1>1. disputed[c] \in AttemptNumber
    BY DEF InductiveInvariant, ReviewInv, ResolveDispute
  <1>2. \A d \in Creators : dispute[d] \in ResolvedStatus =>
          dispute'[d] = dispute[d]
    BY DEF ResolveDispute, InductiveInvariant, TypeOK, ResolvedStatus
  <1>3. QED
    BY <1>1, <1>2, ClosingKeeps DEF ResolveDispute

LEMMA ConsumeKeeps ==
  ASSUME InductiveInvariant, NEW i \in intents,
         ConsumeFinancialActionIntent(i)
  PROVE  SettlementKept
  <1> DEFINE posted == [i EXCEPT !.status = "posted"]
  <1>1. /\ posted.mission = i.mission
        /\ posted.action = i.action
        /\ posted.source = i.source
        /\ posted.status = "posted"
    BY Zenon DEF InductiveInvariant, TypeOK, Intent
  <1>2. intents' = (intents \ {i}) \cup {posted}
    BY DEF ConsumeFinancialActionIntent, PostIntent
  <1> HIDE DEF posted
  <1>3. \A j \in intents : \E k \in intents' :
          /\ k.mission = j.mission
          /\ k.action = j.action
          /\ k.source = j.source
          /\ j.status = "posted" => k.status = "posted"
    BY <1>1, <1>2
  <1>4. QED
    BY <1>3 DEF ConsumeFinancialActionIntent, SettlementKept, claimVars,
                reviewVars, disputeVars

(* Once settled, always settled: no closed mission is reopened, no verdict *)
(* changed, no intent dropped, rewritten or posted twice.                  *)
THEOREM SettledForGood == Spec => SettlementIsFinal
  <1>1. InductiveInvariant /\ [Next]_vars => [SettlementKept]_vars
    <2> SUFFICES ASSUME InductiveInvariant, Next PROVE SettlementKept
      OBVIOUS
    <2>1. CASE Tick
      BY <2>1 DEF Tick, SettlementKept, claimVars, disputeVars
    <2>2. CASE \E c \in Creators : MissionCall(c)
      BY <2>2, MissionCallKeeps
    <2>3. CASE \E c \in Creators, n \in AttemptNumber, b \in Begun :
                 ReviewCall(c, n, b)
      BY <2>3, ReviewCallKeeps
    <2>4. CASE \E c \in Creators, outcome \in DisputeOutcome :
                 ResolveDispute(c, outcome)
      BY <2>4, ResolveDisputeKeeps
    <2>5. CASE \E i \in intents : ConsumeFinancialActionIntent(i)
      BY <2>5, ConsumeKeeps
    <2>6. QED
      BY <2>1, <2>2, <2>3, <2>4, <2>5 DEF Next
  <1>2. QED
    BY <1>1, Invariance, PTL DEF Spec, SettlementIsFinal

-----------------------------------------------------------------------------
(* The stores implement the reward obligation: every step of               *)
(* MissionLifecycle moves the obligation of one slot one state forward, or *)
(* moves none.                                                             *)
obligationOf == [s \in Slots |-> ObligationOf(s)]

LEMMA InitSimulation == Init => Obligation!Init
  BY DEF Init, Obligation!Init, ObligationOf, FinalStatus

-----------------------------------------------------------------------------
(* A slot whose status and whose posted intents stay has the same          *)
(* obligation.                                                             *)
LEMMA SameObligation ==
  ASSUME NEW s \in Slots, slot'[s] = slot[s], PostedFor(s)' <=> PostedFor(s)
  PROVE  ObligationOf(s)' = ObligationOf(s)
  BY DEF ObligationOf

LEMMA Stutter ==
  ASSUME \A s \in Slots : ObligationOf(s)' = ObligationOf(s)
  PROVE  UNCHANGED obligationOf
  BY DEF obligationOf

LEMMA OneMoves ==
  ASSUME NEW s \in Slots, NEW from, NEW to,
         ObligationOf(s) = from, ObligationOf(s)' = to,
         \A t \in Slots : t # s => ObligationOf(t)' = ObligationOf(t)
  PROVE  Obligation!Move(s, from, to)
  BY DEF Obligation!Move

(* No step posts an intent, or moves the reservation of one: then what is  *)
(* posted for a slot stays.                                                *)
LEMMA PostedFrame ==
  ASSUME InductiveInvariant, NEW s \in Slots,
         UNCHANGED intents,
         \A i \in intents : reserved'[i.mission] = reserved[i.mission]
  PROVE  PostedFor(s)' <=> PostedFor(s)
  BY DEF PostedFor

LEMMA IntentFinal ==
  ASSUME InductiveInvariant, NEW i \in intents
  PROVE  /\ i.mission \in Creators
         /\ assignment[i.mission] = ExpectedFinal(i.action)
         /\ slot[reserved[i.mission]] = ExpectedFinal(i.action)
         /\ reserved[i.mission] \in Slots
         /\ application[i.mission] = ExpectedFinal(i.action)
  <1>1. i.mission \in Creators
    BY DEF InductiveInvariant, TypeOK, Intent
  <1>2. assignment[i.mission] = ExpectedFinal(i.action)
    BY DEF InductiveInvariant, IntentInv
  <1>3. assignment[i.mission] \in FinalStatus
    BY <1>2 DEF ExpectedFinal, FinalStatus
  <1>4. slot[reserved[i.mission]] = assignment[i.mission]
    BY <1>1, <1>3, FinalHolds
  <1>5. application[i.mission] = assignment[i.mission]
    BY <1>1, <1>3 DEF InductiveInvariant, MissionInv
  <1>6. reserved[i.mission] \in Slots
    BY <1>1, <1>3, <1>5
       DEF InductiveInvariant, ClaimInv, TypeOK, FinalStatus
  <1>7. QED
    BY <1>1, <1>2, <1>4, <1>5, <1>6

-----------------------------------------------------------------------------
LEMMA MissionCallSimulation ==
  ASSUME InductiveInvariant, NEW c \in Creators, MissionCall(c)
  PROVE  Obligation!Next \/ UNCHANGED obligationOf
  <1> USE DEF InductiveInvariant
  <1>1. ASSUME NEW s \in Slots, ApplyForCommunityMission(c, s)
        PROVE  UNCHANGED obligationOf
    <2>1. \A i \in intents : i.mission # c
      BY <1>1, IntentFinal DEF ApplyForCommunityMission, ExpectedFinal
    <2>2. \A i \in intents : reserved'[i.mission] = reserved[i.mission]
      BY <1>1, <2>1, IntentFinal DEF ApplyForCommunityMission, TypeOK
    <2>3. \A t \in Slots : PostedFor(t)' <=> PostedFor(t)
      BY <1>1, <2>2, PostedFrame DEF ApplyForCommunityMission
    <2>4. \A t \in Slots : t # s => slot'[t] = slot[t]
      BY <1>1 DEF ApplyForCommunityMission, TypeOK
    <2>5. slot[s] = "available" /\ slot'[s] = "reserved"
      BY <1>1 DEF ApplyForCommunityMission, TypeOK
    <2>6. ObligationOf(s)' = ObligationOf(s)
      BY <2>5 DEF ObligationOf, FinalStatus
    <2>7. QED
      BY <2>3, <2>4, <2>6, SameObligation, Stutter
  <1>2. ASSUME AcceptApplication(c) PROVE Obligation!Next
    <2>1. PICK s \in Slots : s = reserved[c] /\ slot[s] = "reserved"
      BY <1>2, SubmittedHolds DEF AcceptApplication
    <2>2. \A t \in Slots : slot'[t] = IF t = s THEN "accepted" ELSE slot[t]
      BY <1>2, <2>1 DEF AcceptApplication, MoveReservedSlot, TypeOK
    <2>3. \A t \in Slots : PostedFor(t)' <=> PostedFor(t)
      BY <1>2, PostedFrame DEF AcceptApplication
    <2>4. \A t \in Slots : t # s => ObligationOf(t)' = ObligationOf(t)
      BY <2>2, <2>3, SameObligation
    <2>5. /\ ObligationOf(s) = "reserved"
          /\ ObligationOf(s)' = "completion_pending"
      BY <2>1, <2>2 DEF ObligationOf, FinalStatus
    <2>6. Obligation!Move(s, "reserved", "completion_pending")
      BY <2>4, <2>5, OneMoves
    <2>7. QED
      BY <2>6 DEF Obligation!Next, Obligation!Commit
  <1>3. ASSUME WithdrawApplication(c) PROVE UNCHANGED obligationOf
    <2>1. PICK s \in Slots : s = reserved[c] /\ slot[s] = "reserved"
      BY <1>3, SubmittedHolds DEF WithdrawApplication
    <2>2. \A t \in Slots : slot'[t] = IF t = s THEN "available" ELSE slot[t]
      BY <1>3, <2>1 DEF WithdrawApplication, MoveReservedSlot, TypeOK
    <2>3. \A t \in Slots : PostedFor(t)' <=> PostedFor(t)
      BY <1>3, PostedFrame DEF WithdrawApplication
    <2>4. \A t \in Slots : t # s => ObligationOf(t)' = ObligationOf(t)
      BY <2>2, <2>3, SameObligation
    <2>5. ObligationOf(s)' = ObligationOf(s)
      BY <2>1, <2>2 DEF ObligationOf, FinalStatus
    <2>6. QED
      BY <2>4, <2>5, Stutter
  <1>4. ASSUME UNCHANGED <<claimVars, intents>>
        PROVE  UNCHANGED obligationOf
    BY <1>4, PostedFrame, SameObligation, Stutter DEF claimVars
  <1>5. QED
    BY <1>1, <1>2, <1>3, <1>4
       DEF MissionCall, ScheduleAcceptedApplication, ConsumeChallenge
-----------------------------------------------------------------------------
(* Closing a mission earns or forfeits its slot's reward: the new intent   *)
(* is pending, and no other intent is about the slot.                      *)
LEMMA CloseSimulation ==
  ASSUME InductiveInvariant, NEW c \in Creators, NEW final \in FinalStatus,
         NEW action, NEW source,
         JointlyEligible(c), CloseMission(c, final),
         AddIntent(c, action, source), UNCHANGED reserved
  PROVE  Obligation!Next
  <1> USE DEF InductiveInvariant
  <1>1. PICK s \in Slots : s = reserved[c] /\ slot[s] = "accepted"
    BY AcceptedHolds DEF JointlyEligible
  <1>2. \A t \in Slots : slot'[t] = IF t = s THEN final ELSE slot[t]
    BY <1>1 DEF CloseMission, TypeOK
  <1> DEFINE new == [mission |-> c, action |-> action, source |-> source,
                     status |-> "pending_ledger"]
  <1>3. intents' = intents \cup {new}
    BY DEF AddIntent
  <1>4. new.mission = c /\ new.status = "pending_ledger"
    OBVIOUS
  <1> HIDE DEF new
  <1>5. \A t \in Slots : PostedFor(t)' <=> PostedFor(t)
    BY <1>3, <1>4 DEF PostedFor
  <1>6. ~PostedFor(s)
    BY <1>1, IntentFinal DEF PostedFor, ExpectedFinal
  <1>7. \A t \in Slots : t # s => ObligationOf(t)' = ObligationOf(t)
    BY <1>2, <1>5, SameObligation
  <1>8. ObligationOf(s) = "completion_pending"
    BY <1>1 DEF ObligationOf, FinalStatus
  <1>9. ObligationOf(s)' = IF final = "completed" THEN "earned_full"
                                                  ELSE "cancelled_no_payout"
    BY <1>2, <1>5, <1>6 DEF ObligationOf
  <1>10. \/ Obligation!Move(s, "completion_pending", "earned_full")
         \/ Obligation!Move(s, "completion_pending", "cancelled_no_payout")
    BY <1>7, <1>8, <1>9, OneMoves
  <1>11. QED
    BY <1>10 DEF Obligation!Next, Obligation!Earn, Obligation!Forfeit

(* Posting an intent moves its slot from owed to posted.                   *)
LEMMA ConsumeSimulation ==
  ASSUME InductiveInvariant, SlotSettledOnce, NEW i \in intents,
         ConsumeFinancialActionIntent(i)
  PROVE  Obligation!Next
  <1> DEFINE posted == [i EXCEPT !.status = "posted"]
  <1>1. posted.mission = i.mission /\ posted.status = "posted"
    BY Zenon DEF InductiveInvariant, TypeOK, Intent
  <1>2. intents' = (intents \ {i}) \cup {posted}
    BY DEF ConsumeFinancialActionIntent, PostIntent
  <1> HIDE DEF posted
  <1>3. UNCHANGED <<slot, reserved>> /\ i.status = "pending_ledger"
    BY DEF ConsumeFinancialActionIntent, claimVars
  <1>4. PICK s \in Slots : s = reserved[i.mission]
    BY IntentFinal
  <1>5. slot[s] \in FinalStatus
    BY <1>4, IntentFinal DEF ExpectedFinal, FinalStatus
  <1>6. ~PostedFor(s)
    BY <1>3, <1>4 DEF PostedFor, SlotSettledOnce
  <1>7. PostedFor(s)'
    BY <1>1, <1>2, <1>3, <1>4 DEF PostedFor
  <1>8. \A t \in Slots : t # s => (PostedFor(t)' <=> PostedFor(t))
    BY <1>1, <1>2, <1>3, <1>4 DEF PostedFor
  <1>9. \A t \in Slots : t # s => ObligationOf(t)' = ObligationOf(t)
    BY <1>3, <1>8, SameObligation
  <1>10. CASE slot[s] = "completed"
    <2>1. ObligationOf(s) = "earned_full" /\ ObligationOf(s)' = "payout_ready"
      BY <1>3, <1>6, <1>7, <1>10 DEF ObligationOf, FinalStatus
    <2>2. QED
      BY <1>9, <2>1, OneMoves DEF Obligation!Next, Obligation!PostPayable
  <1>11. CASE slot[s] = "no_payout"
    <2>1. /\ ObligationOf(s) = "cancelled_no_payout"
          /\ ObligationOf(s)' = "business_refund_pending"
      BY <1>3, <1>6, <1>7, <1>11 DEF ObligationOf, FinalStatus
    <2>2. QED
      BY <1>9, <2>1, OneMoves DEF Obligation!Next, Obligation!PostRefund
  <1>12. QED
    BY <1>5, <1>10, <1>11 DEF FinalStatus

LEMMA StillSimulation ==
  ASSUME InductiveInvariant, UNCHANGED <<claimVars, intents>>
  PROVE  UNCHANGED obligationOf
  BY PostedFrame, SameObligation, Stutter DEF claimVars

LEMMA StepSimulation ==
  ASSUME InductiveInvariant, SlotSettledOnce, [Next]_vars
  PROVE  Obligation!Next \/ UNCHANGED obligationOf
  <1>1. CASE \E c \in Creators : MissionCall(c)
    BY <1>1, MissionCallSimulation
  <1>2. ASSUME NEW c \in Creators, NEW n \in AttemptNumber, NEW b \in Begun,
               ReviewCall(c, n, b)
        PROVE  Obligation!Next \/ UNCHANGED obligationOf
    <2>1. ASSUME NEW approved, FinalizeApproval(c, n, approved)
          PROVE  Obligation!Next
      BY <2>1, CloseSimulation DEF FinalizeApproval, FinalStatus
    <2>2. ASSUME UNCHANGED <<claimVars, intents>>
          PROVE  UNCHANGED obligationOf
      BY <2>2, StillSimulation
    <2>3. CASE SubmitComplete(c, n, b) \/ RequestCorrection(c, n, b)
      BY <2>2, <2>3 DEF SubmitComplete, RequestCorrection
    <2>4. CASE OpenBusinessDispute(c, n, b) \/ OpenCreatorDispute(c, n, b)
      BY <2>2, <2>4 DEF OpenBusinessDispute, OpenCreatorDispute, AddDispute
    <2>5. QED
      BY <1>2, <2>1, <2>3, <2>4
         DEF ReviewCall, ApproveSubmission, AutoApproveSubmission
  <1>3. ASSUME NEW c \in Creators, NEW outcome \in DisputeOutcome,
               ResolveDispute(c, outcome)
        PROVE  Obligation!Next
    BY <1>3, CloseSimulation
       DEF ResolveDispute, Resolution, DisputeOutcome, FinalStatus
  <1>4. CASE \E i \in intents : ConsumeFinancialActionIntent(i)
    BY <1>4, ConsumeSimulation
  <1>5. CASE Tick \/ UNCHANGED vars
    <2>1. UNCHANGED <<claimVars, intents>>
      BY <1>5 DEF Tick, vars
    <2>2. QED
      BY <2>1, StillSimulation
  <1>6. QED
    BY <1>1, <1>2, <1>3, <1>4, <1>5 DEF Next

(* The money of every slot follows the obligation's states, forward and    *)
(* one at a time, through whatever the calls on its missions do.           *)
THEOREM ObligationImplemented == Spec => ImplementsObligation
  <1>1. Init => Obligation!Init
    BY InitSimulation
  <1>2. InductiveInvariant /\ SlotSettledOnce /\ [Next]_vars
          => [Obligation!Next]_obligationOf
    BY StepSimulation
  <1>3. QED
    BY <1>1, <1>2, Invariance, SlotsSettleOnce, PTL
       DEF Spec, ImplementsObligation, Obligation!Spec, obligationOf
=============================================================================
