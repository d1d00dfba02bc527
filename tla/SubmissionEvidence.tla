-------------------------- MODULE SubmissionEvidence --------------------------
(***************************************************************************)
(* The evidence of one checked-in mission and the calls that decide on it: *)
(* submission-store.ts and dispute-store.ts at the granularity of the row  *)
(* locks they take.                                                        *)
(*                                                                         *)
(* submitComplete locks the assignment and then the earlier attempts, a    *)
(* review, an automatic approval and a dispute lock the attempt and then   *)
(* the assignment: the orders cross.  MissionLifecycle takes each of these *)
(* calls as one step; here they wait, deadlock and time out.               *)
(***************************************************************************)
EXTENDS Naturals, FiniteSets

CONSTANTS
  Calls,          \* database connections that may serve a call
  NoCall,         \* "nobody holds the lock"
  Assets,         \* media the creator may upload, each with its key and checksum
  RequiredCount   \* deliverable_requirements.required_count of the media

VARIABLES
  assignment,  \* mission_assignments.status
  asset,       \* media_assets.status of each upload ("none": no row)
  attempt,     \* submission_attempts.status by attempt_number
  submitted,   \* submission_assets: the media of each attempt
  dispute,     \* the attempt the open or resolved dispute is about
  passed,      \* deadlines that lie in the past
  locked,      \* who holds the lock of each row
  call         \* what each connection is doing

rows == <<assignment, asset, attempt, submitted, dispute>>
vars == <<rows, passed, locked, call>>

Attempts  == {"first", "second"}
Deadlines == Attempts \cup {"correction"}
Rows      == {"mission"} \cup Attempts \cup Assets

\* A call: its program counter, the attempt it decides on, the media it submits
\* and the deadlines that had passed at its now(), the start of the transaction.
Idle == [pc |-> "idle", target |-> "first", media |-> {}, late |-> {}]

Pc == {"idle", "submit_mission", "submit_attempts", "submit_assets",
       "submit_insert", "decide_attempt", "decide_mission", "decide"}

Final == {"approved", "auto_approved", "resolved_approved", "resolved_no_payout"}

\* The rows of each table; "none" where there is no row.
MediaAssets ==
  [Assets -> {"none", "pending_scan", "verified", "quarantined", "rejected"}]

SubmissionAttempts ==
  [Attempts -> {"none", "under_review", "disputed", "correction_requested"}
                 \cup Final]

SubmissionAssets == [Attempts -> SUBSET Assets]

TypeOK ==
  /\ assignment \in {"checked_in", "completed", "no_payout"}
  /\ asset      \in MediaAssets
  /\ attempt    \in SubmissionAttempts
  /\ submitted  \in SubmissionAssets
  /\ dispute    \in Attempts \cup {"none"}
  /\ passed     \subseteq Deadlines
  /\ locked     \in [Rows -> Calls \cup {NoCall}]
  /\ call       \in [Calls -> [pc : Pc, target : Attempts,
                               media : SUBSET Assets, late : SUBSET Deadlines]]

Init ==
  /\ assignment = "checked_in"
  /\ asset      = [a \in Assets |-> "none"]
  /\ attempt    = [n \in Attempts |-> "none"]
  /\ submitted  = [n \in Attempts |-> {}]
  /\ dispute    = "none"
  /\ passed     = {}
  /\ locked     = [r \in Rows |-> NoCall]
  /\ call       = [p \in Calls |-> Idle]

-----------------------------------------------------------------------------
Free(R) == \A r \in R : locked[r] = NoCall

Lock(p, R) == locked' = [r \in Rows |-> IF r \in R THEN p ELSE locked[r]]

Goto(p, pc) == call' = [call EXCEPT ![p].pc = pc]

\* COMMIT or ROLLBACK gives every lock of p back.
End(p) ==
  /\ locked' = [r \in Rows |-> IF locked[r] = p THEN NoCall ELSE locked[r]]
  /\ call'   = [call EXCEPT ![p] = Idle]

Rollback(p) == End(p) /\ UNCHANGED <<rows, passed>>

Begin(p, pc, n) ==
  /\ call[p].pc = "idle"
  /\ call' = [call EXCEPT ![p] = [pc |-> pc, target |-> n, media |-> {},
                                  late |-> passed]]
  /\ UNCHANGED <<rows, passed, locked>>

\* A review deadline is set by its submission, the correction's by its request.
DeadlinePasses(d) ==
  /\ d \notin passed
  /\ d \in Attempts => attempt[d] = "under_review"
  /\ d = "correction" => attempt["first"] = "correction_requested"
  /\ passed' = passed \cup {d}
  /\ UNCHANGED <<rows, locked, call>>

-----------------------------------------------------------------------------
(* registerMediaAsset.  It locks the assignment for the length of one      *)
(* insert; a replay finds its row and changes nothing.                     *)
RegisterMediaAsset(a) ==
  /\ Free({"mission"})
  /\ assignment = "checked_in"
  /\ asset[a] = "none"
  /\ asset' = [asset EXCEPT ![a] = "pending_scan"]
  /\ UNCHANGED <<assignment, attempt, submitted, dispute, passed, locked, call>>

\* Mutant: a later scan may revise what an earlier one found.
RescanMediaAsset(a, status) ==
  /\ Free({a})
  /\ asset[a] \in {"pending_scan", "verified"}
  /\ asset' = [asset EXCEPT ![a] = status]
  /\ UNCHANGED <<assignment, attempt, submitted, dispute, passed, locked, call>>

(* setMediaAssetValidation, by the scanner: its first answer is final.     *)
SetMediaAssetValidation(a, status) ==
  /\ Free({a})
  /\ asset[a] = "pending_scan"
  /\ asset' = [asset EXCEPT ![a] = status]
  /\ UNCHANGED <<assignment, attempt, submitted, dispute, passed, locked, call>>

-----------------------------------------------------------------------------
(* submitComplete.                                                         *)

BeginSubmit(p) == Begin(p, "submit_mission", "first")

LockMissionToSubmit(p) ==
  /\ call[p].pc = "submit_mission"
  /\ Free({"mission"})
  /\ IF assignment = "checked_in"
       THEN /\ Lock(p, {"mission"})
            /\ Goto(p, "submit_attempts")
            /\ UNCHANGED <<rows, passed>>
       ELSE Rollback(p)

Prior == {n \in Attempts : attempt[n] # "none"}

\* One correction before its due_at, and never a third attempt.
MaySubmit(p) ==
  Prior # {} => /\ Prior = {"first"}
                /\ attempt["first"] = "correction_requested"
                /\ "correction" \notin call[p].late

(* SELECT ... ORDER BY attempt_number FOR UPDATE, then the checks.         *)
LockAttempts(p) ==
  /\ call[p].pc = "submit_attempts"
  /\ Free(Prior)
  /\ IF MaySubmit(p)
       THEN /\ Lock(p, Prior)
            /\ Goto(p, "submit_assets")
            /\ UNCHANGED <<rows, passed>>
       ELSE Rollback(p)

\* assertCompleteEvidence: the media the checklist asks for, each asset once,
\* each registered for this mission and found clean.
CompleteEvidence(media) ==
  /\ Cardinality(media) = RequiredCount
  /\ \A a \in media : asset[a] = "verified"

LockAssets(p, media) ==
  /\ call[p].pc = "submit_assets"
  /\ Free(media)
  /\ IF CompleteEvidence(media)
       THEN /\ Lock(p, media)
            /\ call' = [call EXCEPT ![p].pc = "submit_insert", ![p].media = media]
            /\ UNCHANGED <<rows, passed>>
       ELSE Rollback(p)

CommitSubmit(p) ==
  LET n == IF Prior = {} THEN "first" ELSE "second" IN
  /\ call[p].pc = "submit_insert"
  /\ attempt'   = [attempt EXCEPT ![n] = "under_review"]
  /\ submitted' = [submitted EXCEPT ![n] = call[p].media]
  /\ End(p)
  /\ UNCHANGED <<assignment, asset, dispute, passed>>

-----------------------------------------------------------------------------
(* reviewSubmission, autoApproveSubmission, openDispute, resolveDispute:   *)
(* SELECT ... FOR UPDATE OF sa, ma (a dispute's own row before, the        *)
(* application and the slot after them meet nobody else), then the checks. *)

BeginDecision(p, n) == n \in Prior /\ Begin(p, "decide_attempt", n)

LockAttempt(p) ==
  /\ call[p].pc = "decide_attempt"
  /\ Free({call[p].target})
  /\ Lock(p, {call[p].target})
  /\ Goto(p, "decide_mission")
  /\ UNCHANGED <<rows, passed>>

LockMissionToDecide(p) ==
  /\ call[p].pc = "decide_mission"
  /\ Free({"mission"})
  /\ Lock(p, {"mission"})
  /\ Goto(p, "decide")
  /\ UNCHANGED <<rows, passed>>

Decide(p, status) ==
  /\ attempt' = [attempt EXCEPT ![call[p].target] = status]
  /\ End(p)

InReview(p) ==
  /\ call[p].pc = "decide"
  /\ attempt[call[p].target] = "under_review"

\* reviewSubmission, approve.
Approve(p) ==
  /\ InReview(p) /\ call[p].target \notin call[p].late
  /\ assignment = "checked_in"
  /\ assignment' = "completed"
  /\ Decide(p, "approved")
  /\ UNCHANGED <<asset, submitted, dispute, passed>>

\* reviewSubmission, request_correction: of the first attempt only.
RequestCorrection(p) ==
  /\ InReview(p) /\ call[p].target \notin call[p].late
  /\ call[p].target = "first"
  /\ Decide(p, "correction_requested")
  /\ UNCHANGED <<assignment, asset, submitted, dispute, passed>>

\* Mutant: looks at the attempt and not at the mission.
ApproveClosedMission(p) ==
  /\ InReview(p) /\ call[p].target \in call[p].late
  /\ assignment' = "completed"
  /\ Decide(p, "auto_approved")
  /\ UNCHANGED <<asset, submitted, dispute, passed>>

\* autoApproveSubmission, once the review is late.
AutoApprove(p) ==
  /\ InReview(p) /\ call[p].target \in call[p].late
  /\ assignment = "checked_in"
  /\ assignment' = "completed"
  /\ Decide(p, "auto_approved")
  /\ UNCHANGED <<asset, submitted, dispute, passed>>

\* assertEvidence: the references a reason asks for must be the mission's own.
\* It always has its checklist and its check-in, and media for a reason about
\* media; a call that cites less, or another mission's, is refused.
Documentable == \E a \in Assets : asset[a] # "none"

\* assertBusinessOpener: an attempt under review, before its deadline.
\* assertCreatorOpener: a correction, before it is due.
MayOpen(p) ==
  \/ InReview(p) /\ call[p].target \notin call[p].late
  \/ /\ call[p].pc = "decide"
     /\ attempt[call[p].target] = "correction_requested"
     /\ "correction" \notin call[p].late

\* The unique index of submission_disputes: one per mission.
OpenDispute(p) ==
  /\ MayOpen(p) /\ Documentable
  /\ dispute = "none"
  /\ dispute' = call[p].target
  /\ Decide(p, "disputed")
  /\ UNCHANGED <<assignment, asset, submitted, passed>>

\* resolveDispute closes the mission along a path of its own.
ResolveDispute(p, outcome) ==
  /\ call[p].pc = "decide"
  /\ attempt[call[p].target] = "disputed" /\ dispute = call[p].target
  /\ assignment = "checked_in"
  /\ assignment' = IF outcome = "earned_full" THEN "completed" ELSE "no_payout"
  /\ Decide(p, IF outcome = "earned_full" THEN "resolved_approved"
                                           ELSE "resolved_no_payout")
  /\ UNCHANGED <<asset, submitted, dispute, passed>>

\* Mutant: answers the caller without the ROLLBACK.
RefuseWithoutRollback(p) ==
  /\ call[p].pc = "decide"
  /\ call' = [call EXCEPT ![p] = Idle]
  /\ UNCHANGED <<rows, passed, locked>>

\* A check of one of these calls threw: for any attempt there is a call that
\* asks for what its status does not allow.
Refuse(p) == call[p].pc = "decide" /\ Rollback(p)

-----------------------------------------------------------------------------
\* The rows p waits for.
Wanted(p) ==
  CASE call[p].pc \in {"submit_mission", "decide_mission"} -> {"mission"}
    [] call[p].pc = "submit_attempts" -> Prior
    [] call[p].pc = "decide_attempt"  -> {call[p].target}
    [] OTHER -> {}

WaitsFor(p, q) == \E r \in Wanted(p) : locked[r] = q

(* PostgreSQL looks for cycles of waiting transactions and cancels one.    *)
DetectDeadlock(p) ==
  /\ \E q \in Calls \ {p} : WaitsFor(p, q) /\ WaitsFor(q, p)
  /\ Rollback(p)

\* A call in flight may lose its client or its connection at any point.
Abandon(p) == call[p].pc # "idle" /\ Rollback(p)

Serve(p) ==
  \/ LockMissionToSubmit(p)
  \/ LockAttempts(p)
  \/ \E media \in SUBSET Assets : LockAssets(p, media)
  \/ CommitSubmit(p)
  \/ LockAttempt(p)
  \/ LockMissionToDecide(p)
  \/ Approve(p)
  \/ RequestCorrection(p)
  \/ AutoApprove(p)
  \/ OpenDispute(p)
  \/ \E outcome \in {"earned_full", "no_payout"} : ResolveDispute(p, outcome)
  \/ Refuse(p)
  \/ DetectDeadlock(p)

Next ==
  \/ \E d \in Deadlines : DeadlinePasses(d)
  \/ \E a \in Assets :
       \/ RegisterMediaAsset(a)
       \/ \E status \in {"verified", "quarantined", "rejected"} :
            SetMediaAssetValidation(a, status)
  \/ \E p \in Calls :
       \/ BeginSubmit(p)
       \/ \E n \in Attempts : BeginDecision(p, n)
       \/ Serve(p)
       \/ Abandon(p)

Spec == Init /\ [][Next]_vars

(* A call that can go on goes on; nothing is assumed of the callers.       *)
FairSpec == Spec /\ \A p \in Calls : SF_vars(Serve(p))
-----------------------------------------------------------------------------
(* What was submitted stays what was checked: every attempt keeps the      *)
(* media its checklist asks for, and none of it is ever found unclean,     *)
(* whatever the scanner answers while the submission runs or afterwards.   *)
EvidenceStaysClean ==
  \A n \in Prior : CompleteEvidence(submitted[n])

(* The mission is closed by one verdict: a review, an automatic approval,  *)
(* a resubmission and a dispute that race for it leave exactly one attempt *)
(* with a final status once it is closed, none before, and that attempt is *)
(* the latest or the one the dispute was about.                            *)
ClosedByOneVerdict ==
  LET closed == {n \in Attempts : attempt[n] \in Final} IN
  IF assignment = "checked_in"
    THEN closed = {}
    ELSE \E n \in closed :
           /\ closed = {n}
           /\ \A m \in Prior \ {n} : m = "first" \/ dispute = n

\* What a call in flight holds, and what it found under its locks.
CallHolds(p) ==
  /\ call[p].pc \in {"submit_attempts", "submit_assets", "submit_insert"} =>
        locked["mission"] = p /\ assignment = "checked_in"
  /\ call[p].pc \in {"submit_assets", "submit_insert"} =>
        /\ \A n \in Prior : locked[n] = p
        /\ Prior # {} => Prior = {"first"} /\ attempt["first"] = "correction_requested"
  /\ call[p].pc = "submit_insert" => CompleteEvidence(call[p].media)
  /\ call[p].pc \in {"decide_mission", "decide"} => locked[call[p].target] = p
  /\ call[p].pc = "decide" => locked["mission"] = p

\* A second attempt follows a correction of the first, which is then decided
\* by a dispute alone.
SecondFollows ==
  attempt["second"] # "none" => attempt["first"] \notin {"none", "under_review"}

\* Rows and calls in flight agree.
InductiveInvariant ==
  /\ TypeOK
  /\ \A p \in Calls : CallHolds(p)
  /\ SecondFollows
  /\ EvidenceStaysClean
  /\ ClosedByOneVerdict

(* Whatever the interleaving, a call does not wait for ever: the crossed   *)
(* lock orders are resolved and every lock is given back.                  *)
EveryCallEnds == \A p \in Calls : call[p].pc # "idle" ~> call[p].pc = "idle"
=============================================================================
