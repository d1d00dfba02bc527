---------------------------- MODULE MCMissionCalls ----------------------------
(***************************************************************************)
(* The calls of one mission at the granularity of row locks, for TLC: its  *)
(* check-in, or the submission of its evidence and the verdict.  The two   *)
(* follow each other and share no challenge or attempt, so a behaviour is  *)
(* one of the phase picked at its start.                                   *)
(***************************************************************************)
EXTENDS CheckIn, TLC

CONSTANTS Assets, RequiredCount

VARIABLES phase, mission, asset, attempt, submitted, dispute, passed, locked, decision

Evidence == INSTANCE SubmissionEvidence WITH assignment <- mission, call <- decision

evidenceRows == <<mission, asset, attempt, submitted, dispute, passed, locked, decision>>

MCInit == phase \in {"check_in", "evidence"} /\ Init /\ Evidence!Init

MCNext ==
  /\ UNCHANGED phase
  /\ \/ phase = "check_in" /\ Next /\ UNCHANGED evidenceRows
     \/ phase = "evidence" /\ Evidence!Next /\ UNCHANGED vars

ServesCheckIn(p)  == phase = "check_in" /\ Serve(p) /\ UNCHANGED <<phase, evidenceRows>>
ServesEvidence(p) == phase = "evidence" /\ Evidence!Serve(p) /\ UNCHANGED <<phase, vars>>

MCSpec ==
  /\ MCInit
  /\ [][MCNext]_<<phase, vars, evidenceRows>>
  /\ \A p \in Calls :
       SF_<<phase, vars, evidenceRows>>(ServesCheckIn(p) \/ ServesEvidence(p))

-----------------------------------------------------------------------------
\* SubmissionEvidence: submitted media stay verified, and one attempt closes
\* the mission.
EvidenceAgrees == Evidence!EvidenceStaysClean /\ Evidence!ClosedByOneVerdict

\* CheckIn and SubmissionEvidence: no call waits for ever.
EveryCallReturns == EveryCallEnds /\ Evidence!EveryCallEnds
=============================================================================
