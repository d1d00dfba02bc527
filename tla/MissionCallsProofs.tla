--------------------------- MODULE MissionCallsProofs ---------------------------
(***************************************************************************)
(* Proofs about the calls of one mission at the granularity of row locks:  *)
(* CheckIn, for every number of calls and challenges, every window and     *)
(* every life of a challenge; and SubmissionEvidence, for every number of  *)
(* calls and media.                                                        *)
(***************************************************************************)
EXTENDS MCMissionCalls, TLAPS

-----------------------------------------------------------------------------
(* CheckIn.                                                                *)

(* What End gives back and what it leaves to the other calls.              *)
LEMMA EndReleases ==
  ASSUME TypeOK, LocksAgree, NEW p \in Calls, End(p)
  PROVE  /\ missionLock' \in Calls \cup {NoCall}
         /\ challengeLock' \in [Challenge -> Calls \cup {NoCall}]
         /\ call' = [call EXCEPT ![p] = Idle]
         /\ call' \in [Calls -> [pc : Pc, began : Time,
                                 target : {0} \cup Challenge, expiry : Time]]
         /\ LocksAgree'
  <1> USE DEF TypeOK, End
  <1>1. Idle \in [pc : Pc, began : Time,
                  target : {0} \cup Challenge, expiry : Time]
    BY TimeAssumption DEF Idle, Pc, Time
  <1>2. /\ missionLock' \in Calls \cup {NoCall}
        /\ challengeLock' \in [Challenge -> Calls \cup {NoCall}]
        /\ call' = [call EXCEPT ![p] = Idle]
        /\ call' \in [Calls -> [pc : Pc, began : Time,
                                target : {0} \cup Challenge, expiry : Time]]
    BY <1>1
  <1>3. LocksAgree'
    <2> SUFFICES ASSUME NEW q \in Calls
                 PROVE  /\ call'[q].pc \in {"issue_revoke", "issue_insert",
                                            "consume_check"}
                             <=> missionLock' = q
                        /\ \A c \in Challenge :
                             challengeLock'[c] = q
                               <=> /\ call'[q].pc \in {"issue_insert",
                                        "consume_mission", "consume_check"}
                                   /\ call'[q].target = c
      BY DEF LocksAgree
    <2>1. CASE q = p
      BY <2>1, CallsAssumption DEF Idle
    <2>2. CASE q # p
      BY <2>2, CallsAssumption DEF LocksAgree
    <2> QED
      BY <2>1, <2>2
  <1> QED
    BY <1>2, <1>3

(* A transaction that is rolled back changes no row.                       *)
LEMMA RollbackPreserves ==
  ASSUME InductiveInvariant, NEW p \in Calls, Rollback(p)
  PROVE  InductiveInvariant'
  <1>1. End(p) /\ UNCHANGED <<clock, rows>>
    BY DEF Rollback
  <1>2. TypeOK' /\ LocksAgree'
    BY <1>1, EndReleases DEF InductiveInvariant, TypeOK, rows
  <1>3. CallsAgree'
    BY <1>1 DEF End, InductiveInvariant, TypeOK, CallsAgree, rows, Idle
  <1>4. OneLiveChallenge' /\ CheckedInOnce'
    BY <1>1 DEF InductiveInvariant, OneLiveChallenge, CheckedInOnce, Live,
                rows, Within
  <1> QED
    BY <1>2, <1>3, <1>4 DEF InductiveInvariant

LEMMA BeginPreserves ==
  ASSUME InductiveInvariant, NEW p \in Calls,
         \/ \E expiry \in Time : BeginIssue(p, expiry)
         \/ \E c \in Challenge : BeginConsume(p, c)
  PROVE  InductiveInvariant'
  <1> USE DEF InductiveInvariant, rows, locks
  <1>1. PICK to : /\ call' = [call EXCEPT ![p] = to]
                  /\ to \in [pc : {"issue_mission", "consume_challenge"},
                             began : Time, target : {0} \cup Challenge,
                             expiry : Time]
                  /\ to.pc = "issue_mission" => to.target = 0
                  /\ to.pc = "consume_challenge" => to.target \in 1 .. issued
                  /\ call[p].pc = "idle"
                  /\ UNCHANGED <<clock, rows, locks>>
    BY TimeAssumption DEF BeginIssue, BeginConsume, TypeOK, Challenge, Time
  <1>2. TypeOK'
    BY <1>1 DEF TypeOK, Pc
  <1>3. LocksAgree'
    BY <1>1 DEF TypeOK, LocksAgree
  <1>4. CallsAgree'
    BY <1>1 DEF TypeOK, CallsAgree
  <1>5. OneLiveChallenge' /\ CheckedInOnce'
    BY <1>1 DEF OneLiveChallenge, CheckedInOnce, Live, Within
  <1> QED
    BY <1>2, <1>3, <1>4, <1>5

(* A call that takes a lock, or finds nothing to lock, goes on.            *)
LEMMA LockPreserves ==
  ASSUME InductiveInvariant, NEW p \in Calls,
         \/ LockMissionToIssue(p) \/ RevokeActive(p)
         \/ LockChallenge(p)      \/ LockMissionToConsume(p)
  PROVE  InductiveInvariant'
  <1> USE DEF InductiveInvariant
  <1>r. CASE Rollback(p)
    BY <1>r, RollbackPreserves
  <1>s. CASE ~Rollback(p)
    <2>1. UNCHANGED <<clock, rows>>
      BY <1>s DEF LockMissionToIssue, RevokeActive, LockChallenge,
                  LockMissionToConsume
    <2>2. TypeOK'
      BY <1>s DEF TypeOK, Pc, rows, Goto, LockMissionToIssue, RevokeActive,
                  LockChallenge, LockMissionToConsume
    <2>3. LocksAgree'
      <3>1. CASE LockMissionToIssue(p)
        BY <1>s, <3>1, CallsAssumption
           DEF TypeOK, LocksAgree, Goto, LockMissionToIssue
      <3>2. CASE RevokeActive(p)
        <4>1. PICK to \in {0} \cup Challenge :
                /\ call' = [call EXCEPT ![p].pc = "issue_insert",
                                        ![p].target = to]
                /\ to = 0 => UNCHANGED challengeLock
                /\ to # 0 => /\ challengeLock[to] = NoCall
                             /\ challengeLock' = [challengeLock EXCEPT ![to] = p]
          <5>1. CASE \E c \in Challenge : challenge[c] = "active"
            BY <3>2, <5>1 DEF RevokeActive, Challenge
          <5>2. CASE ~\E c \in Challenge : challenge[c] = "active"
            <6>1. call[p].target = 0 /\ Goto(p, "issue_insert")
              BY <3>2, <5>2 DEF RevokeActive, CallsAgree
            <6>2. call' = [call EXCEPT ![p].pc = "issue_insert",
                                       ![p].target = 0]
              BY <6>1 DEF Goto, TypeOK
            <6> QED
              BY <3>2, <5>2, <6>2 DEF RevokeActive
          <5> QED
            BY <5>1, <5>2
        <4>2. call[p].pc = "issue_revoke" /\ missionLock' = missionLock
          BY <3>2 DEF RevokeActive
        <4>3. /\ call'[p].pc = "issue_insert" /\ call'[p].target = to
              /\ \A q \in Calls \ {p} : call'[q] = call[q]
          <5>1. call' = [call EXCEPT ![p] = [call[p] EXCEPT
                                        !.pc = "issue_insert", !.target = to]]
            BY <4>1
          <5> QED
            BY <5>1 DEF TypeOK
        <4>4. \A c \in Challenge :
                challengeLock'[c] = IF c = to THEN p ELSE challengeLock[c]
          <5>1. challengeLock \in [Challenge -> Calls \cup {NoCall}]
            BY DEF TypeOK
          <5>2. CASE to = 0
            BY <4>1, <5>2 DEF Challenge
          <5>3. CASE to # 0
            BY <4>1, <5>1, <5>3
          <5> QED
            BY <5>2, <5>3
        <4>5. \A c \in Challenge : challengeLock[c] # p
          BY <4>2 DEF LocksAgree
        <4>6. \A q \in Calls : to # 0 => challengeLock[to] # q
          BY <4>1, CallsAssumption
        <4> SUFFICES ASSUME NEW q \in Calls
                     PROVE  /\ call'[q].pc \in {"issue_revoke",
                                   "issue_insert", "consume_check"}
                                 <=> missionLock' = q
                            /\ \A c \in Challenge :
                                 challengeLock'[c] = q
                                   <=> /\ call'[q].pc \in {"issue_insert",
                                            "consume_mission", "consume_check"}
                                       /\ call'[q].target = c
          BY DEF LocksAgree
        <4>7. CASE q = p
          BY <4>2, <4>3, <4>4, <4>5, <4>7 DEF LocksAgree, Challenge
        <4>8. CASE q # p
          BY <4>2, <4>3, <4>4, <4>6, <4>8 DEF LocksAgree, Challenge
        <4> QED
          BY <4>7, <4>8
      <3>3. CASE LockChallenge(p)
        BY <1>s, <3>3, CallsAssumption
           DEF TypeOK, LocksAgree, Goto, LockChallenge
      <3>4. CASE LockMissionToConsume(p)
        BY <1>s, <3>4, CallsAssumption
           DEF TypeOK, LocksAgree, Goto, LockMissionToConsume
      <3> QED
        BY <3>1, <3>2, <3>3, <3>4
    <2>4. CallsAgree'
      <3>1. CASE LockMissionToIssue(p)
        BY <1>s, <2>1, <3>1
           DEF TypeOK, CallsAgree, Goto, LockMissionToIssue, MayIssue, rows
      <3>2. CASE RevokeActive(p)
        BY <2>1, <3>2
           DEF TypeOK, CallsAgree, OneLiveChallenge, Live, Goto, RevokeActive,
               rows, Challenge
      <3>3. CASE LockChallenge(p) \/ LockMissionToConsume(p)
        BY <2>1, <3>3
           DEF TypeOK, CallsAgree, Goto, LockChallenge, LockMissionToConsume,
               rows
      <3> QED
        BY <3>1, <3>2, <3>3
    <2>5. OneLiveChallenge' /\ CheckedInOnce'
      BY <2>1 DEF OneLiveChallenge, CheckedInOnce, Live, Within, rows
    <2> QED
      BY <2>2, <2>3, <2>4, <2>5
  <1> QED
    BY <1>r, <1>s

(* The challenge revoked is the only live one, and while the mission is    *)
(* locked nobody else can issue another or check in.                       *)
LEMMA CommitIssuePreserves ==
  ASSUME InductiveInvariant, NEW p \in Calls, CommitIssue(p)
  PROVE  InductiveInvariant'
  <1> USE DEF InductiveInvariant
  <1>1. /\ issued \in Nat /\ issued < MaxIssued /\ issued + 1 \in Challenge
        /\ call[p].target \in {0} \cup Challenge /\ call[p].expiry \in Time
        /\ call[p].pc = "issue_insert" /\ assignment = "scheduled"
        /\ End(p)
    BY TimeAssumption DEF CommitIssue, CallsAgree, TypeOK, Challenge
  <1>2. \A c \in Challenge :
          challenge'[c] = IF c = issued + 1 THEN "active"
                          ELSE IF c = call[p].target THEN "revoked"
                          ELSE challenge[c]
    BY <1>1 DEF CommitIssue, Revoke, TypeOK, Challenge
  <1>3. challenge' \in [Challenge -> {"none", "active", "revoked", "consumed"}]
    BY <1>1 DEF CommitIssue, Revoke, TypeOK
  <1>4. TypeOK'
    BY <1>1, <1>3, EndReleases, TimeAssumption
       DEF CommitIssue, TypeOK, Challenge
  <1>5. LocksAgree'
    BY <1>1, EndReleases
  <1>6. \A q \in Calls \ {p} :
          call[q].pc \notin {"issue_revoke", "issue_insert", "consume_check"}
    BY <1>1 DEF LocksAgree
  <1>7. CallsAgree'
    <2>1. \A c \in Challenge : challenge'[c] = "none" <=> issued' < c
      BY <1>1, <1>2 DEF CommitIssue, CallsAgree, Challenge
    <2>2. ASSUME NEW q \in Calls, q # p
          PROVE  call'[q] = call[q]
      BY <1>1, <2>2 DEF End, TypeOK
    <2>3. call'[p] = Idle
      BY <1>1 DEF End, TypeOK
    <2> QED
      BY <1>1, <1>6, <2>1, <2>2, <2>3 DEF CommitIssue, CallsAgree, Idle
  <1>8. OneLiveChallenge'
    BY <1>1, <1>2 DEF CommitIssue, OneLiveChallenge, CallsAgree, Live
  <1>9. CheckedInOnce'
    BY <1>1, <1>2 DEF CommitIssue, CheckedInOnce, CallsAgree
  <1> QED
    BY <1>4, <1>5, <1>7, <1>8, <1>9

(* The check-in: the challenge is the live one, hence the last one issued, *)
(* and the mission is still scheduled, hence without an event.             *)
LEMMA CommitConsumePreserves ==
  ASSUME InductiveInvariant, NEW p \in Calls, CommitConsume(p)
  PROVE  InductiveInvariant'
  <1> USE DEF InductiveInvariant
  <1> DEFINE e == [challenge |-> call[p].target, at |-> call[p].began]
  <1>1. /\ call[p].target \in Challenge /\ call[p].target \in 1 .. issued
        /\ call[p].began \in Time /\ e \in [challenge : Challenge, at : Time]
        /\ challenge[call[p].target] = "active" /\ assignment = "scheduled"
        /\ call[p].began < expires[call[p].target] /\ Within(call[p].began)
        /\ End(p)
    BY DEF CommitConsume, Accepts, CallsAgree, TypeOK, Challenge
  <1>2. challenge' = [challenge EXCEPT ![call[p].target] = "consumed"]
    BY DEF CommitConsume
  <1>3. TypeOK'
    BY <1>1, <1>2, EndReleases DEF CommitConsume, TypeOK
  <1>4. LocksAgree'
    BY <1>1, EndReleases
  <1>5. \A q \in Calls \ {p} :
          call[q].pc \notin {"issue_revoke", "issue_insert", "consume_check"}
    BY DEF CommitConsume, LocksAgree
  <1>6. CallsAgree'
    <2>1. \A c \in Challenge : challenge'[c] = "none" <=> issued' < c
      BY <1>1, <1>2 DEF CommitConsume, CallsAgree, TypeOK
    <2>2. ASSUME NEW q \in Calls, q # p
          PROVE  call'[q] = call[q]
      BY <1>1, <2>2 DEF End, TypeOK
    <2>3. call'[p] = Idle
      BY <1>1 DEF End, TypeOK
    <2> QED
      BY <1>1, <1>5, <2>1, <2>2, <2>3 DEF CommitConsume, CallsAgree, Idle
  <1>7. OneLiveChallenge'
    BY <1>1, <1>2 DEF CommitConsume, OneLiveChallenge, Live, TypeOK
  <1>8. CheckedInOnce'
    <2>1. events' = {e} /\ assignment' = "checked_in"
      BY <1>1 DEF CommitConsume, CheckedInOnce
    <2>2. call[p].target = issued
      BY <1>1 DEF OneLiveChallenge, Live
    <2>3. \A c \in Challenge : challenge'[c] = "consumed" <=> c = e.challenge
      BY <1>1, <1>2 DEF CheckedInOnce, TypeOK
    <2>4. /\ e.challenge = issued' /\ e.at < expires'[e.challenge]
          /\ Within(e.at)
      BY <1>1, <2>2 DEF CommitConsume
    <2> HIDE DEF e
    <2> QED
      BY <2>1, <2>3, <2>4 DEF CheckedInOnce, Within
  <1> QED
    BY <1>3, <1>4, <1>6, <1>7, <1>8

LEMMA TickPreserves ==
  ASSUME InductiveInvariant, Tick
  PROVE  InductiveInvariant'
  <1> USE DEF InductiveInvariant, Tick, rows, locks
  <1>1. TypeOK'
    BY TimeAssumption DEF TypeOK, Time
  <1>2. LocksAgree' /\ CallsAgree'
    BY DEF LocksAgree, CallsAgree
  <1>3. OneLiveChallenge' /\ CheckedInOnce'
    BY DEF OneLiveChallenge, CheckedInOnce, Live, Within
  <1> QED
    BY <1>1, <1>2, <1>3

LEMMA InitEstablishes == Init => InductiveInvariant
  <1> SUFFICES ASSUME Init PROVE InductiveInvariant
    OBVIOUS
  <1> USE DEF Init
  <1>1. TypeOK
    BY TimeAssumption DEF TypeOK, Idle, Pc, Time
  <1>2. LocksAgree
    BY CallsAssumption DEF LocksAgree, Idle
  <1>3. CallsAgree
    BY TimeAssumption DEF CallsAgree, Idle, Challenge
  <1>4. OneLiveChallenge /\ CheckedInOnce
    BY DEF OneLiveChallenge, CheckedInOnce, Live
  <1> QED
    BY <1>1, <1>2, <1>3, <1>4 DEF InductiveInvariant

LEMMA NextPreserves == InductiveInvariant /\ [Next]_vars => InductiveInvariant'
  <1> SUFFICES ASSUME InductiveInvariant, [Next]_vars
               PROVE  InductiveInvariant'
    OBVIOUS
  <1>1. CASE Tick
    BY <1>1, TickPreserves
  <1>2. ASSUME NEW p \in Calls,
               \/ \E expiry \in Time : BeginIssue(p, expiry)
               \/ \E c \in Challenge : BeginConsume(p, c)
        PROVE  InductiveInvariant'
    BY <1>2, BeginPreserves
  <1>3. ASSUME NEW p \in Calls, Serve(p)
        PROVE  InductiveInvariant'
    BY <1>3, LockPreserves, CommitIssuePreserves, CommitConsumePreserves,
       RollbackPreserves DEF Serve, RefuseConsume, DetectDeadlock
  <1>4. ASSUME NEW p \in Calls, Abandon(p)
        PROVE  InductiveInvariant'
    BY <1>4, RollbackPreserves DEF Abandon
  <1>5. CASE UNCHANGED vars
    BY <1>5 DEF vars, rows, locks, InductiveInvariant, TypeOK, LocksAgree,
                CallsAgree, OneLiveChallenge, CheckedInOnce, Live, Within
  <1> QED
    BY <1>1, <1>2, <1>3, <1>4, <1>5 DEF Next

-----------------------------------------------------------------------------
(* Rows and locks of a check-in agree at every step of issueChallenge and  *)
(* consumeChallenge, whatever the interleaving.                            *)
THEOREM Invariance == Spec => []InductiveInvariant
  BY InitEstablishes, NextPreserves, PTL DEF Spec

(* Every row and every call in flight keeps a declared shape.              *)
THEOREM TypeCorrect == Spec => []TypeOK
  BY Invariance, PTL DEF InductiveInvariant

(* issueChallenge leaves one live challenge, the last one, although it     *)
(* never locks the challenges it does not find live.                       *)
THEOREM OneLive == Spec => []OneLiveChallenge
  BY Invariance, PTL DEF InductiveInvariant

(* consumeChallenge checks a mission in once, with a live challenge.       *)
THEOREM OneCheckIn == Spec => []CheckedInOnce
  BY Invariance, PTL DEF InductiveInvariant

-----------------------------------------------------------------------------
(* SubmissionEvidence.  A call of one connection leaves what another holds: *)
(* its locks, and the rows under them.                                     *)
EvidenceInvariant == Evidence!InductiveInvariant

EvidenceCalls == [pc : Evidence!Pc, target : Evidence!Attempts,
                  media : SUBSET Assets, late : SUBSET Evidence!Deadlines]

LEMMA AttemptsAreRows ==
  /\ Evidence!Attempts = {"first", "second"}
  /\ "mission" \in Evidence!Rows /\ "first" \in Evidence!Rows /\ "second" \in Evidence!Rows
  /\ Evidence!Prior \subseteq Evidence!Attempts
  /\ Evidence!Idle \in EvidenceCalls
BY DEF Evidence!Attempts, Evidence!Rows, Evidence!Prior, Evidence!Idle, EvidenceCalls, Evidence!Pc

\* What was found clean stays clean.
LEMMA CleanStaysClean ==
  ASSUME NEW media,
         \A a \in media : asset[a] = "verified" => asset'[a] = "verified",
         Evidence!CompleteEvidence(media)
  PROVE  Evidence!CompleteEvidence(media)'
BY DEF Evidence!CompleteEvidence

LEMMA EvidenceBegins == Evidence!Init => EvidenceInvariant
<1> SUFFICES ASSUME Evidence!Init PROVE EvidenceInvariant
  OBVIOUS
<1> USE DEF Evidence!Init
<1>1. Evidence!TypeOK
  BY AttemptsAreRows DEF Evidence!TypeOK, Evidence!MediaAssets, Evidence!SubmissionAttempts,
     Evidence!SubmissionAssets, EvidenceCalls, Evidence!Deadlines
<1>2. Evidence!Prior = {}
  BY DEF Evidence!Prior
<1>3. \A p \in Calls : Evidence!CallHolds(p)
  BY DEF Evidence!CallHolds, Evidence!Idle
<1>4. Evidence!SecondFollows /\ Evidence!EvidenceStaysClean
  BY <1>2 DEF Evidence!SecondFollows, Evidence!EvidenceStaysClean, Evidence!Attempts
<1>5. Evidence!ClosedByOneVerdict
  BY DEF Evidence!ClosedByOneVerdict, Evidence!Final
<1> QED
  BY <1>1, <1>3, <1>4, <1>5 DEF EvidenceInvariant, Evidence!InductiveInvariant

(* Steps of the scanner, the creator's uploads and time: no call is in them. *)
LEMMA UploadStep ==
  ASSUME EvidenceInvariant,
         mission' = mission, attempt' = attempt, submitted' = submitted, dispute' = dispute,
         locked' = locked, decision' = decision,
         asset' \in Evidence!MediaAssets, passed' \subseteq Evidence!Deadlines,
         \A a \in Assets : asset[a] = "verified" => asset'[a] = "verified"
  PROVE  EvidenceInvariant'
<1> USE DEF EvidenceInvariant, Evidence!InductiveInvariant
<1>1. Evidence!TypeOK'
  BY DEF Evidence!TypeOK
<1>2. Evidence!Prior' = Evidence!Prior
  BY DEF Evidence!Prior
<1>3. ASSUME NEW p \in Calls PROVE Evidence!CallHolds(p)'
  <2>1. decision[p].media \subseteq Assets
    BY DEF Evidence!TypeOK
  <2>2. Evidence!CompleteEvidence(decision[p].media) => Evidence!CompleteEvidence(decision[p].media)'
    BY <2>1, CleanStaysClean
  <2> QED
    BY <1>2, <2>2 DEF Evidence!CallHolds
<1>4. Evidence!EvidenceStaysClean'
  <2> SUFFICES ASSUME NEW n \in Evidence!Prior PROVE Evidence!CompleteEvidence(submitted[n])'
    BY <1>2 DEF Evidence!EvidenceStaysClean
  <2>1. submitted[n] \subseteq Assets
    BY AttemptsAreRows DEF Evidence!TypeOK, Evidence!SubmissionAssets
  <2>2. Evidence!CompleteEvidence(submitted[n])
    BY DEF Evidence!EvidenceStaysClean
  <2> QED
    BY <2>1, <2>2, CleanStaysClean
<1>5. Evidence!SecondFollows' /\ Evidence!ClosedByOneVerdict'
  BY <1>2 DEF Evidence!SecondFollows, Evidence!ClosedByOneVerdict
<1> QED
  BY <1>1, <1>3, <1>4, <1>5

(* A step of one call that changes no row: what the others hold stays theirs. *)
LEMMA CallStep ==
  ASSUME EvidenceInvariant, NEW p \in Calls,
         mission' = mission, asset' = asset, attempt' = attempt, submitted' = submitted,
         dispute' = dispute, passed' = passed,
         locked' \in [Evidence!Rows -> Calls \cup {NoCall}],
         decision' \in [Calls -> EvidenceCalls],
         \A q \in Calls \ {p} : decision'[q] = decision[q],
         \A q \in Calls \ {p}, r \in Evidence!Rows : locked[r] = q => locked'[r] = q,
         Evidence!CallHolds(p)'
  PROVE  EvidenceInvariant'
<1> USE DEF EvidenceInvariant, Evidence!InductiveInvariant
<1>1. Evidence!TypeOK'
  BY DEF Evidence!TypeOK, EvidenceCalls
<1>2. Evidence!Prior' = Evidence!Prior
  BY DEF Evidence!Prior
<1>3. \A media : Evidence!CompleteEvidence(media)' <=> Evidence!CompleteEvidence(media)
  BY DEF Evidence!CompleteEvidence
<1>4. ASSUME NEW q \in Calls \ {p} PROVE Evidence!CallHolds(q)'
  <2>1. Evidence!CallHolds(q) /\ decision'[q] = decision[q]
    OBVIOUS
  <2>2. decision[q].target \in Evidence!Rows
    BY AttemptsAreRows DEF Evidence!TypeOK
  <2> QED
    BY <1>2, <1>3, <2>1, <2>2, AttemptsAreRows DEF Evidence!CallHolds
<1>5. Evidence!EvidenceStaysClean'
  BY <1>2, <1>3 DEF Evidence!EvidenceStaysClean
<1>6. Evidence!SecondFollows' /\ Evidence!ClosedByOneVerdict'
  BY <1>2 DEF Evidence!SecondFollows, Evidence!ClosedByOneVerdict
<1> QED
  BY <1>1, <1>4, <1>5, <1>6

\* The end of a transaction gives back its own locks.
LEMMA EndReleasesOwn ==
  ASSUME EvidenceInvariant, NEW p \in Calls, Evidence!End(p)
  PROVE  /\ locked' \in [Evidence!Rows -> Calls \cup {NoCall}]
         /\ decision' \in [Calls -> EvidenceCalls] /\ decision'[p].pc = "idle"
         /\ \A q \in Calls \ {p} : decision'[q] = decision[q]
         /\ \A q \in Calls \ {p}, r \in Evidence!Rows : locked[r] = q => locked'[r] = q
BY AttemptsAreRows DEF EvidenceInvariant, Evidence!InductiveInvariant, Evidence!TypeOK,
   Evidence!End, EvidenceCalls, Evidence!Idle

\* A lock is taken on rows that nobody holds.
LEMMA LockTakesFree ==
  ASSUME EvidenceInvariant, NEW p \in Calls, NEW R, Evidence!Free(R), Evidence!Lock(p, R)
  PROVE  /\ locked' \in [Evidence!Rows -> Calls \cup {NoCall}]
         /\ \A r \in Evidence!Rows : (r \in R \/ locked[r] = p) => locked'[r] = p
         /\ \A q \in Calls \ {p}, r \in Evidence!Rows : locked[r] = q => locked'[r] = q
BY CallsAssumption DEF EvidenceInvariant, Evidence!InductiveInvariant, Evidence!TypeOK,
   Evidence!Free, Evidence!Lock

LEMMA RollbackStep ==
  ASSUME EvidenceInvariant, NEW p \in Calls, Evidence!Rollback(p)
  PROVE  EvidenceInvariant'
<1>1. /\ mission' = mission /\ asset' = asset /\ attempt' = attempt /\ submitted' = submitted
      /\ dispute' = dispute /\ passed' = passed /\ Evidence!End(p)
  BY DEF Evidence!Rollback, Evidence!rows
<1>2. Evidence!CallHolds(p)'
  BY <1>1, EndReleasesOwn DEF Evidence!CallHolds
<1> QED
  BY <1>1, <1>2, EndReleasesOwn, CallStep

LEMMA BeginStep ==
  ASSUME EvidenceInvariant, NEW p \in Calls,
         Evidence!BeginSubmit(p) \/ \E n \in Evidence!Attempts : Evidence!BeginDecision(p, n)
  PROVE  EvidenceInvariant'
<1>1. PICK pc \in {"submit_mission", "decide_attempt"}, n \in Evidence!Attempts : Evidence!Begin(p, pc, n)
  BY AttemptsAreRows DEF Evidence!BeginSubmit, Evidence!BeginDecision
<1> DEFINE c == [pc |-> pc, target |-> n, media |-> {}, late |-> passed]
<1>2. /\ mission' = mission /\ asset' = asset /\ attempt' = attempt /\ submitted' = submitted
      /\ dispute' = dispute /\ passed' = passed /\ locked' = locked
      /\ decision' = [decision EXCEPT ![p] = c]
  BY <1>1 DEF Evidence!Begin, Evidence!rows
<1>3. Evidence!TypeOK
  BY DEF EvidenceInvariant, Evidence!InductiveInvariant
<1>4. c \in EvidenceCalls
  BY <1>3 DEF Evidence!TypeOK, EvidenceCalls, Evidence!Pc
<1>5. /\ decision' \in [Calls -> EvidenceCalls] /\ decision'[p] = c
      /\ \A q \in Calls \ {p} : decision'[q] = decision[q]
      /\ locked' \in [Evidence!Rows -> Calls \cup {NoCall}]
  BY <1>2, <1>3, <1>4 DEF Evidence!TypeOK, EvidenceCalls
<1>6. Evidence!CallHolds(p)'
  BY <1>5 DEF Evidence!CallHolds
<1> QED
  BY <1>2, <1>5, <1>6, CallStep

LEMMA LockMissionStep ==
  ASSUME EvidenceInvariant, NEW p \in Calls,
         Evidence!LockMissionToSubmit(p) \/ Evidence!LockMissionToDecide(p)
  PROVE  EvidenceInvariant'
<1>1. CASE Evidence!Rollback(p)
  BY <1>1, RollbackStep
<1>2. CASE ~ Evidence!Rollback(p)
  <2>1. PICK pc \in {"submit_attempts", "decide"} :
          /\ Evidence!Free({"mission"}) /\ Evidence!Lock(p, {"mission"})
          /\ Evidence!Goto(p, pc)
          /\ pc = "submit_attempts" => mission = "checked_in"
          /\ pc = "decide" => decision[p].pc = "decide_mission"
          /\ UNCHANGED <<Evidence!rows, passed>>
    BY <1>2 DEF Evidence!LockMissionToSubmit, Evidence!LockMissionToDecide
  <2>2. /\ mission' = mission /\ asset' = asset /\ attempt' = attempt /\ submitted' = submitted
        /\ dispute' = dispute /\ passed' = passed
    BY <2>1 DEF Evidence!rows
  <2>3. Evidence!TypeOK /\ Evidence!CallHolds(p)
    BY DEF EvidenceInvariant, Evidence!InductiveInvariant
  <2>4. /\ decision' \in [Calls -> EvidenceCalls]
        /\ decision'[p].pc = pc /\ decision'[p].target = decision[p].target
        /\ \A q \in Calls \ {p} : decision'[q] = decision[q]
    BY <2>1, <2>3 DEF Evidence!TypeOK, EvidenceCalls, Evidence!Goto, Evidence!Pc
  <2>5. /\ locked' \in [Evidence!Rows -> Calls \cup {NoCall}] /\ locked'["mission"] = p
        /\ \A r \in Evidence!Rows : locked[r] = p => locked'[r] = p
        /\ \A q \in Calls \ {p}, r \in Evidence!Rows : locked[r] = q => locked'[r] = q
    BY <2>1, LockTakesFree, AttemptsAreRows
  <2>6. decision[p].target \in Evidence!Rows
    BY <2>3, AttemptsAreRows DEF Evidence!TypeOK
  <2>7. Evidence!CallHolds(p)'
    BY <2>1, <2>2, <2>3, <2>4, <2>5, <2>6 DEF Evidence!CallHolds
  <2> QED
    BY <2>2, <2>4, <2>5, <2>7, CallStep
<1> QED
  BY <1>1, <1>2

LEMMA LockAttemptsStep ==
  ASSUME EvidenceInvariant, NEW p \in Calls, Evidence!LockAttempts(p)
  PROVE  EvidenceInvariant'
<1>1. CASE ~ Evidence!MaySubmit(p)
  BY <1>1, RollbackStep DEF Evidence!LockAttempts
<1>2. CASE Evidence!MaySubmit(p)
  <2>1. /\ decision[p].pc = "submit_attempts"
        /\ Evidence!Free(Evidence!Prior) /\ Evidence!Lock(p, Evidence!Prior)
        /\ Evidence!Goto(p, "submit_assets")
        /\ UNCHANGED <<Evidence!rows, passed>>
    BY <1>2 DEF Evidence!LockAttempts
  <2>2. /\ mission' = mission /\ asset' = asset /\ attempt' = attempt /\ submitted' = submitted
        /\ dispute' = dispute /\ passed' = passed
    BY <2>1 DEF Evidence!rows
  <2>3. Evidence!TypeOK /\ Evidence!CallHolds(p)
    BY DEF EvidenceInvariant, Evidence!InductiveInvariant
  <2>4. /\ decision' \in [Calls -> EvidenceCalls] /\ decision'[p].pc = "submit_assets"
        /\ \A q \in Calls \ {p} : decision'[q] = decision[q]
    BY <2>1, <2>3 DEF Evidence!TypeOK, EvidenceCalls, Evidence!Goto, Evidence!Pc
  <2>5. /\ locked' \in [Evidence!Rows -> Calls \cup {NoCall}]
        /\ \A r \in Evidence!Rows : (r \in Evidence!Prior \/ locked[r] = p) => locked'[r] = p
        /\ \A q \in Calls \ {p}, r \in Evidence!Rows : locked[r] = q => locked'[r] = q
    BY <2>1, LockTakesFree
  <2>6. Evidence!Prior' = Evidence!Prior
    BY <2>2 DEF Evidence!Prior
  <2>7. /\ locked["mission"] = p /\ mission = "checked_in"
        /\ Evidence!Prior # {} => Evidence!Prior = {"first"} /\ attempt["first"] = "correction_requested"
    BY <1>2, <2>1, <2>3 DEF Evidence!CallHolds, Evidence!MaySubmit
  <2>8. Evidence!CallHolds(p)'
    BY <2>2, <2>4, <2>5, <2>6, <2>7, AttemptsAreRows DEF Evidence!CallHolds
  <2> QED
    BY <2>2, <2>4, <2>5, <2>8, CallStep
<1> QED
  BY <1>1, <1>2

LEMMA LockAssetsStep ==
  ASSUME EvidenceInvariant, NEW p \in Calls, NEW media \in SUBSET Assets,
         Evidence!LockAssets(p, media)
  PROVE  EvidenceInvariant'
<1>1. CASE ~ Evidence!CompleteEvidence(media)
  BY <1>1, RollbackStep DEF Evidence!LockAssets
<1>2. CASE Evidence!CompleteEvidence(media)
  <2>1. /\ decision[p].pc = "submit_assets"
        /\ Evidence!Free(media) /\ Evidence!Lock(p, media)
        /\ decision' = [decision EXCEPT ![p].pc = "submit_insert", ![p].media = media]
        /\ UNCHANGED <<Evidence!rows, passed>>
    BY <1>2 DEF Evidence!LockAssets
  <2>2. /\ mission' = mission /\ asset' = asset /\ attempt' = attempt /\ submitted' = submitted
        /\ dispute' = dispute /\ passed' = passed
    BY <2>1 DEF Evidence!rows
  <2>3. Evidence!TypeOK /\ Evidence!CallHolds(p)
    BY DEF EvidenceInvariant, Evidence!InductiveInvariant
  <2>4. /\ decision' \in [Calls -> EvidenceCalls]
        /\ decision'[p].pc = "submit_insert" /\ decision'[p].media = media
        /\ \A q \in Calls \ {p} : decision'[q] = decision[q]
    BY <2>1, <2>3 DEF Evidence!TypeOK, EvidenceCalls, Evidence!Pc
  <2>5. /\ locked' \in [Evidence!Rows -> Calls \cup {NoCall}]
        /\ \A r \in Evidence!Rows : locked[r] = p => locked'[r] = p
        /\ \A q \in Calls \ {p}, r \in Evidence!Rows : locked[r] = q => locked'[r] = q
    BY <2>1, LockTakesFree
  <2>6. Evidence!Prior' = Evidence!Prior
    BY <2>2 DEF Evidence!Prior
  <2>7. Evidence!CompleteEvidence(media)'
    BY <1>2, <2>2 DEF Evidence!CompleteEvidence
  <2>8. Evidence!CallHolds(p)'
    BY <2>1, <2>2, <2>3, <2>4, <2>5, <2>6, <2>7, AttemptsAreRows DEF Evidence!CallHolds
  <2> QED
    BY <2>2, <2>4, <2>5, <2>8, CallStep
<1> QED
  BY <1>1, <1>2

LEMMA LockAttemptStep ==
  ASSUME EvidenceInvariant, NEW p \in Calls, Evidence!LockAttempt(p)
  PROVE  EvidenceInvariant'
<1> DEFINE n == decision[p].target
<1>1. /\ Evidence!Free({n}) /\ Evidence!Lock(p, {n})
      /\ Evidence!Goto(p, "decide_mission")
      /\ UNCHANGED <<Evidence!rows, passed>>
  BY DEF Evidence!LockAttempt
<1>2. /\ mission' = mission /\ asset' = asset /\ attempt' = attempt /\ submitted' = submitted
      /\ dispute' = dispute /\ passed' = passed
  BY <1>1 DEF Evidence!rows
<1>3. Evidence!TypeOK
  BY DEF EvidenceInvariant, Evidence!InductiveInvariant
<1>4. n \in Evidence!Rows
  BY <1>3, AttemptsAreRows DEF Evidence!TypeOK
<1>5. /\ decision' \in [Calls -> EvidenceCalls]
      /\ decision'[p].pc = "decide_mission" /\ decision'[p].target = n
      /\ \A q \in Calls \ {p} : decision'[q] = decision[q]
  BY <1>1, <1>3 DEF Evidence!TypeOK, EvidenceCalls, Evidence!Goto, Evidence!Pc
<1>6. /\ locked' \in [Evidence!Rows -> Calls \cup {NoCall}] /\ locked'[n] = p
      /\ \A q \in Calls \ {p}, r \in Evidence!Rows : locked[r] = q => locked'[r] = q
  BY <1>1, <1>4, LockTakesFree
<1>7. Evidence!CallHolds(p)'
  BY <1>5, <1>6 DEF Evidence!CallHolds
<1> QED
  BY <1>2, <1>5, <1>6, <1>7, CallStep

(* Whoever ends a transaction that holds the mission may change any row: no
   other call relies on one. *)
LEMMA OthersAreOutside ==
  ASSUME EvidenceInvariant, NEW p \in Calls, locked["mission"] = p, Evidence!End(p)
  PROVE  \A q \in Calls : Evidence!CallHolds(q)'
<1> SUFFICES ASSUME NEW q \in Calls PROVE Evidence!CallHolds(q)'
  OBVIOUS
<1>1. CASE q = p
  BY <1>1, EndReleasesOwn DEF Evidence!CallHolds
<1>2. CASE q # p
  <2>1. Evidence!CallHolds(q) /\ decision'[q] = decision[q]
    BY <1>2, EndReleasesOwn DEF EvidenceInvariant, Evidence!InductiveInvariant
  <2>2. decision[q].pc \notin {"submit_attempts", "submit_assets", "submit_insert", "decide"}
    BY <1>2, <2>1 DEF Evidence!CallHolds
  <2>3. decision[q].target \in Evidence!Rows
    BY AttemptsAreRows DEF EvidenceInvariant, Evidence!InductiveInvariant, Evidence!TypeOK
  <2>4. decision[q].pc = "decide_mission" => locked'[decision[q].target] = q
    BY <1>2, <2>1, <2>3, EndReleasesOwn DEF Evidence!CallHolds
  <2> QED
    BY <2>1, <2>2, <2>4 DEF Evidence!CallHolds
<1> QED
  BY <1>1, <1>2

LEMMA CommitSubmitStep ==
  ASSUME EvidenceInvariant, NEW p \in Calls, Evidence!CommitSubmit(p)
  PROVE  EvidenceInvariant'
<1> DEFINE n == IF Evidence!Prior = {} THEN "first" ELSE "second"
<1>1. /\ decision[p].pc = "submit_insert"
      /\ attempt' = [attempt EXCEPT ![n] = "under_review"]
      /\ submitted' = [submitted EXCEPT ![n] = decision[p].media]
      /\ Evidence!End(p)
      /\ mission' = mission /\ asset' = asset /\ dispute' = dispute /\ passed' = passed
  BY DEF Evidence!CommitSubmit
<1>2. /\ Evidence!TypeOK /\ Evidence!CallHolds(p) /\ Evidence!SecondFollows
      /\ Evidence!EvidenceStaysClean /\ Evidence!ClosedByOneVerdict
  BY DEF EvidenceInvariant, Evidence!InductiveInvariant
<1>3. /\ locked["mission"] = p /\ mission = "checked_in"
      /\ Evidence!Prior # {} => Evidence!Prior = {"first"} /\ attempt["first"] = "correction_requested"
      /\ Evidence!CompleteEvidence(decision[p].media)
  BY <1>1, <1>2 DEF Evidence!CallHolds
<1>4. /\ n \in Evidence!Attempts /\ attempt[n] = "none"
      /\ n = "second" => attempt["first"] = "correction_requested"
  <2>1. CASE Evidence!Prior = {}
    BY <2>1, AttemptsAreRows DEF Evidence!Prior
  <2>2. CASE Evidence!Prior # {}
    BY <1>3, <2>2, AttemptsAreRows DEF Evidence!Prior
  <2> QED
    BY <2>1, <2>2
<1> HIDE DEF n
<1>5. /\ attempt \in Evidence!SubmissionAttempts /\ submitted \in Evidence!SubmissionAssets
      /\ decision[p].media \in SUBSET Assets
  BY <1>2 DEF Evidence!TypeOK
<1>6. /\ attempt' \in Evidence!SubmissionAttempts /\ submitted' \in Evidence!SubmissionAssets
      /\ attempt'[n] = "under_review" /\ submitted'[n] = decision[p].media
      /\ \A m \in Evidence!Attempts : m # n => attempt'[m] = attempt[m] /\ submitted'[m] = submitted[m]
  BY <1>1, <1>4, <1>5 DEF Evidence!SubmissionAttempts, Evidence!SubmissionAssets
<1>7. Evidence!TypeOK'
  BY <1>1, <1>2, <1>6, EndReleasesOwn DEF Evidence!TypeOK, EvidenceCalls
<1>8. \A q \in Calls : Evidence!CallHolds(q)'
  BY <1>1, <1>3, OthersAreOutside
<1>9. Evidence!Prior' = Evidence!Prior \cup {n}
  BY <1>4, <1>6 DEF Evidence!Prior
<1>10. Evidence!SecondFollows'
  BY <1>2, <1>4, <1>6, AttemptsAreRows DEF Evidence!SecondFollows
<1>11. Evidence!EvidenceStaysClean'
  <2>1. \A media : Evidence!CompleteEvidence(media)' <=> Evidence!CompleteEvidence(media)
    BY <1>1 DEF Evidence!CompleteEvidence
  <2>2. ASSUME NEW m \in Evidence!Prior' PROVE Evidence!CompleteEvidence(submitted'[m])
    <3>1. CASE m = n
      BY <1>3, <1>6, <3>1
    <3>2. CASE m # n
      <4>1. m \in Evidence!Prior
        BY <1>9, <3>2
      <4> QED
        BY <1>2, <1>6, <3>2, <4>1, AttemptsAreRows DEF Evidence!EvidenceStaysClean
    <3> QED
      BY <3>1, <3>2
  <2> QED
    BY <2>1, <2>2 DEF Evidence!EvidenceStaysClean
<1>12. Evidence!ClosedByOneVerdict'
  <2>1. \A m \in Evidence!Attempts : attempt[m] \notin Evidence!Final
    BY <1>2, <1>3 DEF Evidence!ClosedByOneVerdict
  <2>2. \A m \in Evidence!Attempts : attempt'[m] \notin Evidence!Final
    BY <1>6, <2>1 DEF Evidence!Final
  <2> QED
    BY <1>1, <1>3, <2>2 DEF Evidence!ClosedByOneVerdict
<1> QED
  BY <1>7, <1>8, <1>10, <1>11, <1>12 DEF EvidenceInvariant, Evidence!InductiveInvariant

(* A decision writes one attempt that was submitted, under the locks of that
   attempt and of the mission. *)
LEMMA DecisionStep ==
  ASSUME EvidenceInvariant, NEW p \in Calls, decision[p].pc = "decide",
         NEW status, Evidence!Decide(p, status),
         status \notin {"none", "under_review"},
         attempt[decision[p].target] # "none",
         attempt' \in Evidence!SubmissionAttempts,
         mission' \in {"checked_in", "completed", "no_payout"},
         dispute' \in Evidence!Attempts \cup {"none"},
         asset' = asset, submitted' = submitted, passed' = passed,
         Evidence!ClosedByOneVerdict'
  PROVE  EvidenceInvariant'
<1> DEFINE n == decision[p].target
<1>1. attempt' = [attempt EXCEPT ![n] = status] /\ Evidence!End(p)
  BY DEF Evidence!Decide
<1>2. /\ Evidence!TypeOK /\ Evidence!CallHolds(p) /\ Evidence!SecondFollows
      /\ Evidence!EvidenceStaysClean
  BY DEF EvidenceInvariant, Evidence!InductiveInvariant
<1>3. n \in Evidence!Attempts /\ attempt \in Evidence!SubmissionAttempts
  BY <1>2 DEF Evidence!TypeOK
<1> HIDE DEF n
<1>4. /\ attempt'[n] = status
      /\ \A m \in Evidence!Attempts : m # n => attempt'[m] = attempt[m]
  BY <1>1, <1>3 DEF Evidence!SubmissionAttempts
<1>5. Evidence!TypeOK'
  BY <1>1, <1>2, <1>3, EndReleasesOwn DEF Evidence!TypeOK, EvidenceCalls
<1>6. \A q \in Calls : Evidence!CallHolds(q)'
  BY <1>1, <1>2, OthersAreOutside DEF Evidence!CallHolds
<1>7. Evidence!Prior' = Evidence!Prior
  BY <1>4 DEF Evidence!Prior, n
<1>8. Evidence!SecondFollows'
  BY <1>2, <1>3, <1>4, AttemptsAreRows DEF Evidence!SecondFollows, n
<1>9. Evidence!EvidenceStaysClean'
  BY <1>2, <1>7 DEF Evidence!EvidenceStaysClean, Evidence!CompleteEvidence
<1> QED
  BY <1>5, <1>6, <1>8, <1>9 DEF EvidenceInvariant, Evidence!InductiveInvariant

\* A verdict closes a mission that was open, over the latest attempt or the one
\* the dispute was about.
LEMMA VerdictClosesOnce ==
  ASSUME EvidenceInvariant, NEW p \in Calls, NEW status \in Evidence!Final,
         Evidence!Decide(p, status), mission = "checked_in", mission' # "checked_in",
         dispute' = dispute,
         \/ attempt[decision[p].target] = "under_review"
         \/ dispute = decision[p].target /\ attempt[decision[p].target] = "disputed"
  PROVE  Evidence!ClosedByOneVerdict'
<1> DEFINE n == decision[p].target
<1>1. /\ Evidence!TypeOK /\ Evidence!SecondFollows /\ Evidence!ClosedByOneVerdict
      /\ n \in Evidence!Attempts /\ attempt \in Evidence!SubmissionAttempts
  BY DEF EvidenceInvariant, Evidence!InductiveInvariant, Evidence!TypeOK
<1>2. attempt[n] = "under_review" \/ (dispute = n /\ attempt[n] = "disputed")
  OBVIOUS
<1>3. attempt' = [attempt EXCEPT ![n] = status]
  BY DEF Evidence!Decide
<1> HIDE DEF n
<1>4. /\ attempt'[n] = status
      /\ \A m \in Evidence!Attempts : m # n => attempt'[m] = attempt[m]
  BY <1>1, <1>3 DEF Evidence!SubmissionAttempts
<1>5. \A m \in Evidence!Attempts : attempt[m] \notin Evidence!Final
  BY <1>1 DEF Evidence!ClosedByOneVerdict
<1>6. {m \in Evidence!Attempts : attempt'[m] \in Evidence!Final} = {n}
  BY <1>1, <1>4, <1>5
<1>7. \A m \in Evidence!Prior' \ {n} : m = "first" \/ dispute' = n
  <2> SUFFICES ASSUME NEW m \in Evidence!Prior', m # n, m # "first" PROVE dispute = n
    OBVIOUS
  <2>1. m = "second" /\ n = "first" /\ attempt["second"] # "none"
    BY <1>1, <1>4, AttemptsAreRows DEF Evidence!Prior, Evidence!Attempts
  <2> QED
    BY <1>1, <1>2, <2>1 DEF Evidence!SecondFollows
<1> QED
  BY <1>6, <1>7 DEF Evidence!ClosedByOneVerdict

\* What is not final leaves the verdict as it is.
LEMMA NoVerdict ==
  ASSUME EvidenceInvariant, NEW p \in Calls, NEW status, status \notin Evidence!Final,
         status # "none", attempt[decision[p].target] \notin Evidence!Final \cup {"none"},
         Evidence!Decide(p, status), mission' = mission,
         dispute' = dispute \/ dispute = "none"
  PROVE  Evidence!ClosedByOneVerdict'
<1> DEFINE n == decision[p].target
<1>1. /\ Evidence!TypeOK /\ Evidence!ClosedByOneVerdict
      /\ n \in Evidence!Attempts /\ attempt \in Evidence!SubmissionAttempts
  BY DEF EvidenceInvariant, Evidence!InductiveInvariant, Evidence!TypeOK
<1>2. attempt' = [attempt EXCEPT ![n] = status]
  BY DEF Evidence!Decide
<1>3. attempt[n] \notin Evidence!Final /\ attempt[n] # "none"
  OBVIOUS
<1> HIDE DEF n
<1>4. /\ attempt'[n] = status
      /\ \A m \in Evidence!Attempts : m # n => attempt'[m] = attempt[m]
  BY <1>1, <1>2 DEF Evidence!SubmissionAttempts
<1>5. \A m \in Evidence!Attempts : attempt'[m] \in Evidence!Final <=> attempt[m] \in Evidence!Final
  BY <1>3, <1>4
<1>6. Evidence!Prior' = Evidence!Prior
  BY <1>3, <1>4 DEF Evidence!Prior
<1>7. \A m \in Evidence!Attempts : m # "none"
  BY AttemptsAreRows
<1> DEFINE closed == {m \in Evidence!Attempts : attempt[m] \in Evidence!Final}
<1>8. closed' = closed
  BY <1>5
<1>9. CASE mission = "checked_in"
  BY <1>1, <1>8, <1>9 DEF Evidence!ClosedByOneVerdict
<1>10. CASE mission # "checked_in"
  <2>1. PICK m \in closed : closed = {m} /\ \A k \in Evidence!Prior \ {m} : k = "first" \/ dispute = m
    BY <1>1, <1>10 DEF Evidence!ClosedByOneVerdict
  <2>2. \A k \in Evidence!Prior' \ {m} : k = "first" \/ dispute' = m
    BY <1>6, <1>7, <2>1
  <2> QED
    BY <1>8, <1>10, <2>1, <2>2 DEF Evidence!ClosedByOneVerdict
<1> QED
  BY <1>9, <1>10

LEMMA VerdictStep ==
  ASSUME EvidenceInvariant, NEW p \in Calls,
         \/ Evidence!Approve(p) \/ Evidence!AutoApprove(p)
         \/ \E outcome \in {"earned_full", "no_payout"} : Evidence!ResolveDispute(p, outcome)
  PROVE  EvidenceInvariant'
<1>1. PICK status \in Evidence!Final :
        /\ decision[p].pc = "decide" /\ Evidence!Decide(p, status)
        /\ mission = "checked_in" /\ mission' \in {"completed", "no_payout"}
        /\ asset' = asset /\ submitted' = submitted /\ dispute' = dispute /\ passed' = passed
        /\ \/ attempt[decision[p].target] = "under_review"
           \/ dispute = decision[p].target /\ attempt[decision[p].target] = "disputed"
  BY DEF Evidence!Approve, Evidence!AutoApprove, Evidence!ResolveDispute, Evidence!InReview, Evidence!Final
<1>2. Evidence!TypeOK
  BY DEF EvidenceInvariant, Evidence!InductiveInvariant
<1>3. attempt' \in Evidence!SubmissionAttempts
  BY <1>1, <1>2 DEF Evidence!TypeOK, Evidence!Decide, Evidence!SubmissionAttempts
<1>4. Evidence!ClosedByOneVerdict'
  BY <1>1, VerdictClosesOnce
<1>5. status \notin {"none", "under_review"}
  BY <1>1 DEF Evidence!Final
<1> QED
  BY <1>1, <1>2, <1>3, <1>4, <1>5, DecisionStep DEF Evidence!TypeOK

LEMMA ReplyStep ==
  ASSUME EvidenceInvariant, NEW p \in Calls,
         Evidence!RequestCorrection(p) \/ Evidence!OpenDispute(p)
  PROVE  EvidenceInvariant'
<1>1. PICK status \in {"correction_requested", "disputed"} :
        /\ decision[p].pc = "decide" /\ Evidence!Decide(p, status)
        /\ mission' = mission /\ asset' = asset /\ submitted' = submitted /\ passed' = passed
        /\ dispute' = dispute \/ (dispute = "none" /\ dispute' = decision[p].target)
        /\ attempt[decision[p].target] \in {"under_review", "correction_requested"}
  BY DEF Evidence!RequestCorrection, Evidence!OpenDispute, Evidence!MayOpen, Evidence!InReview
<1>2. Evidence!TypeOK
  BY DEF EvidenceInvariant, Evidence!InductiveInvariant
<1>3. attempt' \in Evidence!SubmissionAttempts
  BY <1>1, <1>2 DEF Evidence!TypeOK, Evidence!Decide, Evidence!SubmissionAttempts
<1>4. status \notin Evidence!Final \cup {"none", "under_review"}
      /\ attempt[decision[p].target] \notin Evidence!Final \cup {"none"}
  BY <1>1 DEF Evidence!Final
<1>5. Evidence!ClosedByOneVerdict'
  BY <1>1, <1>4, NoVerdict
<1> QED
  BY <1>1, <1>2, <1>3, <1>4, <1>5, DecisionStep DEF Evidence!TypeOK

LEMMA EvidenceNext == EvidenceInvariant /\ [Evidence!Next]_(Evidence!vars) => EvidenceInvariant'
<1> SUFFICES ASSUME EvidenceInvariant, [Evidence!Next]_(Evidence!vars) PROVE EvidenceInvariant'
  OBVIOUS
<1>1. Evidence!TypeOK
  BY DEF EvidenceInvariant, Evidence!InductiveInvariant
<1>2. ASSUME NEW d \in Evidence!Deadlines, Evidence!DeadlinePasses(d) PROVE EvidenceInvariant'
  BY <1>1, <1>2, UploadStep DEF Evidence!DeadlinePasses, Evidence!rows, Evidence!TypeOK
<1>3. ASSUME NEW a \in Assets, Evidence!RegisterMediaAsset(a) PROVE EvidenceInvariant'
  <2>1. /\ asset' \in Evidence!MediaAssets
        /\ \A b \in Assets : asset[b] = "verified" => asset'[b] = "verified"
    BY <1>1, <1>3 DEF Evidence!RegisterMediaAsset, Evidence!MediaAssets, Evidence!TypeOK
  <2> QED
    BY <1>1, <1>3, <2>1, UploadStep DEF Evidence!RegisterMediaAsset, Evidence!TypeOK
<1>4. ASSUME NEW a \in Assets, NEW status \in {"verified", "quarantined", "rejected"},
             Evidence!SetMediaAssetValidation(a, status)
      PROVE  EvidenceInvariant'
  <2>1. /\ asset' \in Evidence!MediaAssets
        /\ \A b \in Assets : asset[b] = "verified" => asset'[b] = "verified"
    BY <1>1, <1>4 DEF Evidence!SetMediaAssetValidation, Evidence!MediaAssets, Evidence!TypeOK
  <2> QED
    BY <1>1, <1>4, <2>1, UploadStep DEF Evidence!SetMediaAssetValidation, Evidence!TypeOK
<1>5. ASSUME NEW p \in Calls,
             Evidence!BeginSubmit(p) \/ \E n \in Evidence!Attempts : Evidence!BeginDecision(p, n)
      PROVE  EvidenceInvariant'
  BY <1>5, BeginStep
<1>6. ASSUME NEW p \in Calls, Evidence!Serve(p) PROVE EvidenceInvariant'
  <2>1. CASE Evidence!LockMissionToSubmit(p) \/ Evidence!LockMissionToDecide(p)
    BY <2>1, LockMissionStep
  <2>2. CASE Evidence!LockAttempts(p)
    BY <2>2, LockAttemptsStep
  <2>3. CASE \E media \in SUBSET Assets : Evidence!LockAssets(p, media)
    BY <2>3, LockAssetsStep
  <2>4. CASE Evidence!CommitSubmit(p)
    BY <2>4, CommitSubmitStep
  <2>5. CASE Evidence!LockAttempt(p)
    BY <2>5, LockAttemptStep
  <2>6. CASE \/ Evidence!Approve(p) \/ Evidence!AutoApprove(p)
             \/ \E outcome \in {"earned_full", "no_payout"} : Evidence!ResolveDispute(p, outcome)
    BY <2>6, VerdictStep
  <2>7. CASE Evidence!RequestCorrection(p) \/ Evidence!OpenDispute(p)
    BY <2>7, ReplyStep
  <2>8. CASE Evidence!Refuse(p) \/ Evidence!DetectDeadlock(p)
    BY <2>8, RollbackStep DEF Evidence!Refuse, Evidence!DetectDeadlock
  <2> QED
    BY <1>6, <2>1, <2>2, <2>3, <2>4, <2>5, <2>6, <2>7, <2>8 DEF Evidence!Serve
<1>7. ASSUME NEW p \in Calls, Evidence!Abandon(p) PROVE EvidenceInvariant'
  BY <1>7, RollbackStep DEF Evidence!Abandon
<1>8. CASE UNCHANGED Evidence!vars
  BY <1>1, <1>8, UploadStep DEF Evidence!vars, Evidence!rows, Evidence!TypeOK
<1> QED
  BY <1>2, <1>3, <1>4, <1>5, <1>6, <1>7, <1>8 DEF Evidence!Next

THEOREM EvidenceInvariance == Evidence!Spec => []EvidenceInvariant
BY EvidenceBegins, EvidenceNext, PTL DEF Evidence!Spec

(* Submitted media stay complete and clean, and one verdict closes the mission,
   whatever calls race for it and however many: submitComplete's locks on the
   mission and the attempts, and the check of the mission's status after its
   lock, suffice although the lock orders cross. *)
THEOREM EvidenceAgreesAlways == Evidence!Spec => []EvidenceAgrees
<1>1. EvidenceInvariant => EvidenceAgrees
  BY DEF EvidenceInvariant, Evidence!InductiveInvariant, EvidenceAgrees
<1> QED
  BY <1>1, EvidenceInvariance, PTL

-----------------------------------------------------------------------------
(* The run: a behaviour of either phase is one of both specifications.     *)
THEOREM PhasesAreBoth == MCSpec => Spec /\ Evidence!Spec
<1>1. MCInit => Init /\ Evidence!Init
  BY DEF MCInit
<1>2. [MCNext]_<<phase, vars, evidenceRows>> => [Next]_vars /\ [Evidence!Next]_(Evidence!vars)
  BY DEF MCNext, evidenceRows, Evidence!vars, Evidence!rows
<1> QED
  BY <1>1, <1>2, PTL DEF MCSpec, Spec, Evidence!Spec

=============================================================================
