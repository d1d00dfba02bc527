--------------------------- MODULE LeasedJobsProofs ----------------------------
(* Proofs about LeasedJobs, for every number of jobs, workers, attempts,   *)
(* replays and ticks.                                                      *)
EXTENDS LeasedJobs, FiniteSetTheorems, TLAPS

(* A replay adds its attempts to what was left.                            *)
AttemptsAreCounted ==
  \A j \in Jobs : left[j] <= MaxAttempts + replays[j] * ReplayAttempts

(* A hold that a claimed job's evidence is under was placed after the      *)
(* claim, as long as the lease can still be answered; and only locality    *)
(* evidence is held.                                                       *)
HoldsAreYounger ==
  \A j \in Jobs :
    /\ store # "locality" => hold[j] = 0
    /\ Leased(j) /\ hold[j] > 0 /\ lease[j] > -MaxLockWait =>
         HoldTicks - hold[j] <= LeaseTicks - lease[j]

InductiveInvariant ==
  TypeOK /\ AttemptsAreCounted /\ OutcomeAgreement /\ HoldsAreYounger

-----------------------------------------------------------------------------
\* What is assumed of the constants, number by number.
LEMMA Numbers ==
  ASSUME JobsAssumption
  PROVE  /\ MaxAttempts \in Nat /\ MaxAttempts > 0
         /\ ReplayAttempts \in Nat /\ ReplayAttempts > 0
         /\ LeaseTicks \in Nat /\ LeaseTicks > 0
         /\ RetryTicks \in Nat /\ RetentionTicks \in Nat /\ RetentionTicks > 0
         /\ HoldTicks \in Nat /\ HoldTicks > 0
         /\ MaxReplays \in Nat /\ MaxLockWait \in Nat
  BY DEF JobsAssumption

\* A replay that is not the last one leaves room for its attempts.
LEMMA ReplaysFit ==
  ASSUME NEW n \in Nat, NEW a \in Nat, NEW m \in Nat, n <= m
  PROVE  n * a <= m * a
  OBVIOUS

LEMMA OneMoreReplay ==
  ASSUME NEW n \in Nat, NEW a \in Nat
  PROVE  n * a \in Nat /\ (n + 1) * a = n * a + a
  OBVIOUS

LEMMA Initially == JobsAssumption /\ Init => InductiveInvariant
  <1> SUFFICES ASSUME JobsAssumption, Init PROVE InductiveInvariant
    OBVIOUS
  <1> USE Numbers DEF Init
  <1>1. TypeOK
    BY DEF TypeOK, Deletions, JobStatus, Delivery, JobCheck
  <1>2. AttemptsAreCounted
    BY DEF AttemptsAreCounted
  <1>3. OutcomeAgreement /\ HoldsAreYounger
    BY DEF OutcomeAgreement, HoldsAreYounger, Leased
  <1> QED
    BY <1>1, <1>2, <1>3 DEF InductiveInvariant

-----------------------------------------------------------------------------
\* A job is handed to a worker while it waits or its lease is over.
LEMMA ClaimKeeps ==
  ASSUME JobsAssumption, InductiveInvariant, NEW w \in Workers, NEW j \in Jobs,
         IsDue(j), store = "locality" => hold[j] = 0, HandTo(j, w),
         UNCHANGED <<proof, notice>>
  PROVE  InductiveInvariant'
  <1> USE Numbers DEF InductiveInvariant
  <1>1. /\ IsOpen(j) /\ status[j] \in {"pending", "processing"} /\ w # NoWorker
    BY DEF IsDue, IsOpen, Leased, JobsAssumption
  <1>2. /\ status' = [status EXCEPT ![j] = "processing"]
        /\ left' = [left EXCEPT ![j] = IF left[j] = 0 THEN 0 ELSE left[j] - 1]
        /\ lease' = [lease EXCEPT ![j] = LeaseTicks]
        /\ holder' = [holder EXCEPT ![j] = w]
        /\ UNCHANGED <<store, wait, ender, due, evidence, decided, hold, alerts,
                       replays, enabled, delivery>>
    BY DEF HandTo, proof, notice
  <1>3. \A i \in Jobs : left'[i] \in Nat /\ left'[i] <= left[i]
    BY <1>2 DEF TypeOK
  <1>4. TypeOK'
    <2>1. left' \in [Jobs -> 0 .. MaxAttempts + MaxReplays * ReplayAttempts]
      <3>1. MaxReplays * ReplayAttempts \in Nat
        BY OneMoreReplay
      <3>2. \A i \in Jobs : left'[i] \in 0 .. MaxAttempts + MaxReplays * ReplayAttempts
        BY <1>3, <3>1 DEF TypeOK
      <3> QED
        BY <1>2, <3>2 DEF TypeOK
    <2>2. \A i \in Jobs : JobCheck(i)'
      BY <1>1, <1>2 DEF TypeOK, JobCheck
    <2> QED
      BY <1>2, <2>1, <2>2 DEF TypeOK, JobStatus
  <1>5. AttemptsAreCounted'
    BY <1>2, <1>3, OneMoreReplay DEF AttemptsAreCounted, TypeOK
  <1>6. OutcomeAgreement'
    BY <1>1, <1>2 DEF OutcomeAgreement, TypeOK
  <1>7. HoldsAreYounger'
    BY <1>2 DEF HoldsAreYounger, TypeOK, Leased
  <1> QED
    BY <1>4, <1>5, <1>6, <1>7

(* A worker answers a claim it still has: the job's own rows, whichever    *)
(* queue it is in.                                                         *)
Ends == {"completed", "pending", "dead_letter"}

LEMMA EndRows ==
  ASSUME JobsAssumption, InductiveInvariant, NEW w \in Workers, NEW j \in Jobs,
         NEW b \in 0 .. MaxLockWait, NEW s \in Ends,
         HoldsClaim(j, w, b), EndClaim(j, w, s)
  PROVE  /\ status' = [status EXCEPT ![j] = s] /\ status[j] = "processing"
         /\ status' \in [Jobs -> JobStatus]
         /\ wait' \in [Jobs -> Int] /\ lease' \in [Jobs -> -MaxLockWait .. LeaseTicks]
         /\ {holder, ender}' \subseteq [Jobs -> Workers \cup {NoWorker}]
         /\ \A i \in Jobs : JobCheck(i)'
         /\ UNCHANGED <<store, left>>
         /\ \A i \in Jobs : Leased(i)' => Leased(i) /\ lease'[i] = lease[i]
  <1> USE Numbers DEF InductiveInvariant, TypeOK, HoldsClaim, EndClaim, Ends
  <1>1. status' = [status EXCEPT ![j] = s] /\ status[j] = "processing"
    BY DEF Leased
  <1>2. status' \in [Jobs -> JobStatus]
    BY DEF JobStatus
  <1>3. wait' \in [Jobs -> Int]
    BY DEF JobsAssumption
  <1>4. lease' \in [Jobs -> -MaxLockWait .. LeaseTicks]
    <2>1. 0 \in -MaxLockWait .. LeaseTicks
      OBVIOUS
    <2> QED
      BY <2>1
  <1>5. {holder, ender}' \subseteq [Jobs -> Workers \cup {NoWorker}]
    OBVIOUS
  <1>6. \A i \in Jobs : JobCheck(i)'
    BY DEF JobCheck
  <1>7. \A i \in Jobs : Leased(i)' => Leased(i) /\ lease'[i] = lease[i]
    BY DEF Leased
  <1> QED
    BY <1>1, <1>2, <1>3, <1>4, <1>5, <1>6, <1>7

LEMMA MessageEndKeeps ==
  ASSUME JobsAssumption, InductiveInvariant, NEW w \in Workers, NEW j \in Jobs,
         NEW b \in 0 .. MaxLockWait, NEW r \in BOOLEAN,
         CompleteClaimLocally(j, w, b) \/ RecordClaimFailure(j, w, b, r)
  PROVE  InductiveInvariant'
  <1>1. PICK s \in Ends, outcome \in {"no_send", "failed"} :
          /\ store = "outbox" /\ HoldsClaim(j, w, b) /\ EndClaim(j, w, s) /\ Deliver(j, outcome)
          /\ s = "completed" => outcome = "no_send"
          /\ s = "dead_letter" => outcome = "failed"
    BY DEF CompleteClaimLocally, RecordClaimFailure, Failed, Ends
  <1> USE DEF InductiveInvariant
  <1>2. /\ delivery' = [delivery EXCEPT ![j] = IF enabled THEN outcome ELSE "suppressed"]
        /\ UNCHANGED <<due, evidence, decided, hold, alerts, replays, enabled>>
    BY <1>1 DEF Deliver, proof
  <1>3. TypeOK'
    BY <1>1, <1>2, EndRows DEF TypeOK, Delivery
  <1>4. AttemptsAreCounted'
    BY <1>1, <1>2, EndRows DEF AttemptsAreCounted
  <1>5. OutcomeAgreement'
    <2>1. store \notin Deletions /\ store' = "outbox"
      BY <1>1, EndRows DEF Deletions
    <2>2. status' = [status EXCEPT ![j] = s]
      BY <1>1, EndRows
    <2>3. ASSUME NEW i \in Jobs
          PROVE  /\ status'[i] = "completed" => delivery'[i] \in {"no_send", "suppressed"}
                 /\ status'[i] = "dead_letter" => delivery'[i] \in {"failed", "suppressed"}
      <3>1. CASE i = j
        BY <1>1, <1>2, <2>2, <3>1 DEF TypeOK
      <3>2. CASE i # j
        BY <1>1, <1>2, <2>2, <3>2 DEF TypeOK, OutcomeAgreement
      <3> QED
        BY <3>1, <3>2
    <2> QED
      BY <2>1, <2>3 DEF OutcomeAgreement, Deletions
  <1>6. HoldsAreYounger'
    BY <1>1, <1>2, EndRows DEF HoldsAreYounger
  <1> QED
    BY <1>3, <1>4, <1>5, <1>6

LEMMA DeletionEndKeeps ==
  ASSUME JobsAssumption, InductiveInvariant, NEW w \in Workers, NEW j \in Jobs,
         NEW b \in 0 .. MaxLockWait, NEW r \in BOOLEAN, NEW o \in {"deleted", "failed"},
         \/ CompleteDeletionLocally(j, w, b)
         \/ RecordDeletionFailure(j, w, b, r)
         \/ CompleteEvidenceDeletion(j, w, b, o)
  PROVE  InductiveInvariant'
  <1>1. PICK s \in Ends :
          /\ store \in Deletions /\ HoldsClaim(j, w, b) /\ EndClaim(j, w, s)
          /\ evidence' = IF s = "completed" THEN [evidence EXCEPT ![j] = "deleted"] ELSE evidence
          /\ alerts' = IF s = "dead_letter" THEN alerts \cup {j} ELSE alerts
          /\ UNCHANGED <<due, hold, notice>>
          /\ UNCHANGED decided
    BY DEF CompleteDeletionLocally, RecordDeletionFailure, CompleteEvidenceDeletion,
           AlertOf, Failed, Ends, Deletions
  <1> USE DEF InductiveInvariant
  <1>2. TypeOK'
    BY <1>1, EndRows DEF TypeOK, notice
  <1>3. AttemptsAreCounted'
    BY <1>1, EndRows DEF AttemptsAreCounted, notice
  <1>4. OutcomeAgreement'
    BY <1>1, EndRows DEF OutcomeAgreement, TypeOK, Deletions, Ends
  <1>5. HoldsAreYounger'
    BY <1>1, EndRows DEF HoldsAreYounger
  <1> QED
    BY <1>2, <1>3, <1>4, <1>5

-----------------------------------------------------------------------------
\* A job is opened: an event, a decided review.
LEMMA InsertKeeps ==
  ASSUME JobsAssumption, InductiveInvariant, NEW j \in Jobs, EnqueueEvent(j) \/ ReviewDecided(j)
  PROVE  InductiveInvariant'
  <1> USE Numbers DEF InductiveInvariant
  <1>1. PICK ticks \in Nat : Insert(j, ticks)
    BY DEF EnqueueEvent, ReviewDecided
  <1>2. /\ status[j] = "absent" /\ status' = [status EXCEPT ![j] = "pending"]
        /\ left' = [left EXCEPT ![j] = MaxAttempts]
        /\ wait' = [wait EXCEPT ![j] = ticks]
        /\ UNCHANGED <<store, lease, holder, ender>>
    BY <1>1 DEF Insert
  <1>3. /\ UNCHANGED <<decided, hold, alerts, replays, enabled, delivery>>
        /\ store = "outbox" => UNCHANGED <<due, evidence>>
        /\ store # "outbox" => /\ due' = [due EXCEPT ![j] = RetentionTicks]
                               /\ evidence' = [evidence EXCEPT ![j] = "kept"]
    BY DEF EnqueueEvent, ReviewDecided, Deletions, proof, notice
  <1>4. TypeOK'
    <2>1. /\ MaxReplays * ReplayAttempts \in Nat
          /\ MaxAttempts \in 0 .. MaxAttempts + MaxReplays * ReplayAttempts
      BY OneMoreReplay
    <2>2. left' \in [Jobs -> 0 .. MaxAttempts + MaxReplays * ReplayAttempts]
      BY <1>2, <2>1 DEF TypeOK
    <2>3. \A i \in Jobs : JobCheck(i)'
      BY <1>2 DEF TypeOK, JobCheck
    <2>4. /\ evidence' \in [Jobs -> {"absent", "kept", "deleted"}]
          /\ due' \in [Jobs -> 0 .. RetentionTicks]
      BY <1>3 DEF TypeOK
    <2> QED
      BY <1>2, <1>3, <2>2, <2>3, <2>4 DEF TypeOK, JobStatus
  <1>5. AttemptsAreCounted'
    BY <1>2, <1>3, OneMoreReplay DEF AttemptsAreCounted, TypeOK
  <1>6. OutcomeAgreement'
    BY <1>2, <1>3 DEF OutcomeAgreement, TypeOK, Deletions
  <1>7. HoldsAreYounger'
    BY <1>2, <1>3 DEF HoldsAreYounger, TypeOK, Leased
  <1> QED
    BY <1>4, <1>5, <1>6, <1>7

LEMMA ReplayKeeps ==
  ASSUME JobsAssumption, InductiveInvariant, NEW j \in Jobs, ReplayDeadLetter(j)
  PROVE  InductiveInvariant'
  <1> USE Numbers DEF InductiveInvariant
  <1>1. /\ store = "outbox" /\ status[j] = "dead_letter" /\ replays[j] < MaxReplays
        /\ status' = [status EXCEPT ![j] = "pending"]
        /\ left' = [left EXCEPT ![j] = left[j] + ReplayAttempts]
        /\ wait' = [wait EXCEPT ![j] = 0]
        /\ replays' = [replays EXCEPT ![j] = replays[j] + 1]
        /\ UNCHANGED <<store, lease, holder, ender, due, evidence, decided, hold, alerts,
                       enabled, delivery>>
    BY DEF ReplayDeadLetter, proof
  <1>2. /\ replays[j] \in Nat /\ replays[j] + 1 <= MaxReplays /\ left[j] \in Nat
        /\ left[j] <= MaxAttempts + replays[j] * ReplayAttempts
    BY <1>1 DEF TypeOK, AttemptsAreCounted
  <1>3. left[j] + ReplayAttempts <= MaxAttempts + (replays[j] + 1) * ReplayAttempts
    <2>1. replays[j] * ReplayAttempts \in Nat
          /\ (replays[j] + 1) * ReplayAttempts = replays[j] * ReplayAttempts + ReplayAttempts
      BY <1>2, OneMoreReplay
    <2> QED
      BY <1>2, <2>1
  <1>4. left[j] + ReplayAttempts \in 0 .. MaxAttempts + MaxReplays * ReplayAttempts
    <2>1. (replays[j] + 1) * ReplayAttempts <= MaxReplays * ReplayAttempts
      BY <1>2, ReplaysFit
    <2>2. (replays[j] + 1) * ReplayAttempts \in Nat /\ MaxReplays * ReplayAttempts \in Nat
      BY <1>2, OneMoreReplay
    <2> QED
      BY <1>2, <1>3, <2>1, <2>2
  <1>5. TypeOK'
    <2>1. left' \in [Jobs -> 0 .. MaxAttempts + MaxReplays * ReplayAttempts]
      BY <1>1, <1>4 DEF TypeOK
    <2>2. \A i \in Jobs : JobCheck(i)'
      BY <1>1 DEF TypeOK, JobCheck
    <2>3. replays' \in [Jobs -> 0 .. MaxReplays]
      BY <1>1, <1>2 DEF TypeOK
    <2> QED
      BY <1>1, <2>1, <2>2, <2>3 DEF TypeOK, JobStatus
  <1>6. AttemptsAreCounted'
    BY <1>1, <1>3 DEF AttemptsAreCounted, TypeOK
  <1>7. OutcomeAgreement'
    BY <1>1 DEF OutcomeAgreement, TypeOK, Deletions
  <1>8. HoldsAreYounger'
    BY <1>1 DEF HoldsAreYounger, TypeOK, Leased
  <1> QED
    BY <1>5, <1>6, <1>7, <1>8

\* A decided appeal, a legal hold and its release.
LEMMA OthersKeep ==
  ASSUME JobsAssumption, InductiveInvariant, NEW j \in Jobs,
         AppealDecided(j) \/ CreateLegalHold(j) \/ ReleaseLegalHold(j)
  PROVE  InductiveInvariant'
  <1> USE Numbers DEF InductiveInvariant
  <1>1. /\ UNCHANGED <<store, status, left, lease, holder, ender, evidence, alerts,
                       replays, enabled, delivery>>
        /\ decided' = decided \/ decided' = [decided EXCEPT ![j] = TRUE]
        /\ due' = due \/ due' = [due EXCEPT ![j] = Later(due[j])]
        /\ wait' = wait \/ wait' = [wait EXCEPT ![j] = IF store = "reach" \/ status[j] = "pending"
                                                      THEN Later(wait[j]) ELSE wait[j]]
        /\ \/ hold' = hold
           \/ hold' = [hold EXCEPT ![j] = 0]
           \/ store = "locality" /\ hold' = [hold EXCEPT ![j] = HoldTicks]
    BY DEF AppealDecided, CreateLegalHold, ReleaseLegalHold, TypeOK, job, notice
  <1>2. TypeOK'
    <2>1. due' \in [Jobs -> 0 .. RetentionTicks] /\ wait' \in [Jobs -> Int]
      BY <1>1 DEF TypeOK, Later
    <2>2. hold' \in [Jobs -> 0 .. HoldTicks]
      <3>1. 0 \in 0 .. HoldTicks /\ HoldTicks \in 0 .. HoldTicks
        OBVIOUS
      <3> QED
        BY <1>1, <3>1 DEF TypeOK
    <2>3. decided' \in [Jobs -> BOOLEAN]
      <3>1. TRUE \in BOOLEAN
        OBVIOUS
      <3> QED
        BY <1>1, <3>1, Zenon DEF TypeOK
    <2>4. \A i \in Jobs : JobCheck(i)'
      BY <1>1 DEF TypeOK, JobCheck
    <2> QED
      BY <1>1, <2>1, <2>2, <2>3, <2>4 DEF TypeOK
  <1>3. AttemptsAreCounted'
    BY <1>1 DEF AttemptsAreCounted
  <1>4. OutcomeAgreement'
    BY <1>1 DEF OutcomeAgreement
  <1>5. HoldsAreYounger'
    <2> SUFFICES ASSUME NEW i \in Jobs
                 PROVE  /\ store # "locality" => hold'[i] = 0
                        /\ Leased(i) /\ hold'[i] > 0 /\ lease[i] > -MaxLockWait =>
                             HoldTicks - hold'[i] <= LeaseTicks - lease[i]
      BY <1>1 DEF HoldsAreYounger, Leased
    <2>1. /\ hold[i] \in Nat /\ lease[i] \in Int /\ lease[i] <= LeaseTicks
          /\ store # "locality" => hold[i] = 0
          /\ Leased(i) /\ hold[i] > 0 /\ lease[i] > -MaxLockWait =>
               HoldTicks - hold[i] <= LeaseTicks - lease[i]
      <3>1. hold[i] \in 0 .. HoldTicks /\ lease[i] \in -MaxLockWait .. LeaseTicks
        BY DEF TypeOK
      <3>2. hold[i] \in Nat /\ lease[i] \in Int /\ lease[i] <= LeaseTicks
        BY <3>1
      <3>3. /\ store # "locality" => hold[i] = 0
            /\ Leased(i) /\ hold[i] > 0 /\ lease[i] > -MaxLockWait =>
                 HoldTicks - hold[i] <= LeaseTicks - lease[i]
        BY DEF HoldsAreYounger
      <3> QED
        BY <3>2, <3>3
    <2>2. \/ hold'[i] = hold[i] \/ hold'[i] = 0
          \/ store = "locality" /\ hold'[i] = HoldTicks
      BY <1>1 DEF TypeOK
    <2> QED
      BY <2>1, <2>2
  <1> QED
    BY <1>2, <1>3, <1>4, <1>5

\* Only a preference changes, or nothing does.
LEMMA PreferenceKeeps ==
  ASSUME InductiveInvariant, UNCHANGED <<store, job, proof, replays, delivery>>,
         enabled' \in BOOLEAN
  PROVE  InductiveInvariant'
  <1> USE DEF InductiveInvariant
  <1>1. TypeOK'
    BY DEF TypeOK, JobCheck, job, proof
  <1>2. AttemptsAreCounted' /\ OutcomeAgreement' /\ HoldsAreYounger'
    BY DEF AttemptsAreCounted, OutcomeAgreement, HoldsAreYounger, Leased, job, proof
  <1> QED
    BY <1>1, <1>2

LEMMA TickKeeps ==
  ASSUME JobsAssumption, InductiveInvariant, Tick
  PROVE  InductiveInvariant'
  <1> USE Numbers DEF InductiveInvariant
  <1>1. /\ UNCHANGED <<store, status, left, holder, ender, evidence, decided, alerts,
                       replays, enabled, delivery>>
        /\ wait' = [j \in Jobs |-> IF IsOpen(j) THEN Down(wait[j], Floor(j)) ELSE wait[j]]
        /\ lease' = [j \in Jobs |-> IF Leased(j) THEN Down(lease[j], -MaxLockWait) ELSE 0]
        /\ due' = [j \in Jobs |-> IF evidence[j] = "kept" THEN Down(due[j], 0) ELSE due[j]]
        /\ hold' = [j \in Jobs |-> IF evidence[j] = "kept" THEN Down(hold[j], 0) ELSE hold[j]]
    BY DEF Tick, notice
  <1>2. TypeOK'
    <2>1. wait' \in [Jobs -> Int]
      BY <1>1 DEF TypeOK, Down
    <2>2. lease' \in [Jobs -> -MaxLockWait .. LeaseTicks]
      <3>1. \A j \in Jobs : lease[j] \in -MaxLockWait .. LeaseTicks
        BY DEF TypeOK
      <3>2. \A j \in Jobs : Down(lease[j], -MaxLockWait) \in -MaxLockWait .. LeaseTicks
        BY <3>1 DEF Down
      <3>3. 0 \in -MaxLockWait .. LeaseTicks
        OBVIOUS
      <3> QED
        BY <1>1, <3>2, <3>3
    <2>3. due' \in [Jobs -> 0 .. RetentionTicks] /\ hold' \in [Jobs -> 0 .. HoldTicks]
      BY <1>1 DEF TypeOK, Down
    <2>4. \A i \in Jobs : JobCheck(i)'
      BY <1>1 DEF TypeOK, JobCheck
    <2> QED
      BY <1>1, <2>1, <2>2, <2>3, <2>4 DEF TypeOK
  <1>3. AttemptsAreCounted' /\ OutcomeAgreement'
    BY <1>1 DEF AttemptsAreCounted, OutcomeAgreement
  <1>4. HoldsAreYounger'
    <2> SUFFICES ASSUME NEW j \in Jobs
                 PROVE  /\ store' # "locality" => hold'[j] = 0
                        /\ Leased(j)' /\ hold'[j] > 0 /\ lease'[j] > -MaxLockWait =>
                             HoldTicks - hold'[j] <= LeaseTicks - lease'[j]
      BY DEF HoldsAreYounger
    <2>1. /\ hold[j] \in Nat /\ lease[j] \in Int
          /\ store # "locality" => hold[j] = 0
          /\ Leased(j) /\ hold[j] > 0 /\ lease[j] > -MaxLockWait =>
               HoldTicks - hold[j] <= LeaseTicks - lease[j]
      BY DEF TypeOK, HoldsAreYounger
    <2>2. hold'[j] = hold[j] \/ (hold[j] > 0 /\ hold'[j] = hold[j] - 1)
      BY <1>1, <2>1 DEF Down
    <2>3. Leased(j)' = Leased(j)
      BY <1>1 DEF Leased
    <2>4. Leased(j) => IF lease[j] > -MaxLockWait THEN lease'[j] = lease[j] - 1
                       ELSE lease'[j] = lease[j]
      BY <1>1, <2>1 DEF Down
    <2> QED
      BY <1>1, <2>1, <2>2, <2>3, <2>4
  <1> QED
    BY <1>2, <1>3, <1>4

-----------------------------------------------------------------------------
\* The claim of each queue takes a job that is due, and one without a hold.
LEMMA ClaimedJob ==
  ASSUME NEW w \in Workers, Claim(w)
  PROVE  \E j \in Jobs : /\ IsDue(j) /\ HandTo(j, w) /\ UNCHANGED <<proof, notice>>
                        /\ (store = "locality" => hold[j] = 0)
  BY DEF Claim, ClaimNext, ClaimNextDeletion, ClaimNextEvidenceDeletion, IsFirst, IsUnheldDeletion

LEMMA StepKeeps ==
  ASSUME JobsAssumption, InductiveInvariant, [Next]_vars
  PROVE  InductiveInvariant'
  <1>1. CASE UNCHANGED vars
    <2>1. UNCHANGED <<store, job, proof, replays, delivery>> /\ enabled' = enabled
      BY <1>1 DEF vars, notice
    <2>2. enabled \in BOOLEAN
      BY DEF InductiveInvariant, TypeOK
    <2>3. enabled' \in BOOLEAN
      BY <2>1, <2>2, Zenon
    <2> QED
      BY <2>1, <2>3, PreferenceKeeps
  <1>2. ASSUME NEW j \in Jobs,
               \/ EnqueueEvent(j) \/ ReplayDeadLetter(j) \/ ReviewDecided(j)
               \/ AppealDecided(j) \/ CreateLegalHold(j) \/ ReleaseLegalHold(j)
        PROVE  InductiveInvariant'
    BY <1>2, InsertKeeps, ReplayKeeps, OthersKeep
  <1>3. ASSUME NEW j \in Jobs, NEW w \in Workers, Answer(j, w) PROVE InductiveInvariant'
    BY <1>3, MessageEndKeeps, DeletionEndKeeps DEF Answer
  <1>4. ASSUME NEW w \in Workers, Claim(w) PROVE InductiveInvariant'
    <2>1. PICK j \in Jobs : /\ IsDue(j) /\ HandTo(j, w) /\ UNCHANGED <<proof, notice>>
                            /\ (store = "locality" => hold[j] = 0)
      BY <1>4, ClaimedJob, Zenon
    <2> QED
      BY <2>1, ClaimKeeps
  <1>5. ASSUME NEW e \in BOOLEAN, SetPreference(e) PROVE InductiveInvariant'
    BY <1>5, PreferenceKeeps DEF SetPreference
  <1>6. CASE Tick
    BY <1>6, TickKeeps
  <1> QED
    BY <1>1, <1>2, <1>3, <1>4, <1>5, <1>6 DEF Next

(* The rows of jobs, verifications and messages agree in every state.      *)
THEOREM Invariance == Spec => []InductiveInvariant
  <1>1. Init => InductiveInvariant
    BY Initially, JobsAssumption
  <1>2. InductiveInvariant /\ [Next]_vars => InductiveInvariant'
    BY StepKeeps, JobsAssumption
  <1> QED
    BY <1>1, <1>2, PTL DEF Spec

(* Every row has declared values: the attempts left never exceed those of  *)
(* a new job and its replays, and a job has a lock exactly while it is     *)
(* processed (the CHECKs of the job tables).                               *)
THEOREM TypeCorrect == Spec => []TypeOK
  <1>1. InductiveInvariant => TypeOK
    BY DEF InductiveInvariant
  <1> QED
    BY <1>1, Invariance, PTL

(* Evidence is gone exactly when its deletion is completed, an alert is    *)
(* raised exactly when one is given up, and the end of a message is that   *)
(* of its last delivery, however claims expire and are taken over.         *)
THEOREM OutcomesAgree == Spec => []OutcomeAgreement
  <1>1. InductiveInvariant => OutcomeAgreement
    BY DEF InductiveInvariant
  <1> QED
    BY <1>1, Invariance, PTL

LEMMA DeletedInTime ==
  ASSUME JobsAssumption, InductiveInvariant, [Next]_vars,
         NEW j \in Jobs, evidence[j] = "kept", evidence'[j] = "deleted", hold[j] > 0
  PROVE  HoldTicks - hold[j] < LeaseTicks + MaxLockWait
  <1> USE Numbers DEF InductiveInvariant
  <1>1. PICK w \in Workers, b \in 0 .. MaxLockWait : HoldsClaim(j, w, b)
    <2>1. evidence' # evidence
      OBVIOUS
    <2>2. ~UNCHANGED vars /\ ~(\E w \in Workers : Claim(w)) /\ ~Tick
          /\ ~(\E e \in BOOLEAN : SetPreference(e))
      BY <2>1 DEF vars, proof, Claim, ClaimNext, ClaimNextDeletion, ClaimNextEvidenceDeletion,
                  Tick, SetPreference
    <2>3. PICK i \in Jobs :
            \/ EnqueueEvent(i) \/ ReplayDeadLetter(i) \/ ReviewDecided(i)
            \/ AppealDecided(i) \/ CreateLegalHold(i) \/ ReleaseLegalHold(i)
            \/ \E w \in Workers : Answer(i, w)
      BY <2>2 DEF Next
    <2>4. ~(\/ EnqueueEvent(i) \/ ReplayDeadLetter(i) \/ AppealDecided(i)
            \/ CreateLegalHold(i) \/ ReleaseLegalHold(i))
      BY <2>1 DEF EnqueueEvent, ReplayDeadLetter, AppealDecided, CreateLegalHold,
                  ReleaseLegalHold, proof
    <2>5. ~ReviewDecided(i)
      BY DEF ReviewDecided, TypeOK
    <2>6. PICK w \in Workers, b \in 0 .. MaxLockWait :
            \/ CompleteDeletionLocally(i, w, b)
            \/ \E o \in {"deleted", "failed"} : CompleteEvidenceDeletion(i, w, b, o)
      BY <2>1, <2>3, <2>4, <2>5
      DEF Answer, CompleteClaimLocally, RecordClaimFailure, RecordDeletionFailure, Deliver, proof
    <2>7. evidence' = [evidence EXCEPT ![i] = "deleted"] /\ HoldsClaim(i, w, b)
      BY <2>1, <2>6 DEF CompleteDeletionLocally, CompleteEvidenceDeletion
    <2>8. i = j
      BY <2>7 DEF TypeOK
    <2> QED
      BY <2>7, <2>8
  <1>2. Leased(j) /\ lease[j] + b > 0
    BY <1>1 DEF HoldsClaim
  <1>3. hold[j] \in Nat /\ lease[j] \in Int
    <2>1. hold[j] \in 0 .. HoldTicks /\ lease[j] \in -MaxLockWait .. LeaseTicks
      BY Zenon DEF TypeOK
    <2> QED
      BY <2>1
  <1>4. b \in Nat /\ b <= MaxLockWait /\ lease[j] > -MaxLockWait
    BY <1>2, <1>3
  <1>5. HoldTicks - hold[j] <= LeaseTicks - lease[j]
    BY <1>2, <1>4 DEF HoldsAreYounger
  <1> QED
    BY <1>2, <1>3, <1>4, <1>5

(* completeDeletionLocally does not look at legal holds, but the evidence  *)
(* it deletes under one was claimed before the hold was placed.            *)
THEOREM HeldEvidenceStays == Spec => HeldEvidenceIsKept
  <1> DEFINE Step == \A j \in Jobs :
               evidence[j] = "kept" /\ evidence'[j] = "deleted" /\ hold[j] > 0 =>
                 HoldTicks - hold[j] < LeaseTicks + MaxLockWait
  <1>1. ASSUME JobsAssumption, InductiveInvariant, [Next]_vars,
               NEW j \in Jobs, evidence[j] = "kept", evidence'[j] = "deleted", hold[j] > 0
        PROVE  HoldTicks - hold[j] < LeaseTicks + MaxLockWait
    BY <1>1, DeletedInTime
  <1>2. InductiveInvariant /\ [Next]_vars => [Step]_vars
    BY <1>1, JobsAssumption
  <1> QED
    BY <1>2, Invariance, PTL DEF Spec, HeldEvidenceIsKept

-----------------------------------------------------------------------------
(* A job's row as the promise sees it.                                     *)
States == [j \in Jobs |-> StateOf(j)]

PromiseStep == [Promise!Next]_<<States, holder, ender>>

LEMMA StateOfStatus ==
  ASSUME NEW j
  PROVE  /\ status[j] = "absent" => StateOf(j) = "absent"
         /\ status[j] = "pending" => StateOf(j) = "waiting"
         /\ status[j] = "processing" => StateOf(j) = "taken"
         /\ status[j] = "completed" => StateOf(j) = "done"
         /\ status[j] = "dead_letter" => StateOf(j) = "given up"
  <1>1. status[j] = "absent" => StateOf(j) = "absent"
    BY Zenon DEF StateOf
  <1>2. status[j] = "pending" => StateOf(j) = "waiting"
    BY Zenon DEF StateOf
  <1>3. status[j] = "processing" => StateOf(j) = "taken"
    BY Zenon DEF StateOf
  <1>4. status[j] = "completed" => StateOf(j) = "done"
    BY Zenon DEF StateOf
  <1>5. status[j] = "dead_letter" => StateOf(j) = "given up"
    BY Zenon DEF StateOf
  <1> QED
    BY <1>1, <1>2, <1>3, <1>4, <1>5

LEMMA StateOfNextStatus ==
  ASSUME NEW j
  PROVE  /\ status'[j] = "absent" => StateOf(j)' = "absent"
         /\ status'[j] = "pending" => StateOf(j)' = "waiting"
         /\ status'[j] = "processing" => StateOf(j)' = "taken"
         /\ status'[j] = "completed" => StateOf(j)' = "done"
         /\ status'[j] = "dead_letter" => StateOf(j)' = "given up"
  <1>1. status'[j] = "absent" => StateOf(j)' = "absent"
    BY Zenon DEF StateOf
  <1>2. status'[j] = "pending" => StateOf(j)' = "waiting"
    BY Zenon DEF StateOf
  <1>3. status'[j] = "processing" => StateOf(j)' = "taken"
    BY Zenon DEF StateOf
  <1>4. status'[j] = "completed" => StateOf(j)' = "done"
    BY Zenon DEF StateOf
  <1>5. status'[j] = "dead_letter" => StateOf(j)' = "given up"
    BY Zenon DEF StateOf
  <1> QED
    BY <1>1, <1>2, <1>3, <1>4, <1>5

\* One row changes its status, and no other one.
LEMMA StatesMove ==
  ASSUME TypeOK, NEW j \in Jobs, NEW s, status' = [status EXCEPT ![j] = s]
  PROVE  States' = [States EXCEPT ![j] = StateOf(j)']
  <1>1. \A i \in Jobs \ {j} : StateOf(i)' = StateOf(i)
    <2>1. \A i \in Jobs \ {j} : status'[i] = status[i]
      BY DEF TypeOK
    <2> QED
      BY <2>1, Zenon DEF StateOf
  <1> QED
    BY <1>1 DEF States

LEMMA PromiseStutters ==
  ASSUME UNCHANGED <<status, holder, ender>>
  PROVE  PromiseStep
  <1>1. States' = States
    <2>1. \A j \in Jobs : StateOf(j)' = StateOf(j)
      BY Zenon DEF StateOf
    <2> QED
      BY <2>1 DEF States
  <1> QED
    BY <1>1 DEF PromiseStep

LEMMA HandImplements ==
  ASSUME TypeOK, NEW w \in Workers, NEW j \in Jobs, IsDue(j), HandTo(j, w)
  PROVE  PromiseStep
  <1>1. status[j] \in {"pending", "processing"}
    BY DEF IsDue, Leased
  <1>2. /\ status' = [status EXCEPT ![j] = "processing"] /\ status'[j] = "processing"
        /\ holder' = [holder EXCEPT ![j] = w] /\ ender' = ender
    BY DEF HandTo, TypeOK
  <1>3. States' = [States EXCEPT ![j] = "taken"] /\ States[j] \in {"waiting", "taken"}
    BY <1>1, <1>2, StatesMove, StateOfStatus, StateOfNextStatus DEF States
  <1>4. Promise!Hand(j, w)
    BY <1>2, <1>3 DEF Promise!Hand, Promise!MoveTo, States
  <1> QED
    BY <1>4 DEF PromiseStep, Promise!Next

LEMMA EndImplements ==
  ASSUME TypeOK, NEW w \in Workers, NEW j \in Jobs, NEW b, NEW s \in Ends,
         HoldsClaim(j, w, b), EndClaim(j, w, s)
  PROVE  PromiseStep
  <1>1. status[j] = "processing" /\ holder[j] = w
    BY DEF HoldsClaim, Leased
  <1>2. /\ status' = [status EXCEPT ![j] = s] /\ status'[j] = s
        /\ holder' = [holder EXCEPT ![j] = NoWorker] /\ ender' = [ender EXCEPT ![j] = w]
    BY DEF EndClaim, TypeOK
  <1>3. PICK r \in {"done", "waiting", "given up"} : StateOf(j)' = r
    BY <1>2, StateOfNextStatus DEF Ends
  <1>4. States' = [States EXCEPT ![j] = r] /\ States[j] = "taken"
    BY <1>1, <1>2, <1>3, StatesMove, StateOfStatus DEF States
  <1>5. Promise!EndAs(j, w, r)
    BY <1>1, <1>2, <1>4 DEF Promise!EndAs, Promise!MoveTo, States
  <1> QED
    BY <1>5 DEF PromiseStep, Promise!Next

LEMMA OpenImplements ==
  ASSUME TypeOK, NEW j \in Jobs, status[j] \in {"absent", "dead_letter"},
         status' = [status EXCEPT ![j] = "pending"], UNCHANGED <<holder, ender>>
  PROVE  PromiseStep
  <1>1. status'[j] = "pending"
    BY DEF TypeOK
  <1>2. States' = [States EXCEPT ![j] = "waiting"] /\ States[j] \in {"absent", "given up"}
    BY <1>1, StatesMove, StateOfStatus, StateOfNextStatus DEF States
  <1>3. holder' = [holder EXCEPT ![j] = NoWorker]
    BY DEF TypeOK, JobCheck
  <1>4. Promise!Open(j)
    BY <1>2, <1>3 DEF Promise!Open, Promise!MoveTo, States
  <1> QED
    BY <1>4 DEF PromiseStep, Promise!Next

LEMMA StepImplements ==
  ASSUME TypeOK, [Next]_vars
  PROVE  PromiseStep
  <1>1. CASE UNCHANGED vars
    BY <1>1, PromiseStutters DEF vars, job
  <1>2. ASSUME NEW j \in Jobs, EnqueueEvent(j) \/ ReviewDecided(j) \/ ReplayDeadLetter(j)
        PROVE  PromiseStep
    BY <1>2, OpenImplements DEF EnqueueEvent, ReviewDecided, ReplayDeadLetter, Insert
  <1>3. ASSUME NEW j \in Jobs, AppealDecided(j) \/ CreateLegalHold(j) \/ ReleaseLegalHold(j)
        PROVE  PromiseStep
    BY <1>3, PromiseStutters DEF AppealDecided, CreateLegalHold, ReleaseLegalHold, job
  <1>4. ASSUME NEW j \in Jobs, NEW w \in Workers, Answer(j, w) PROVE PromiseStep
    <2>1. PICK b \in 0 .. MaxLockWait :
            \/ CompleteClaimLocally(j, w, b)
            \/ CompleteDeletionLocally(j, w, b)
            \/ \E o \in {"deleted", "failed"} : CompleteEvidenceDeletion(j, w, b, o)
            \/ \E r \in BOOLEAN :
                 RecordClaimFailure(j, w, b, r) \/ RecordDeletionFailure(j, w, b, r)
      BY <1>4 DEF Answer
    <2>2. CASE CompleteClaimLocally(j, w, b) \/ CompleteDeletionLocally(j, w, b)
      BY <2>2, EndImplements DEF CompleteClaimLocally, CompleteDeletionLocally, Ends
    <2>3. ASSUME NEW o, CompleteEvidenceDeletion(j, w, b, o) PROVE PromiseStep
      <3>1. PICK s \in Ends : HoldsClaim(j, w, b) /\ EndClaim(j, w, s)
        BY <2>3 DEF CompleteEvidenceDeletion, Failed, Ends
      <3> QED
        BY <3>1, EndImplements
    <2>4. ASSUME NEW r, RecordClaimFailure(j, w, b, r) \/ RecordDeletionFailure(j, w, b, r)
          PROVE  PromiseStep
      <3>1. Failed(j, r) \in Ends
        BY DEF Failed, Ends
      <3> QED
        BY <2>4, <3>1, EndImplements DEF RecordClaimFailure, RecordDeletionFailure
    <2> QED
      BY <2>1, <2>2, <2>3, <2>4
  <1>5. ASSUME NEW w \in Workers, Claim(w) PROVE PromiseStep
    BY <1>5, ClaimedJob, HandImplements
  <1>6. ASSUME NEW e \in BOOLEAN, SetPreference(e) PROVE PromiseStep
    BY <1>6, PromiseStutters DEF SetPreference, job
  <1>7. CASE Tick
    BY <1>7, PromiseStutters DEF Tick
  <1> QED
    BY <1>1, <1>2, <1>3, <1>4, <1>5, <1>6, <1>7 DEF Next

(* Each queue keeps the promise about a job: whatever leases run out and   *)
(* however late a worker answers, only the one the job was handed to last  *)
(* ends it (selectActiveClaim), and what is completed stays completed.     *)
THEOREM JobsImplement == Spec => ImplementsJobPromise
  <1>1. Init => Promise!Init
    <2>1. Init => \A j \in Jobs : StateOf(j) = "absent"
      BY StateOfStatus DEF Init
    <2> QED
      BY <2>1 DEF Init, Promise!Init
  <1>2. TypeOK /\ [Next]_vars => [Promise!Next]_<<[j \in Jobs |-> StateOf(j)], holder, ender>>
    BY StepImplements DEF PromiseStep, States
  <1> QED
    BY <1>1, <1>2, TypeCorrect, PTL DEF Spec, ImplementsJobPromise, Promise!Spec
=============================================================================
