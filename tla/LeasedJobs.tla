------------------------------ MODULE LeasedJobs ------------------------------
(***************************************************************************)
(* The three queues of leased jobs: the notification outbox                *)
(* (notification-store.ts), the locality evidence deletions                *)
(* (locality-proof-store.ts) and the Reach evidence deletions              *)
(* (reach-qualification-store.ts).  A worker claims the oldest due job for *)
(* a lease, and completes it or records its failure under the token it was *)
(* given; a worker that stops answers nothing and its lease runs out.      *)
(*                                                                         *)
(* The queues share no row, so a behaviour is one of them: "store" says    *)
(* which.  Times are ticks left.  The lock token of a claim is fresh, so   *)
(* holding it is being the worker the job was handed to last.              *)
(***************************************************************************)
EXTENDS Integers, FiniteSets

CONSTANTS
  Jobs,            \* in the order of their creation
  Workers,
  NoWorker,
  MaxAttempts,     \* max_attempts of a new job
  ReplayAttempts,  \* attempts a replay adds
  MaxReplays,      \* bound of the model: replays of one message
  LeaseTicks,      \* leaseSeconds
  RetryTicks,      \* the backoff
  RetentionTicks,  \* 30 days
  HoldTicks,       \* how long a legal hold may last: 90 days
  MaxLockWait      \* bound of the model: age of a transaction at its commit

ASSUME JobsAssumption ==
  /\ Jobs \subseteq Nat
  /\ NoWorker \notin Workers
  /\ {MaxAttempts, ReplayAttempts, LeaseTicks, RetryTicks, RetentionTicks,
      HoldTicks} \subseteq Nat \ {0}
  /\ {MaxReplays, MaxLockWait} \subseteq Nat

VARIABLES
  store,      \* which queue this is
  status,     \* of the job
  left,       \* max_attempts - attempt_count, not below 0
  wait,       \* ticks until available_at
  lease,      \* ticks until locked_until
  holder,     \* whom lock_token was given to
  ender,      \* history: whose answer ended the last claim
  due,        \* ticks until evidence_deletion_due_at of the verification
  evidence,   \* of the verification: "absent", "kept", "deleted"
  decided,    \* the verification's appeal has been decided
  hold,       \* ticks until the legal hold expires, 0 without one
  alerts,     \* jobs with a retention alert
  replays,    \* replay_count
  enabled,    \* notification_preferences: the recipient takes the channel
  delivery    \* outcome of the message's last delivery attempt

job    == <<status, left, wait, lease, holder, ender>>
proof  == <<due, evidence, decided, hold, alerts>>
notice == <<replays, enabled, delivery>>
vars   == <<store, job, proof, notice>>

Deletions == {"locality", "reach"}
JobStatus == {"absent", "pending", "processing", "completed", "dead_letter"}
Delivery  == {"none", "no_send", "suppressed", "failed"}

-----------------------------------------------------------------------------
(* The rows of a job.                                                      *)

\* The CHECKs of the job tables: a lock exactly while processing.
JobCheck(j) == status[j] = "processing" <=> holder[j] # NoWorker

IsOpen(j) == status[j] \in {"pending", "processing"}
Leased(j) == status[j] = "processing"

IsDue(j) ==
  \/ status[j] = "pending" /\ wait[j] <= 0
  \/ Leased(j) /\ lease[j] <= 0

\* ORDER BY available_at, created_at
Before(i, j) == wait[i] < wait[j] \/ (wait[i] = wait[j] /\ i < j)

(* FOR UPDATE SKIP LOCKED LIMIT 1: the first job of D that no transaction  *)
(* of another worker has locked.                                           *)
IsFirst(j, D) ==
  /\ j \in D
  /\ Cardinality({i \in D : Before(i, j)}) < Cardinality(Workers)

HandTo(j, w) ==
  /\ status' = [status EXCEPT ![j] = "processing"]
  /\ left'   = [left   EXCEPT ![j] = IF @ = 0 THEN 0 ELSE @ - 1]
  /\ lease'  = [lease  EXCEPT ![j] = LeaseTicks]
  /\ holder' = [holder EXCEPT ![j] = w]
  /\ UNCHANGED <<store, wait, ender>>

\* Mutant: any claim counts, whoever the job was handed to since.
HoldsAnyClaim(j, w, b) == Leased(j) /\ lease[j] + b > 0

(* selectActiveClaim: now() is the start of a transaction, b ticks ago.    *)
HoldsClaim(j, w, b) == Leased(j) /\ holder[j] = w /\ lease[j] + b > 0

(* The end of a claim: the lease is cleared, the rest is the new status.   *)
EndClaim(j, w, s) ==
  /\ status' = [status EXCEPT ![j] = s]
  /\ lease'  = [lease  EXCEPT ![j] = 0]
  /\ holder' = [holder EXCEPT ![j] = NoWorker]
  /\ wait'   = [wait   EXCEPT ![j] = IF s = "pending" THEN RetryTicks ELSE @]
  /\ ender'  = [ender  EXCEPT ![j] = w]
  /\ UNCHANGED <<store, left>>

Insert(j, ticks) ==
  /\ status[j] = "absent"
  /\ status' = [status EXCEPT ![j] = "pending"]
  /\ left'   = [left EXCEPT ![j] = MaxAttempts]
  /\ wait'   = [wait EXCEPT ![j] = ticks]
  /\ UNCHANGED <<store, lease, holder, ender>>

-----------------------------------------------------------------------------
(* The notification outbox.                                                *)

(* The event of a recipient, type and deduplication key: one row, and one  *)
(* message, written by a trigger; a second call finds the first one's      *)
(* event and changes nothing.                                              *)
EnqueueEvent(j) ==
  /\ store = "outbox"
  /\ Insert(j, 0)
  /\ UNCHANGED <<proof, notice>>

SetPreference(e) ==
  /\ store = "outbox"
  /\ enabled' = e
  /\ UNCHANGED <<store, job, proof, replays, delivery>>

\* Whatever its attempt count, an expired claim is taken again.
ClaimNext(w) ==
  /\ store = "outbox"
  /\ \E j \in Jobs : IsFirst(j, {i \in Jobs : IsDue(i)}) /\ HandTo(j, w)
  /\ UNCHANGED <<proof, notice>>

Deliver(j, outcome) ==
  /\ delivery' = [delivery EXCEPT ![j] = IF enabled THEN outcome ELSE "suppressed"]
  /\ UNCHANGED <<proof, replays, enabled>>

CompleteClaimLocally(j, w, b) ==
  /\ store = "outbox" /\ HoldsClaim(j, w, b)
  /\ EndClaim(j, w, "completed")
  /\ Deliver(j, "no_send")

\* Mutant: gives up one attempt late.
FailedTooLate(j, retryable) == IF retryable \/ left[j] = 0 THEN "pending" ELSE "dead_letter"

Failed(j, retryable) == IF retryable /\ left[j] > 0 THEN "pending" ELSE "dead_letter"

RecordClaimFailure(j, w, b, retryable) ==
  /\ store = "outbox" /\ HoldsClaim(j, w, b)
  /\ EndClaim(j, w, Failed(j, retryable))
  /\ Deliver(j, "failed")

ReplayDeadLetter(j) ==
  /\ store = "outbox" /\ status[j] = "dead_letter" /\ replays[j] < MaxReplays
  /\ status'  = [status  EXCEPT ![j] = "pending"]
  /\ left'    = [left    EXCEPT ![j] = @ + ReplayAttempts]
  /\ wait'    = [wait    EXCEPT ![j] = 0]
  /\ replays' = [replays EXCEPT ![j] = @ + 1]
  /\ UNCHANGED <<store, lease, holder, ender, proof, enabled, delivery>>

-----------------------------------------------------------------------------
(* The deletion queues.                                                    *)

(* A decided review keeps the evidence for 30 days and opens its deletion. *)
ReviewDecided(j) ==
  /\ store \in Deletions
  /\ Insert(j, RetentionTicks)
  /\ due'      = [due EXCEPT ![j] = RetentionTicks]
  /\ evidence' = [evidence EXCEPT ![j] = "kept"]
  /\ UNCHANGED <<decided, hold, alerts, notice>>

Later(ticks) == IF ticks > RetentionTicks THEN ticks ELSE RetentionTicks

(* A decided appeal keeps it longer: the locality job moves while it is    *)
(* pending, the Reach job whatever its status.                             *)
AppealDecided(j) ==
  /\ store \in Deletions /\ status[j] # "absent" /\ ~decided[j]
  /\ decided' = [decided EXCEPT ![j] = TRUE]
  /\ due'  = [due  EXCEPT ![j] = Later(@)]
  /\ wait' = [wait EXCEPT ![j] = IF store = "reach" \/ status[j] = "pending"
                                 THEN Later(@) ELSE @]
  /\ UNCHANGED <<store, status, left, lease, holder, ender, evidence, hold, alerts, notice>>

(* A hold that expires earlier is one that is released then; a hold on     *)
(* deleted evidence is left out, because nothing looks at it.              *)
CreateLegalHold(j) ==
  /\ store = "locality" /\ evidence[j] = "kept" /\ hold[j] = 0
  /\ hold' = [hold EXCEPT ![j] = HoldTicks]
  /\ UNCHANGED <<store, job, due, evidence, decided, alerts, notice>>

ReleaseLegalHold(j) ==
  /\ store = "locality" /\ hold[j] > 0
  /\ hold' = [hold EXCEPT ![j] = 0]
  /\ UNCHANGED <<store, job, due, evidence, decided, alerts, notice>>

\* Mutant: deletes what a legal hold keeps.
IsUnheldDeletionIgnoringHolds(j) == IsDue(j) /\ due[j] <= 0

IsUnheldDeletion(j) == IsDue(j) /\ due[j] <= 0 /\ hold[j] = 0

(* locality_evidence_deletion_jobs_attempts_ck: the claim of a job with no *)
(* attempt left fails, and takes nothing else instead.                     *)
ClaimNextDeletion(w) ==
  /\ store = "locality"
  /\ \E j \in Jobs :
       /\ IsFirst(j, {i \in Jobs : IsUnheldDeletion(i)})
       /\ left[j] > 0
       /\ HandTo(j, w)
  /\ UNCHANGED <<proof, notice>>

\* attempt_count < max_attempts is part of the query
ClaimNextEvidenceDeletion(w) ==
  /\ store = "reach"
  /\ \E j \in Jobs : IsFirst(j, {i \in Jobs : IsDue(i) /\ left[i] > 0}) /\ HandTo(j, w)
  /\ UNCHANGED <<proof, notice>>

\* Holds and the due date are not looked at again.
CompleteDeletionLocally(j, w, b) ==
  /\ store = "locality" /\ HoldsClaim(j, w, b)
  /\ EndClaim(j, w, "completed")
  /\ evidence' = [evidence EXCEPT ![j] = "deleted"]
  /\ UNCHANGED <<due, decided, hold, alerts, notice>>

\* Mutant: forgets to raise an alert.
NoAlert(j, s) == alerts

AlertOf(j, s) == IF s = "dead_letter" THEN alerts \cup {j} ELSE alerts

RecordDeletionFailure(j, w, b, retryable) ==
  /\ store = "locality" /\ HoldsClaim(j, w, b)
  /\ EndClaim(j, w, Failed(j, retryable))
  /\ alerts' = AlertOf(j, Failed(j, retryable))
  /\ UNCHANGED <<due, evidence, decided, hold, notice>>

(* Every failure of a Reach deletion may be retried.                       *)
CompleteEvidenceDeletion(j, w, b, outcome) ==
  LET s == IF outcome = "deleted" THEN "completed" ELSE Failed(j, TRUE) IN
  /\ store = "reach" /\ HoldsClaim(j, w, b)
  /\ EndClaim(j, w, s)
  /\ evidence' = IF s = "completed" THEN [evidence EXCEPT ![j] = "deleted"] ELSE evidence
  /\ alerts' = AlertOf(j, s)
  /\ UNCHANGED <<due, decided, hold, notice>>

-----------------------------------------------------------------------------
(* Time.  How long a job is overdue matters only for the order of jobs: a  *)
(* wait stops falling once it is below those of the later jobs.  The times *)
(* of what is over stand still: nothing reads them again.                  *)
Floor(j) == -Cardinality({i \in Jobs : IsOpen(i) /\ wait[i] > wait[j]})

Down(x, floor) == IF x > floor THEN x - 1 ELSE x

Tick ==
  /\ wait'  = [j \in Jobs |-> IF IsOpen(j) THEN Down(wait[j], Floor(j)) ELSE wait[j]]
  /\ lease' = [j \in Jobs |-> IF Leased(j) THEN Down(lease[j], -MaxLockWait) ELSE 0]
  /\ due'   = [j \in Jobs |-> IF evidence[j] = "kept" THEN Down(due[j], 0) ELSE due[j]]
  /\ hold'  = [j \in Jobs |-> IF evidence[j] = "kept" THEN Down(hold[j], 0) ELSE hold[j]]
  /\ UNCHANGED <<store, status, left, holder, ender, evidence, decided, alerts, notice>>

Init ==
  /\ store \in {"outbox"} \cup Deletions
  /\ status = [j \in Jobs |-> "absent"] /\ left = [j \in Jobs |-> 0]
  /\ wait = [j \in Jobs |-> 0] /\ lease = [j \in Jobs |-> 0]
  /\ holder = [j \in Jobs |-> NoWorker] /\ ender = [j \in Jobs |-> NoWorker]
  /\ due = [j \in Jobs |-> 0] /\ evidence = [j \in Jobs |-> "absent"]
  /\ decided = [j \in Jobs |-> FALSE] /\ hold = [j \in Jobs |-> 0] /\ alerts = {}
  /\ replays = [j \in Jobs |-> 0] /\ enabled = TRUE
  /\ delivery = [j \in Jobs |-> "none"]

Claim(w) == ClaimNext(w) \/ ClaimNextDeletion(w) \/ ClaimNextEvidenceDeletion(w)

Answer(j, w) ==
  \E b \in 0 .. MaxLockWait :
     \/ CompleteClaimLocally(j, w, b)
     \/ CompleteDeletionLocally(j, w, b)
     \/ \E o \in {"deleted", "failed"} : CompleteEvidenceDeletion(j, w, b, o)
     \/ \E r \in BOOLEAN : RecordClaimFailure(j, w, b, r) \/ RecordDeletionFailure(j, w, b, r)

Next ==
  \/ \E j \in Jobs :
       \/ EnqueueEvent(j) \/ ReplayDeadLetter(j)
       \/ ReviewDecided(j) \/ AppealDecided(j)
       \/ CreateLegalHold(j) \/ ReleaseLegalHold(j)
       \/ \E w \in Workers : Answer(j, w)
  \/ \E w \in Workers : Claim(w)
  \/ \E e \in BOOLEAN : SetPreference(e)
  \/ Tick

Spec == Init /\ [][Next]_vars

(* Time passes, somebody asks for work again and again, and a job that is  *)
(* handed out again and again is answered within its lease some day.       *)
FairSpec ==
  /\ Spec
  /\ WF_vars(Tick)
  /\ WF_vars(\E w \in Workers : Claim(w))
  /\ \A j \in Jobs : SF_vars(\E w \in Workers : Answer(j, w))

-----------------------------------------------------------------------------
(* Properties.                                                             *)

(* Every row of a job, its verification and its notifications has declared *)
(* values, and only a claimed job has a lease and a holder.                *)
TypeOK ==
  /\ store \in {"outbox"} \cup Deletions
  /\ status \in [Jobs -> JobStatus]
  /\ left \in [Jobs -> 0 .. MaxAttempts + MaxReplays * ReplayAttempts]
  /\ wait \in [Jobs -> Int] /\ lease \in [Jobs -> -MaxLockWait .. LeaseTicks]
  /\ {holder, ender} \subseteq [Jobs -> Workers \cup {NoWorker}]
  /\ due \in [Jobs -> 0 .. RetentionTicks] /\ hold \in [Jobs -> 0 .. HoldTicks]
  /\ evidence \in [Jobs -> {"absent", "kept", "deleted"}]
  /\ decided \in [Jobs -> BOOLEAN] /\ alerts \in SUBSET Jobs
  /\ replays \in [Jobs -> 0 .. MaxReplays] /\ enabled \in BOOLEAN
  /\ delivery \in [Jobs -> Delivery] 
  /\ \A j \in Jobs : JobCheck(j)

(* The stores keep the promise: however claims expire, are taken over and  *)
(* are answered late, only the worker a job was handed to last ends it,    *)
(* and a completed job stays completed (claimNext, selectActiveClaim).     *)
StateOf(j) ==
  CASE status[j] = "absent"      -> "absent"
    [] status[j] = "pending"     -> "waiting"
    [] status[j] = "processing"  -> "taken"
    [] status[j] = "completed"   -> "done"
    [] status[j] = "dead_letter" -> "given up"

Promise == INSTANCE JobPromise WITH state <- [j \in Jobs |-> StateOf(j)],
                                    owner <- holder

ImplementsJobPromise == Promise!Spec

(* Evidence is gone exactly when its deletion is completed, an alert is    *)
(* raised exactly when one is given up, and a message that is completed    *)
(* was delivered or suppressed in its last attempt.                        *)
OutcomeAgreement ==
  \A j \in Jobs :
    /\ store \in Deletions =>
         /\ evidence[j] = "deleted" <=> status[j] = "completed"
         /\ j \in alerts <=> status[j] = "dead_letter"
    /\ store = "outbox" =>
         /\ status[j] = "completed" => delivery[j] \in {"no_send", "suppressed"}
         /\ status[j] = "dead_letter" => delivery[j] \in {"failed", "suppressed"}

(* Completing a deletion does not look at holds, so a hold that comes      *)
(* after the claim is missed; but only within the lease of that claim:     *)
(* evidence under an older hold is never deleted, whoever claims it.       *)
HeldEvidenceIsKept ==
  [][\A j \in Jobs :
       evidence[j] = "kept" /\ evidence'[j] = "deleted" /\ hold[j] > 0 =>
         HoldTicks - hold[j] < LeaseTicks + MaxLockWait]_vars

(* The last lease of a deletion ran out before its worker answered.        *)
IsExhausted(j) ==
  store \in Deletions /\ Leased(j) /\ left[j] = 0 /\ lease[j] <= 0

(* A message is completed or a dead letter however often its *)
(* workers stop.  A deletion does unless it is held again and again, or    *)
(* the workers of some deletion stopped at its last attempt.               *)
EveryJobEnds ==
  \A j \in Jobs :
    IsOpen(j) ~> \/ ~IsOpen(j)
                \/ hold[j] > 0
                \/ \E i \in Jobs : IsExhausted(i)

(* architecture.md:596: "delayed or failed deletion creates an             *)
(* operations/privacy alert".  Evidence that nothing holds is deleted, or  *)
(* its deletion is given up with an alert.                                 *)
FailedDeletionAlerts ==
  \A j \in Jobs :
    evidence[j] = "kept" ~> evidence[j] = "deleted" \/ j \in alerts \/ hold[j] > 0
=============================================================================
