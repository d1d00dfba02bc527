------------------------------- MODULE CheckIn -------------------------------
(***************************************************************************)
(* Check-in of one scheduled mission: check-in-store.ts at the granularity *)
(* of the row locks its transactions take.                                 *)
(*                                                                         *)
(* issueChallenge locks the assignment and then, by the UPDATE that        *)
(* revokes it, the live challenge; consumeChallenge locks the challenge it *)
(* was given and then the assignment.  The two orders cross, so two calls  *)
(* can wait for each other until PostgreSQL cancels one of them.  Locks    *)
(* are held to the end of the transaction and writes become visible when   *)
(* it commits, so the writes of a call are made in its commit.             *)
(***************************************************************************)
EXTENDS Integers, FiniteSets

CONSTANTS
  Calls,        \* database connections that may serve a call
  NoCall,       \* "nobody holds the lock"
  MaxIssued,    \* challenges that may be issued for the mission (bound)
  WindowStarts, WindowEnds,  \* mission_assignments.window_starts_at, _ends_at
  FiveMinutes,  \* the longest life of a challenge, in ticks
  MaxTime       \* the clock stops here (bound)

ASSUME CallsAssumption == NoCall \notin Calls
ASSUME TimeAssumption  ==
  /\ MaxIssued \in Nat /\ FiveMinutes \in Nat /\ MaxTime \in Nat
  /\ WindowStarts \in Nat /\ WindowEnds \in Nat

VARIABLES
  clock,          \* the database server's clock
  assignment,     \* mission_assignments.status
  issued,         \* how many check_in_challenges rows exist; they are 1..issued
  challenge,      \* check_in_challenges.status
  expires,        \* check_in_challenges.expires_at
  events,         \* check_in_events: the challenge and now() of the check-in
  missionLock,    \* who holds the row lock of the assignment
  challengeLock,  \* who holds the row lock of each challenge
  call            \* what each connection is doing

rows  == <<assignment, issued, challenge, expires, events>>
locks == <<missionLock, challengeLock>>
vars  == <<clock, rows, locks, call>>

Challenge == 1 .. MaxIssued
Time      == 0 .. MaxTime

\* A call: its program counter, its now(), the challenge it works on (the one
\* presented to consumeChallenge, or the one issueChallenge revokes; 0: none)
\* and the expiry asked for a new challenge.
Idle == [pc |-> "idle", began |-> 0, target |-> 0, expiry |-> 0]

Pc == {"idle", "issue_mission", "issue_revoke", "issue_insert",
       "consume_challenge", "consume_mission", "consume_check"}

TypeOK ==
  /\ clock         \in Time
  /\ assignment    \in {"scheduled", "checked_in"}
  /\ issued        \in 0 .. MaxIssued
  /\ challenge     \in [Challenge -> {"none", "active", "revoked", "consumed"}]
  /\ expires       \in [Challenge -> Time]
  /\ events        \subseteq [challenge : Challenge, at : Time]
  /\ missionLock   \in Calls \cup {NoCall}
  /\ challengeLock \in [Challenge -> Calls \cup {NoCall}]
  /\ call          \in [Calls -> [pc : Pc, began : Time,
                                  target : {0} \cup Challenge,
                                  expiry : Time]]

Init ==
  /\ clock         = 0
  /\ assignment    = "scheduled"
  /\ issued        = 0
  /\ challenge     = [c \in Challenge |-> "none"]
  /\ expires       = [c \in Challenge |-> 0]
  /\ events        = {}
  /\ missionLock   = NoCall
  /\ challengeLock = [c \in Challenge |-> NoCall]
  /\ call          = [p \in Calls |-> Idle]

-----------------------------------------------------------------------------
\* The transaction of p ends: it gives back its locks and its connection.
End(p) ==
  /\ missionLock'   = IF missionLock = p THEN NoCall ELSE missionLock
  /\ challengeLock' = [c \in Challenge |-> IF challengeLock[c] = p
                                             THEN NoCall ELSE challengeLock[c]]
  /\ call' = [call EXCEPT ![p] = Idle]

\* A check threw, the client left, or the connection broke.
Rollback(p) == End(p) /\ UNCHANGED <<clock, rows>>

Goto(p, pc) == call' = [call EXCEPT ![p].pc = pc]

Within(now) == WindowStarts <= now /\ now <= WindowEnds

-----------------------------------------------------------------------------
(* issueChallenge.                                                         *)

BeginIssue(p, expiry) ==
  /\ call[p].pc = "idle"
  /\ call' = [call EXCEPT ![p] = [pc |-> "issue_mission", began |-> clock,
                                  target |-> 0, expiry |-> expiry]]
  /\ UNCHANGED <<clock, rows, locks>>

\* MaxIssued is the bound of the model; the rest are the checks of the code.
MayIssue(p) ==
  /\ assignment = "scheduled"
  /\ Within(call[p].began)
  /\ call[p].began < call[p].expiry
  /\ call[p].expiry <= call[p].began + FiveMinutes
  /\ call[p].expiry <= WindowEnds
  /\ issued < MaxIssued

\* Mutant: reads the assignment without FOR UPDATE.
ReadMissionToIssue(p) ==
  /\ call[p].pc = "issue_mission"
  /\ IF MayIssue(p)
       THEN Goto(p, "issue_revoke") /\ UNCHANGED <<clock, rows, locks>>
       ELSE Rollback(p)

(* SELECT ... FOR UPDATE OF ma, then the checks on what it returned.       *)
LockMissionToIssue(p) ==
  /\ call[p].pc = "issue_mission"
  /\ missionLock = NoCall
  /\ IF MayIssue(p)
       THEN /\ missionLock' = p
            /\ Goto(p, "issue_revoke")
            /\ UNCHANGED <<clock, rows, challengeLock>>
       ELSE Rollback(p)

(* UPDATE check_in_challenges SET status = 'revoked' ... 'active'.         *)
RevokeActive(p) ==
  /\ call[p].pc = "issue_revoke"
  /\ IF \E c \in Challenge : challenge[c] = "active"
       THEN \E c \in Challenge :
              /\ challenge[c] = "active"
              /\ challengeLock[c] = NoCall
              /\ challengeLock' = [challengeLock EXCEPT ![c] = p]
              /\ call' = [call EXCEPT ![p].pc = "issue_insert",
                                      ![p].target = c]
       ELSE Goto(p, "issue_insert") /\ UNCHANGED challengeLock
  /\ UNCHANGED <<clock, rows, missionLock>>

Revoke(c) == [challenge EXCEPT ![c] = "revoked"]

(* INSERT and COMMIT.  The unique index on the active challenge of an      *)
(* assignment is left out: the locks alone must keep it from being met.    *)
CommitIssue(p) ==
  LET kept == IF call[p].target = 0 THEN challenge ELSE Revoke(call[p].target)
  IN
  /\ call[p].pc = "issue_insert"
  /\ issued'    = issued + 1
  /\ challenge' = [kept EXCEPT ![issued + 1] = "active"]
  /\ expires'   = [expires EXCEPT ![issued + 1] = call[p].expiry]
  /\ End(p)
  /\ UNCHANGED <<clock, assignment, events>>

-----------------------------------------------------------------------------
(* consumeChallenge, by the right creator at the right venue.              *)

BeginConsume(p, c) ==
  /\ call[p].pc = "idle"
  /\ c <= issued
  /\ call' = [call EXCEPT ![p] = [pc |-> "consume_challenge",
                                  began |-> clock, target |-> c,
                                  expiry |-> 0]]
  /\ UNCHANGED <<clock, rows, locks>>

(* SELECT ... FOR UPDATE OF ch, ma locks the rows in that order and        *)
(* returns them as they are once both are locked.                          *)
LockChallenge(p) ==
  /\ call[p].pc = "consume_challenge"
  /\ challengeLock[call[p].target] = NoCall
  /\ challengeLock' = [challengeLock EXCEPT ![call[p].target] = p]
  /\ Goto(p, "consume_mission")
  /\ UNCHANGED <<clock, rows, missionLock>>

LockMissionToConsume(p) ==
  /\ call[p].pc = "consume_mission"
  /\ missionLock = NoCall
  /\ missionLock' = p
  /\ Goto(p, "consume_check")
  /\ UNCHANGED <<clock, rows, challengeLock>>

\* Mutant: checks the assignment and not the status of the challenge.
AcceptsReplaced(p) ==
  /\ call[p].began < expires[call[p].target]
  /\ assignment = "scheduled"
  /\ Within(call[p].began)

Accepts(p) ==
  /\ challenge[call[p].target] = "active"
  /\ call[p].began < expires[call[p].target]
  /\ assignment = "scheduled"
  /\ Within(call[p].began)

CommitConsume(p) ==
  /\ call[p].pc = "consume_check"
  /\ Accepts(p)
  /\ events'     = events \cup {[challenge |-> call[p].target,
                                 at |-> call[p].began]}
  /\ challenge'  = [challenge EXCEPT ![call[p].target] = "consumed"]
  /\ assignment' = "checked_in"
  /\ End(p)
  /\ UNCHANGED <<clock, issued, expires>>

RefuseConsume(p) ==
  /\ call[p].pc = "consume_check"
  /\ ~Accepts(p)
  /\ Rollback(p)

-----------------------------------------------------------------------------
\* The locks p waits for, and who waits for whom.
WaitsFor(p, q) ==
  \/ /\ call[p].pc \in {"issue_mission", "consume_mission"}
     /\ missionLock = q
  \/ /\ call[p].pc = "consume_challenge"
     /\ challengeLock[call[p].target] = q
  \/ /\ call[p].pc = "issue_revoke"
     /\ \E c \in Challenge : challenge[c] = "active" /\ challengeLock[c] = q

(* PostgreSQL looks for cycles of waiting transactions and cancels one.    *)
DetectDeadlock(p) ==
  /\ \E q \in Calls : WaitsFor(p, q) /\ WaitsFor(q, p)
  /\ Rollback(p)

\* A call in flight may lose its client or its connection at any point.
Abandon(p) == call[p].pc # "idle" /\ Rollback(p)

Tick ==
  /\ clock < MaxTime
  /\ clock' = clock + 1
  /\ UNCHANGED <<rows, locks, call>>

\* What the store and the database do with a call once it has begun.
Serve(p) ==
  \/ LockMissionToIssue(p)
  \/ RevokeActive(p)
  \/ CommitIssue(p)
  \/ LockChallenge(p)
  \/ LockMissionToConsume(p)
  \/ CommitConsume(p)
  \/ RefuseConsume(p)
  \/ DetectDeadlock(p)

Next ==
  \/ Tick
  \/ \E p \in Calls :
       \/ \E expiry \in Time : BeginIssue(p, expiry)
       \/ \E c \in Challenge : BeginConsume(p, c)
       \/ Serve(p)
       \/ Abandon(p)

Spec == Init /\ [][Next]_vars

(* A call that can go on goes on; nothing is assumed of the callers.       *)
FairSpec == Spec /\ \A p \in Calls : SF_vars(Serve(p))
-----------------------------------------------------------------------------
Live == {c \in Challenge : challenge[c] = "active"}

(* One challenge at most is live, and it is the one issued last: a venue   *)
(* that shows a fresh code has made every older one useless, and the       *)
(* unique index on the live challenge never has to refuse an insert.       *)
OneLiveChallenge == \A c \in Live : c = issued

(* The mission is checked in by one event, for a challenge that is then    *)
(* consumed for ever, that nobody had replaced when it was consumed, and   *)
(* that was still alive, in the mission's window, when the call began.     *)
CheckedInOnce ==
  IF assignment = "scheduled"
    THEN events = {} /\ \A c \in Challenge : challenge[c] # "consumed"
    ELSE \E e \in events :
           /\ events = {e}
           /\ \A c \in Challenge : challenge[c] = "consumed" <=> c = e.challenge
           /\ e.challenge = issued
           /\ e.at < expires[e.challenge]
           /\ Within(e.at)

(* A writer of a row holds its lock: no two calls are past the same lock.  *)
LocksAgree ==
  \A p \in Calls :
    /\ call[p].pc \in {"issue_revoke", "issue_insert", "consume_check"}
         <=> missionLock = p
    /\ \A c \in Challenge :
         challengeLock[c] = p
           <=> /\ call[p].pc \in {"issue_insert", "consume_mission",
                                  "consume_check"}
               /\ call[p].target = c

\* The rows behind the calls: challenges are numbered as they are issued, and a
\* call that holds the lock of the mission still sees what it checked.
CallsAgree ==
  /\ \A c \in Challenge : challenge[c] = "none" <=> issued < c
  /\ \A p \in Calls :
       /\ call[p].pc \in {"issue_mission", "issue_revoke"} => call[p].target = 0
       /\ call[p].pc \in {"issue_revoke", "issue_insert"} =>
            assignment = "scheduled" /\ issued < MaxIssued
       /\ call[p].pc = "issue_insert" =>
            \A c \in Challenge : challenge[c] = "active" <=> c = call[p].target
       /\ call[p].pc \in {"consume_challenge", "consume_mission", "consume_check"}
            => call[p].target \in 1 .. issued

(* What every step preserves: the rows and locks of a check-in, together.  *)
InductiveInvariant ==
  TypeOK /\ LocksAgree /\ CallsAgree /\ OneLiveChallenge /\ CheckedInOnce

(* Whatever the interleaving, a call does not wait for ever: the crossed   *)
(* lock orders are resolved and every lock is given back.                  *)
EveryCallEnds == \A p \in Calls : call[p].pc # "idle" ~> call[p].pc = "idle"
=============================================================================
