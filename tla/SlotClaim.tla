------------------------------ MODULE SlotClaim ------------------------------
(***************************************************************************)
(* How creators claim the slots of a published campaign:                   *)
(* applyForCommunityMission and applyForReachMission statement by          *)
(* statement, against the calls that answer the applications.              *)
(*                                                                         *)
(* A call of apply first claims its idempotency key, then takes the first  *)
(* free slot no other transaction has locked (FOR UPDATE SKIP LOCKED),     *)
(* then inserts its application under the unique index on (campaign,       *)
(* creator), and commits.  The key and the application of a call in flight *)
(* make other calls wait for its end; its slot makes them look elsewhere.  *)
(* Writes become visible when a call commits, so they are made there.      *)
(***************************************************************************)
EXTENDS Integers, FiniteSets

CONSTANTS
  Slots,      \* ordinals of the mission_slots of the campaign
  NoSlot,
  Creators,   \* creators who pass the check of the creator's profile
  Suits,      \* the pairs <<kind, creator, slot>> the slot query may return
  Requests,   \* what clients ask for: [kind, creator]
  Keys,       \* idempotency keys the clients send
  Calls,      \* database connections that may serve a call
  Nothing     \* "no row", "no request"

Kind == {"community", "reach"}

ASSUME SlotsAssumption    == Slots \subseteq Nat /\ NoSlot \notin Slots
ASSUME RequestsAssumption ==
  /\ \A r \in Requests : r.kind \in Kind /\ r.creator \in Creators
  /\ Nothing \notin Requests \cup [request : Requests, slot : Slots]

VARIABLES
  slot,         \* mission_slots.status
  application,  \* mission_applications.status, "none" when there is no row
  reservation,  \* slot_reservations.status
  reserved,     \* slot_reservations.mission_slot_id
  reply,        \* idempotency_records by operation and key, Nothing: no row
  call          \* what each connection is doing

claimVars == <<slot, application, reservation, reserved>>
vars      == <<claimVars, reply, call>>

Idle  == [pc |-> "idle", request |-> Nothing, key |-> Nothing, slot |-> NoSlot]
Reply == [request : Requests, slot : Slots]

TypeOK ==
  /\ slot        \in [Slots -> {"available", "reserved", "accepted"}]
  /\ application \in [Creators -> {"none", "submitted", "accepted", "withdrawn"}]
  /\ reservation \in [Creators -> {"none", "active", "converted", "released"}]
  /\ reserved    \in [Creators -> Slots \cup {NoSlot}]
  /\ reply       \in [Kind \X Keys -> Reply \cup {Nothing}]
  /\ call        \in [Calls -> {Idle} \cup
                        [pc      : {"claim", "pick", "insert", "commit"},
                         request : Requests,
                         key     : Keys,
                         slot    : Slots \cup {NoSlot}]]

Init ==
  /\ slot        = [s \in Slots |-> "available"]
  /\ application = [c \in Creators |-> "none"]
  /\ reservation = [c \in Creators |-> "none"]
  /\ reserved    = [c \in Creators |-> NoSlot]
  /\ reply       = [k \in Kind \X Keys |-> Nothing]
  /\ call        = [p \in Calls |-> Idle]

-----------------------------------------------------------------------------
Busy        == {p \in Calls : call[p].pc # "idle"}
RequestOf(p) == call[p].request
CreatorOf(p) == RequestOf(p).creator
RecordOf(p)  == <<RequestOf(p).kind, call[p].key>>

\* Has p inserted its idempotency record, locked its slot, inserted its
\* application, none of which is committed yet?
ClaimsKey(p)    == call[p].pc \in {"pick", "insert", "commit"}
LocksSlot(p, s) == call[p].pc \in {"insert", "commit"} /\ call[p].slot = s
Inserts(p, c)   == call[p].pc = "commit" /\ CreatorOf(p) = c

\* COMMIT or ROLLBACK: the locks go with the call.
End(p)      == call' = [call EXCEPT ![p] = Idle]
Rollback(p) == End(p) /\ UNCHANGED <<claimVars, reply>>

Goto(p, pc) == call' = [call EXCEPT ![p].pc = pc]

-----------------------------------------------------------------------------
(* applyForCommunityMission and applyForReachMission.                      *)

Begin(p, r, k) ==
  /\ call[p].pc = "idle"
  /\ call' = [call EXCEPT ![p] = [pc |-> "claim", request |-> r, key |-> k,
                                  slot |-> NoSlot]]
  /\ UNCHANGED <<claimVars, reply>>

(* INSERT INTO idempotency_records ... ON CONFLICT DO NOTHING waits for    *)
(* the end of a call that has inserted the same record.  A committed       *)
(* record answers its own request and refuses any other: no more to do.    *)
ClaimKey(p) ==
  /\ call[p].pc = "claim"
  /\ \A q \in Busy : ClaimsKey(q) => RecordOf(q) # RecordOf(p)
  /\ IF reply[RecordOf(p)] = Nothing
       THEN Goto(p, "pick") /\ UNCHANGED <<claimVars, reply>>
       ELSE Rollback(p)

\* The available slots the request may have and no other call has locked.
Free(p) ==
  {s \in Slots : /\ slot[s] = "available"
                 /\ <<RequestOf(p).kind, CreatorOf(p), s>> \in Suits
                 /\ \A q \in Busy : ~LocksSlot(q, s)}

(* The first free slot by ordinal; without one the call is refused, with   *)
(* MISSION_CAPACITY_FULL or, from Reach, CREATOR_NOT_QUALIFIED.            *)
PickSlot(p) ==
  /\ call[p].pc = "pick"
  /\ \E s \in Free(p) :
       /\ \A t \in Free(p) : s <= t
       /\ call' = [call EXCEPT ![p].pc = "insert", ![p].slot = s]
  /\ UNCHANGED <<claimVars, reply>>

\* Mutant: answers the caller without the ROLLBACK.
RefuseSlotWithoutRollback(p) ==
  /\ call[p].pc = "pick"
  /\ Free(p) = {}
  /\ UNCHANGED <<claimVars, reply, call>>

RefuseSlot(p) ==
  /\ call[p].pc = "pick"
  /\ Free(p) = {}
  /\ Rollback(p)

\* Mutant: no unique index on (campaign, creator).
InsertAnyApplication(p) ==
  /\ call[p].pc = "insert"
  /\ Goto(p, "commit")
  /\ UNCHANGED <<claimVars, reply>>

(* The unique index makes the INSERT wait for another application of the   *)
(* creator and fail, APPLICATION_ALREADY_EXISTS, once that one is there.   *)
InsertApplication(p) ==
  /\ call[p].pc = "insert"
  /\ \A q \in Busy : ~Inserts(q, CreatorOf(p))
  /\ IF application[CreatorOf(p)] = "none"
       THEN Goto(p, "commit") /\ UNCHANGED <<claimVars, reply>>
       ELSE Rollback(p)

\* Mutant: the answer is not kept with the key.
KeepNoReply(p) == UNCHANGED reply

KeepReply(p) ==
  reply' = [reply EXCEPT ![RecordOf(p)] = [request |-> RequestOf(p),
                                           slot    |-> call[p].slot]]

(* The UPDATE of the slot has its own WHERE clause, status = 'available',  *)
(* and its row count is not looked at; the rest is inserted regardless.    *)
(* The unique index on the live reservation of a slot is left out: the     *)
(* locks alone must keep it from being met.                                *)
CommitApplication(p) ==
  LET c == CreatorOf(p)
      s == call[p].slot
  IN
  /\ call[p].pc = "commit"
  /\ application' = [application EXCEPT ![c] = "submitted"]
  /\ slot'        = [slot EXCEPT ![s] = IF @ = "available"
                                          THEN "reserved" ELSE @]
  /\ reservation' = [reservation EXCEPT ![c] = "active"]
  /\ reserved'    = [reserved EXCEPT ![c] = s]
  /\ KeepReply(p)
  /\ End(p)

\* The process, the client or the connection is lost; or another check threw.
Abandon(p) ==
  /\ call[p].pc # "idle"
  /\ Rollback(p)

-----------------------------------------------------------------------------
(* acceptApplication and withdrawApplication lock the application, its     *)
(* reservation and its slot.  A call of apply never holds those locks: the *)
(* slot of an application that is there is not available.                  *)

\* Each UPDATE has its own WHERE clause on the status it expects.
MoveReservedSlot(c, to) ==
  slot' = [s \in Slots |-> IF s = reserved[c] /\ slot[s] = "reserved"
                             THEN to ELSE slot[s]]

MoveReservation(c, to) ==
  reservation' = [reservation EXCEPT ![c] = IF @ = "active" THEN to ELSE @]

\* Mutant: gives the slot back and forgets to release the reservation.
ReleaseSlotOnly(c) ==
  /\ MoveReservedSlot(c, "available")
  /\ UNCHANGED reservation

Release(c) ==
  /\ MoveReservedSlot(c, "available")
  /\ MoveReservation(c, "released")

WithdrawApplication(c) ==
  /\ application[c] = "submitted"
  /\ application' = [application EXCEPT ![c] = "withdrawn"]
  /\ Release(c)
  /\ UNCHANGED <<reserved, reply, call>>

AcceptApplication(c) ==
  /\ application[c] = "submitted"
  /\ application' = [application EXCEPT ![c] = "accepted"]
  /\ MoveReservedSlot(c, "accepted")
  /\ MoveReservation(c, "converted")
  /\ UNCHANGED <<reserved, reply, call>>

-----------------------------------------------------------------------------
\* What the store and the database do with a call once it has begun.
Serve(p) ==
  \/ ClaimKey(p)
  \/ PickSlot(p)
  \/ RefuseSlot(p)
  \/ InsertApplication(p)
  \/ CommitApplication(p)

\* Every call is served to its end and nobody withdraws.
Undisturbed ==
  \/ \E p \in Calls :
       \/ \E r \in Requests, k \in Keys : Begin(p, r, k)
       \/ Serve(p)
  \/ \E c \in Creators : AcceptApplication(c)

Next ==
  \/ Undisturbed
  \/ \E p \in Calls : Abandon(p)
  \/ \E c \in Creators : WithdrawApplication(c)

Spec == Init /\ [][Next]_vars

(* A call that can go on goes on; nothing is assumed of the callers.       *)
FairSpec == Spec /\ \A p \in Calls : SF_vars(Serve(p))
-----------------------------------------------------------------------------
(* Two calls in flight never hold the same idempotency record, the same    *)
(* slot or the application of the same creator, and what a call in flight  *)
(* found is still there when it commits: its slot is available and its     *)
(* creator has no application.                                             *)
LocksAgree ==
  \A p \in Busy :
    /\ \A q \in Busy \ {p} :
         /\ ClaimsKey(p) /\ ClaimsKey(q) => RecordOf(p) # RecordOf(q)
         /\ \A s \in Slots : ~(LocksSlot(p, s) /\ LocksSlot(q, s))
         /\ ~(call[p].pc = "commit" /\ Inserts(q, CreatorOf(p)))
    /\ call[p].pc \in {"insert", "commit"} =>
         /\ call[p].slot \in Slots /\ slot[call[p].slot] = "available"
         /\ <<RequestOf(p).kind, CreatorOf(p), call[p].slot>> \in Suits
    /\ call[p].pc = "commit" => application[CreatorOf(p)] = "none"
    /\ ClaimsKey(p) => reply[RecordOf(p)] = Nothing

Live(c) == reservation[c] \in {"active", "converted"}

(* No slot is promised twice: at most one reservation of a slot is live,   *)
(* the status of the slot says whether it is and whether it is accepted,   *)
(* and a creator's reservation says what his application says.             *)
NoSlotTwice ==
  /\ \A c, d \in Creators :
       Live(c) /\ Live(d) /\ reserved[c] = reserved[d] => c = d
  /\ \A s \in Slots :
       /\ slot[s] = "reserved"
            <=> \E c \in Creators : reservation[c] = "active" /\ reserved[c] = s
       /\ slot[s] = "accepted"
            <=> \E c \in Creators : reservation[c] = "converted" /\ reserved[c] = s
  /\ \A c \in Creators :
       <<application[c], reservation[c]>> \in
         {<<"none", "none">>, <<"submitted", "active">>,
          <<"accepted", "converted">>, <<"withdrawn", "released">>}

(* A key has the effect of one request, once: the answer kept with a key   *)
(* names the slot that its creator reserved, whatever became of it since,  *)
(* and an application is answered under one key only.                      *)
OneKeyOneEffect ==
  /\ \A k \in Kind \X Keys :
       reply[k] # Nothing =>
         /\ application[reply[k].request.creator] # "none"
         /\ reserved[reply[k].request.creator] = reply[k].slot
  /\ \A c \in Creators :
       application[c] # "none" =>
         \E k \in Kind \X Keys :
           /\ reply[k] # Nothing /\ reply[k].request.creator = c
           /\ \A l \in Kind \X Keys \ {k} :
                reply[l] # Nothing => reply[l].request.creator # c

(* Whatever the interleaving, a call does not wait for ever for the key,   *)
(* the slot or the application of another one.                             *)
EveryCallEnds == \A p \in Calls : p \in Busy ~> p \notin Busy

-----------------------------------------------------------------------------
(* The claims implement those of the mission life cycle, where an          *)
(* application is one step and no lock is seen.                            *)
Core == INSTANCE MissionLifecycle WITH
  Window         <- 1,
  MaxLockWait    <- 0,
  assignment     <- [c \in Creators |-> "none"],
  attempt        <- [c \in Creators |-> [n \in {1, 2} |-> "none"]],
  reviewLeft     <- [c \in Creators |-> [n \in {1, 2} |-> 0]],
  correction     <- [c \in Creators |-> FALSE],
  correctionLeft <- [c \in Creators |-> 0],
  dispute        <- [c \in Creators |-> "none"],
  disputed       <- [c \in Creators |-> 0],
  intents        <- {}

ImplementsMissionLifecycle == Core!Spec
=============================================================================
