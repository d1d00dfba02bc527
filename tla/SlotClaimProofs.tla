--------------------------- MODULE SlotClaimProofs ---------------------------
(***************************************************************************)
(* Proofs about SlotClaim, for any number of slots, creators, requests,    *)
(* keys and calls.                                                         *)
(*                                                                         *)
(* A call commits long after it looked at the rows.  LocksAgree says what  *)
(* its uncommitted key, slot and application protect until then; with it   *)
(* every commit finds a free slot and a creator without application, so    *)
(* that it is one step of the life cycle of a mission.                     *)
(***************************************************************************)
EXTENDS SlotClaim, TLAPS

\* What every step preserves.
InductiveInvariant ==
  /\ TypeOK
  /\ LocksAgree
  /\ NoSlotTwice
  /\ OneKeyOneEffect

\* A call in flight: its request and its key are those of a client.
InFlight == [pc : {"claim", "pick", "insert", "commit"}, request : Requests,
             key : Keys, slot : Slots \cup {NoSlot}]

-----------------------------------------------------------------------------
LEMMA CallTypes ==
  ASSUME TypeOK, NEW p \in Calls
  PROVE  /\ call[p] \in {Idle} \cup InFlight
         /\ call[p].pc # "idle" => call[p] \in InFlight
         /\ call[p].pc # "idle" => RecordOf(p) \in Kind \X Keys
         /\ call[p].pc # "idle" => CreatorOf(p) \in Creators
  BY RequestsAssumption DEF TypeOK, InFlight, Idle, RecordOf, RequestOf,
     CreatorOf, Kind

\* The end of a call gives back what it held and takes nothing from another.
LEMMA RollbackKeeps ==
  ASSUME InductiveInvariant, NEW p \in Calls, Rollback(p)
  PROVE  InductiveInvariant'
<1>1. \A q \in Calls : call'[q] = IF q = p THEN Idle ELSE call[q]
  BY DEF Rollback, End, InductiveInvariant, TypeOK
<1>2. TypeOK'
  BY DEF Rollback, End, InductiveInvariant, TypeOK, claimVars
<1>3. Busy' \subseteq Busy \ {p}
  BY <1>1 DEF Busy, Idle
<1>4. \A q \in Busy' : call'[q] = call[q]
  BY <1>1, <1>3 DEF Busy
<1>5. LocksAgree'
  <2> SUFFICES ASSUME NEW q \in Busy'
               PROVE
                 /\ \A r \in (Busy \ {q})' :
                      /\ ClaimsKey(q)' /\ ClaimsKey(r)' => RecordOf(q)' # RecordOf(r)'
                      /\ \A s \in Slots : ~(LocksSlot(q, s)' /\ LocksSlot(r, s)')
                      /\ ~(call'[q].pc = "commit" /\ Inserts(r, CreatorOf(q))')
                 /\ call'[q].pc \in {"insert", "commit"} =>
                      /\ call'[q].slot \in Slots
                      /\ slot'[call'[q].slot] = "available"
                      /\ <<RequestOf(q)'.kind, CreatorOf(q)', call'[q].slot>> \in Suits
                 /\ call'[q].pc = "commit" => application'[CreatorOf(q)'] = "none"
                 /\ ClaimsKey(q)' => reply'[RecordOf(q)'] = Nothing
    BY DEF LocksAgree
  <2> QED
    BY <1>3, <1>4 DEF InductiveInvariant, LocksAgree, ClaimsKey, RecordOf,
       LocksSlot, Inserts, CreatorOf, RequestOf, Rollback, claimVars
<1>6. NoSlotTwice' /\ OneKeyOneEffect'
  BY DEF InductiveInvariant, NoSlotTwice, Live, OneKeyOneEffect,
     Rollback, claimVars
<1>7. QED  BY <1>2, <1>5, <1>6 DEF InductiveInvariant

\* A call that writes no row disturbs nothing but the agreement of the locks.
LEMMA RowsKeep ==
  ASSUME InductiveInvariant, UNCHANGED <<claimVars, reply>>
  PROVE  NoSlotTwice' /\ OneKeyOneEffect'
BY DEF InductiveInvariant, NoSlotTwice, Live, OneKeyOneEffect, claimVars

LEMMA BeginKeeps ==
  ASSUME InductiveInvariant, NEW p \in Calls, NEW r \in Requests,
         NEW k \in Keys, Begin(p, r, k)
  PROVE  InductiveInvariant'
<1> DEFINE new == [pc |-> "claim", request |-> r, key |-> k, slot |-> NoSlot]
<1>1. \A q \in Calls : call'[q] = IF q = p THEN new ELSE call[q]
  BY DEF Begin, InductiveInvariant, TypeOK
<1>2. TypeOK'
  BY DEF Begin, InductiveInvariant, TypeOK, claimVars
<1>3. LocksAgree'
  BY <1>1 DEF Begin, InductiveInvariant, LocksAgree, Busy, ClaimsKey, RecordOf,
     LocksSlot, Inserts, CreatorOf, RequestOf, claimVars
<1>4. QED  BY <1>2, <1>3, RowsKeep DEF Begin, InductiveInvariant

LEMMA ClaimKeyKeeps ==
  ASSUME InductiveInvariant, NEW p \in Calls, ClaimKey(p)
  PROVE  InductiveInvariant'
<1>1. CASE reply[RecordOf(p)] = Nothing
  <2>1. UNCHANGED <<claimVars, reply>> /\ Goto(p, "pick")
    BY <1>1 DEF ClaimKey
  <2>2. call[p] \in InFlight /\ p \in Busy
    BY CallTypes DEF ClaimKey, InductiveInvariant, Busy
  <2>3. \A q \in Calls : call'[q] = IF q = p THEN [call[p] EXCEPT !.pc = "pick"]
                                             ELSE call[q]
    BY <2>1 DEF Goto, InductiveInvariant, TypeOK
  <2>4. TypeOK'
    BY <2>1, <2>2 DEF InductiveInvariant, TypeOK, Goto, InFlight, claimVars
  <2>5. Busy' = Busy
    BY <2>2, <2>3 DEF Busy, InFlight
  <2>6. \A q \in Busy :
          /\ RequestOf(q)' = RequestOf(q) /\ RecordOf(q)' = RecordOf(q)
          /\ CreatorOf(q)' = CreatorOf(q) /\ call'[q].slot = call[q].slot
          /\ ClaimsKey(q)' <=> ClaimsKey(q) \/ q = p
          /\ \A t \in {"insert", "commit"} : call'[q].pc = t <=> call[q].pc = t
    BY <2>2, <2>3 DEF ClaimKey, RequestOf, RecordOf, CreatorOf, ClaimsKey,
       InFlight, Busy
  <2>7. LocksAgree'
    BY <1>1, <2>1, <2>5, <2>6 DEF ClaimKey, InductiveInvariant, LocksAgree,
       LocksSlot, Inserts, claimVars
  <2> QED  BY <2>1, <2>4, <2>7, RowsKeep DEF InductiveInvariant
<1>2. CASE reply[RecordOf(p)] # Nothing
  BY <1>2, RollbackKeeps DEF ClaimKey, InductiveInvariant, TypeOK
<1>3. QED  BY <1>1, <1>2

LEMMA PickSlotKeeps ==
  ASSUME InductiveInvariant, NEW p \in Calls, PickSlot(p)
  PROVE  InductiveInvariant'
<1>1. PICK s \in Free(p) :
        call' = [call EXCEPT ![p].pc = "insert", ![p].slot = s]
  BY DEF PickSlot
<1>2. call[p] \in InFlight /\ p \in Busy
  BY CallTypes DEF PickSlot, InductiveInvariant, Busy
<1>3. \A q \in Calls :
        call'[q] = IF q = p THEN [call[p] EXCEPT !.pc = "insert", !.slot = s]
                            ELSE call[q]
  BY <1>1 DEF InductiveInvariant, TypeOK
<1>4. /\ s \in Slots /\ slot[s] = "available"
      /\ <<RequestOf(p).kind, CreatorOf(p), s>> \in Suits
      /\ \A q \in Busy : ~LocksSlot(q, s)
  BY DEF Free
<1>5. TypeOK'
  BY <1>1, <1>2, <1>4 DEF PickSlot, InductiveInvariant, TypeOK, InFlight, claimVars
<1>6. Busy' = Busy
  BY <1>2, <1>3 DEF Busy, InFlight
<1>a. /\ call'[p].pc = "insert" /\ call'[p].slot = s
      /\ call'[p].request = call[p].request /\ call'[p].key = call[p].key
      /\ \A q \in Busy \ {p} : call'[q] = call[q]
      /\ call[p].pc = "pick"
  BY <1>2, <1>3 DEF PickSlot, InFlight, Busy
<1>7. \A q \in Busy :
        /\ RequestOf(q)' = RequestOf(q) /\ RecordOf(q)' = RecordOf(q)
        /\ CreatorOf(q)' = CreatorOf(q)
        /\ ClaimsKey(q)' <=> ClaimsKey(q)
        /\ call'[q].pc = "commit" <=> call[q].pc = "commit"
        /\ \A t : LocksSlot(q, t)' <=> LocksSlot(q, t) \/ (q = p /\ t = s)
  BY <1>a DEF RequestOf, RecordOf, CreatorOf, ClaimsKey, LocksSlot
<1>8. \A q \in Busy :
        call'[q].pc \in {"insert", "commit"} =>
          /\ call'[q].slot \in Slots /\ slot'[call'[q].slot] = "available"
          /\ <<RequestOf(q)'.kind, CreatorOf(q)', call'[q].slot>> \in Suits
  <2> SUFFICES ASSUME NEW q \in Busy, call'[q].pc \in {"insert", "commit"}
               PROVE  /\ call'[q].slot \in Slots
                      /\ slot'[call'[q].slot] = "available"
                      /\ <<RequestOf(q)'.kind, CreatorOf(q)', call'[q].slot>> \in Suits
    OBVIOUS
  <2>1. CASE q = p
    BY <2>1, <1>4, <1>7, <1>a DEF PickSlot, claimVars
  <2>2. CASE q # p
    BY <2>2, <1>7, <1>a DEF InductiveInvariant, LocksAgree, PickSlot, claimVars
  <2> QED  BY <2>1, <2>2
<1>9. LocksAgree'
  <2>1. \A q \in Busy : \A r \in Busy \ {q}, t \in Slots :
          ~(LocksSlot(q, t)' /\ LocksSlot(r, t)')
    <3>1. \A q \in Busy : \A r \in Busy \ {q}, t \in Slots :
            ~(LocksSlot(q, t) /\ LocksSlot(r, t))
      BY DEF InductiveInvariant, LocksAgree
    <3> QED  BY <3>1, <1>4, <1>7
  <2>2. \A q \in Busy : \A r \in Busy \ {q} :
          /\ ClaimsKey(q)' /\ ClaimsKey(r)' => RecordOf(q)' # RecordOf(r)'
          /\ ~(call'[q].pc = "commit" /\ Inserts(r, CreatorOf(q))')
    <3> SUFFICES ASSUME NEW q \in Busy, NEW r \in Busy \ {q}
                 PROVE  /\ ClaimsKey(q)' /\ ClaimsKey(r)' => RecordOf(q)' # RecordOf(r)'
                        /\ ~(call'[q].pc = "commit" /\ Inserts(r, CreatorOf(q))')
      OBVIOUS
    <3>1. /\ ClaimsKey(q) /\ ClaimsKey(r) => RecordOf(q) # RecordOf(r)
          /\ ~(call[q].pc = "commit" /\ Inserts(r, CreatorOf(q)))
      BY DEF InductiveInvariant, LocksAgree
    <3>2. Inserts(r, CreatorOf(q))' <=> Inserts(r, CreatorOf(q))
      BY <1>7 DEF Inserts
    <3> QED  BY <3>1, <3>2, <1>7
  <2>3. \A q \in Busy :
          /\ call'[q].pc = "commit" => application'[CreatorOf(q)'] = "none"
          /\ ClaimsKey(q)' => reply'[RecordOf(q)'] = Nothing
    BY <1>7 DEF InductiveInvariant, LocksAgree, PickSlot, claimVars
  <2> QED
    BY <2>1, <2>2, <2>3, <1>6, <1>8 DEF LocksAgree
<1> QED  BY <1>5, <1>9, RowsKeep DEF PickSlot, InductiveInvariant

LEMMA InsertKeeps ==
  ASSUME InductiveInvariant, NEW p \in Calls, InsertApplication(p)
  PROVE  InductiveInvariant'
<1>1. CASE application[CreatorOf(p)] = "none"
  <2>1. UNCHANGED <<claimVars, reply>> /\ Goto(p, "commit")
    BY <1>1 DEF InsertApplication
  <2>2. call[p] \in InFlight /\ p \in Busy
    BY CallTypes DEF InsertApplication, InductiveInvariant, Busy
  <2>3. \A q \in Calls :
          call'[q] = IF q = p THEN [call[p] EXCEPT !.pc = "commit"] ELSE call[q]
    BY <2>1 DEF Goto, InductiveInvariant, TypeOK
  <2>4. TypeOK'
    BY <2>1, <2>2 DEF InductiveInvariant, TypeOK, Goto, InFlight, claimVars
  <2>5. Busy' = Busy
    BY <2>2, <2>3 DEF Busy, InFlight
  <2>6. LocksAgree'
    BY <1>1, <2>1, <2>2, <2>3, <2>5 DEF InsertApplication, InductiveInvariant,
       LocksAgree, ClaimsKey, RecordOf, LocksSlot, Inserts, CreatorOf,
       RequestOf, claimVars, InFlight, Busy
  <2> QED  BY <2>1, <2>4, <2>6, RowsKeep DEF InductiveInvariant
<1>2. CASE application[CreatorOf(p)] # "none"
  BY <1>2, RollbackKeeps DEF InsertApplication, InductiveInvariant, TypeOK
<1>3. QED  BY <1>1, <1>2

\* What a call that commits finds, and what it leaves.
LEMMA CommitFinds ==
  ASSUME InductiveInvariant, NEW p \in Calls, CommitApplication(p)
  PROVE  /\ p \in Busy /\ call[p] \in InFlight
         /\ CreatorOf(p) \in Creators /\ RecordOf(p) \in Kind \X Keys
         /\ call[p].slot \in Slots
         /\ slot[call[p].slot] = "available"
         /\ application[CreatorOf(p)] = "none"
         /\ reply[RecordOf(p)] = Nothing
         /\ <<RequestOf(p).kind, CreatorOf(p), call[p].slot>> \in Suits
<1>1. p \in Busy /\ call[p].pc = "commit"
  BY DEF CommitApplication, Busy
<1>2. call[p] \in InFlight /\ CreatorOf(p) \in Creators
        /\ RecordOf(p) \in Kind \X Keys
  BY <1>1, CallTypes DEF InductiveInvariant
<1>3. QED
  BY <1>1, <1>2 DEF InductiveInvariant, LocksAgree, ClaimsKey

LEMMA CommitKeeps ==
  ASSUME InductiveInvariant, NEW p \in Calls, CommitApplication(p)
  PROVE  InductiveInvariant'
<1> DEFINE c == CreatorOf(p)
           s == call[p].slot
           k == RecordOf(p)
           answer == [request |-> RequestOf(p), slot |-> s]
<1>1. /\ p \in Busy /\ call[p] \in InFlight
      /\ c \in Creators /\ k \in Kind \X Keys /\ s \in Slots
      /\ slot[s] = "available" /\ application[c] = "none"
      /\ reply[k] = Nothing
      /\ <<RequestOf(p).kind, c, s>> \in Suits
  BY CommitFinds
<1>2. /\ application' = [application EXCEPT ![c] = "submitted"]
      /\ slot'        = [slot EXCEPT ![s] = "reserved"]
      /\ reservation' = [reservation EXCEPT ![c] = "active"]
      /\ reserved'    = [reserved EXCEPT ![c] = s]
      /\ reply'       = [reply EXCEPT ![k] = answer]
      /\ call'        = [call EXCEPT ![p] = Idle]
  <2>1. [slot EXCEPT ![s] = IF @ = "available" THEN "reserved" ELSE @]
          = [slot EXCEPT ![s] = "reserved"]
    BY <1>1
  <2> QED  BY <2>1 DEF CommitApplication, KeepReply, End
<1> HIDE DEF c, s, k
<1>3. TypeOK'
  <2>1. answer \in Reply
    BY <1>1 DEF Reply, RequestOf, InFlight
  <2> HIDE DEF answer
  <2> QED  BY <1>1, <1>2, <2>1 DEF InductiveInvariant, TypeOK
<1>4. /\ Busy' = Busy \ {p}
      /\ \A q \in Busy' : call'[q] = call[q]
  BY <1>1, <1>2 DEF Busy, Idle, InductiveInvariant, TypeOK
<1>5. LocksAgree'
  <2>1. \A q \in Busy' : \A r \in Busy' \ {q} :
          /\ ClaimsKey(q)' /\ ClaimsKey(r)' => RecordOf(q)' # RecordOf(r)'
          /\ \A t \in Slots : ~(LocksSlot(q, t)' /\ LocksSlot(r, t)')
          /\ ~(call'[q].pc = "commit" /\ Inserts(r, CreatorOf(q))')
    <3> SUFFICES ASSUME NEW q \in Busy', NEW r \in Busy' \ {q}
                 PROVE
                   /\ ClaimsKey(q)' /\ ClaimsKey(r)' => RecordOf(q)' # RecordOf(r)'
                   /\ \A t \in Slots : ~(LocksSlot(q, t)' /\ LocksSlot(r, t)')
                   /\ ~(call'[q].pc = "commit" /\ Inserts(r, CreatorOf(q))')
      OBVIOUS
    <3>1. /\ ClaimsKey(q) /\ ClaimsKey(r) => RecordOf(q) # RecordOf(r)
          /\ \A t \in Slots : ~(LocksSlot(q, t) /\ LocksSlot(r, t))
          /\ ~(call[q].pc = "commit" /\ Inserts(r, CreatorOf(q)))
      BY <1>4 DEF InductiveInvariant, LocksAgree
    <3> QED
      BY <1>4, <3>1 DEF ClaimsKey, RecordOf, LocksSlot, Inserts, CreatorOf,
         RequestOf
  <2>2. ASSUME NEW q \in Busy'
        PROVE  /\ call'[q].pc \in {"insert", "commit"} =>
                    /\ call'[q].slot \in Slots
                    /\ slot'[call'[q].slot] = "available"
                    /\ <<RequestOf(q)'.kind, CreatorOf(q)', call'[q].slot>> \in Suits
               /\ call'[q].pc = "commit" => application'[CreatorOf(q)'] = "none"
               /\ ClaimsKey(q)' => reply'[RecordOf(q)'] = Nothing
    <3>0. q \in Busy /\ q # p /\ call'[q] = call[q]
      BY <1>4
    <3>1. call[p].pc = "commit"
      BY DEF CommitApplication
    <3>2. /\ ClaimsKey(q) => RecordOf(q) # k
          /\ \A t \in Slots : LocksSlot(q, t) => t # s
          /\ call[q].pc = "commit" => CreatorOf(q) # c
      BY <3>0, <3>1, <1>1 DEF InductiveInvariant, LocksAgree, ClaimsKey,
         LocksSlot, Inserts, c, s, k
    <3>4. call[q].pc \in {"insert", "commit"} =>
            /\ call[q].slot \in Slots /\ slot'[call[q].slot] = "available"
            /\ <<RequestOf(q).kind, CreatorOf(q), call[q].slot>> \in Suits
      BY <3>0, <3>2, <1>1, <1>2 DEF InductiveInvariant, LocksAgree, LocksSlot,
         TypeOK
    <3>5. call[q].pc = "commit" => application'[CreatorOf(q)] = "none"
      BY <3>0, <3>2, <1>1, <1>2, CallTypes DEF InductiveInvariant, LocksAgree,
         TypeOK, Busy
    <3>6. ClaimsKey(q) => reply'[RecordOf(q)] = Nothing
      BY <3>0, <3>2, <1>1, <1>2, CallTypes DEF InductiveInvariant, LocksAgree,
         TypeOK, Busy
    <3> QED
      BY <3>0, <3>4, <3>5, <3>6 DEF RequestOf, CreatorOf, RecordOf, ClaimsKey
  <2> QED  BY <2>1, <2>2 DEF LocksAgree
<1>6. NoSlotTwice'
  <2>1. \A d \in Creators : Live(d) => d # c /\ reserved[d] # s
    BY <1>1 DEF InductiveInvariant, NoSlotTwice, Live
  <2>2. \A d \in Creators :
          /\ reservation'[d] = "active" <=> reservation[d] = "active" \/ d = c
          /\ reservation'[d] = "converted" <=> reservation[d] = "converted"
          /\ d # c => reserved'[d] = reserved[d]
          /\ d = c => reserved'[d] = s
    BY <1>1, <1>2, <2>1 DEF InductiveInvariant, TypeOK, Live
  <2>3. \A t \in Slots :
          /\ slot'[t] = "reserved" <=> slot[t] = "reserved" \/ t = s
          /\ slot'[t] = "accepted" <=> slot[t] = "accepted"
    BY <1>1, <1>2 DEF InductiveInvariant, TypeOK
  <2>4. \A d \in Creators :
          <<application'[d], reservation'[d]>> =
            IF d = c THEN <<"submitted", "active">>
                     ELSE <<application[d], reservation[d]>>
    BY <1>1, <1>2 DEF InductiveInvariant, TypeOK
  <2>5. \A d, e \in Creators :
          Live(d)' /\ Live(e)' /\ reserved'[d] = reserved'[e] => d = e
    BY <2>1, <2>2 DEF InductiveInvariant, NoSlotTwice, Live
  <2>6. \A t \in Slots :
          /\ slot'[t] = "reserved" <=>
               \E d \in Creators : reservation'[d] = "active" /\ reserved'[d] = t
          /\ slot'[t] = "accepted" <=>
               \E d \in Creators : reservation'[d] = "converted" /\ reserved'[d] = t
    <3> SUFFICES ASSUME NEW t \in Slots
                 PROVE  /\ slot'[t] = "reserved" <=>
                             \E d \in Creators : reservation'[d] = "active" /\ reserved'[d] = t
                        /\ slot'[t] = "accepted" <=>
                             \E d \in Creators : reservation'[d] = "converted" /\ reserved'[d] = t
      OBVIOUS
    <3>1. /\ slot[t] = "reserved" <=>
               \E d \in Creators : reservation[d] = "active" /\ reserved[d] = t
          /\ slot[t] = "accepted" <=>
               \E d \in Creators : reservation[d] = "converted" /\ reserved[d] = t
      BY DEF InductiveInvariant, NoSlotTwice
    <3> QED  BY <1>1, <2>1, <2>2, <2>3, <3>1 DEF Live
  <2>7. \A d \in Creators :
          <<application'[d], reservation'[d]>> \in
            {<<"none", "none">>, <<"submitted", "active">>,
             <<"accepted", "converted">>, <<"withdrawn", "released">>}
    BY <2>4 DEF InductiveInvariant, NoSlotTwice
  <2> QED  BY <2>5, <2>6, <2>7 DEF NoSlotTwice
<1>7. /\ reply'[k] = answer
      /\ \A l \in (Kind \X Keys) \ {k} : reply'[l] = reply[l]
      /\ answer # Nothing
      /\ answer.request.creator = c /\ answer.slot = s
  <2>1. answer # Nothing
    BY <1>1, RequestsAssumption DEF RequestOf, InFlight
  <2> QED  BY <1>1, <1>2, <2>1 DEF InductiveInvariant, TypeOK, c, CreatorOf
<1>8. OneKeyOneEffect'
  <2>1. \A l \in Kind \X Keys :
          reply[l] # Nothing => reply[l].request.creator # c
    BY <1>1 DEF InductiveInvariant, OneKeyOneEffect
  <2> QED  BY <1>1, <1>2, <1>7, <2>1 DEF InductiveInvariant, OneKeyOneEffect, TypeOK
<1>9. QED  BY <1>3, <1>5, <1>6, <1>8 DEF InductiveInvariant

-----------------------------------------------------------------------------
\* Answering an application leaves the calls in flight what they count on.
LEMMA AnswerKeepsLocks ==
  ASSUME InductiveInvariant,
         UNCHANGED <<reserved, reply, call>>,
         \A s \in Slots : slot[s] = "available" => slot'[s] = "available",
         \A c \in Creators : application[c] = "none" <=> application'[c] = "none"
  PROVE  LocksAgree' /\ OneKeyOneEffect'
<1>1. LocksAgree'
  <2>1. \A p \in Busy : CreatorOf(p) \in Creators
    BY CallTypes DEF InductiveInvariant, Busy
  <2> QED
    BY <2>1 DEF InductiveInvariant, LocksAgree, ClaimsKey, RecordOf, LocksSlot,
       Inserts, CreatorOf, RequestOf, Busy
<1>2. OneKeyOneEffect'
  <2>1. \A k \in Kind \X Keys : reply[k] # Nothing =>
          reply[k].request.creator \in Creators
    BY RequestsAssumption DEF InductiveInvariant, TypeOK, Reply
  <2> QED  BY <2>1 DEF InductiveInvariant, OneKeyOneEffect
<1>3. QED  BY <1>1, <1>2

\* What holds of an application that may still be answered.
LEMMA SubmittedHolds ==
  ASSUME InductiveInvariant, NEW c \in Creators, application[c] = "submitted"
  PROVE  /\ reservation[c] = "active" /\ Live(c)
         /\ \A d \in Creators : Live(d) /\ d # c => reserved[d] # reserved[c]
         /\ reserved[c] \in Slots => slot[reserved[c]] = "reserved"
BY DEF InductiveInvariant, NoSlotTwice, Live

\* Either answer moves the application, its reservation and its slot together.
LEMMA AnswerKeepsSlots ==
  ASSUME InductiveInvariant, NEW c \in Creators, application[c] = "submitted",
         NEW to, NEW moved, NEW held,
         \/ to = "withdrawn" /\ moved = "released" /\ held = "available"
         \/ to = "accepted" /\ moved = "converted" /\ held = "accepted",
         application' = [application EXCEPT ![c] = to],
         MoveReservedSlot(c, held), MoveReservation(c, moved),
         UNCHANGED <<reserved, reply, call>>
  PROVE  InductiveInvariant'
<1>1. /\ reservation[c] = "active" /\ Live(c)
      /\ \A d \in Creators : Live(d) /\ d # c => reserved[d] # reserved[c]
      /\ reserved[c] \in Slots => slot[reserved[c]] = "reserved"
  BY SubmittedHolds
<1>2. /\ \A d \in Creators :
           /\ application'[d] = IF d = c THEN to ELSE application[d]
           /\ reservation'[d] = IF d = c THEN moved ELSE reservation[d]
      /\ \A s \in Slots : slot'[s] = IF s = reserved[c] THEN held ELSE slot[s]
  BY <1>1 DEF MoveReservedSlot, MoveReservation, InductiveInvariant, TypeOK
<1>3. TypeOK'
  BY DEF MoveReservedSlot, MoveReservation, InductiveInvariant, TypeOK
<1>4. LocksAgree' /\ OneKeyOneEffect'
  BY <1>1, <1>2, AnswerKeepsLocks
<1>5. NoSlotTwice'
  <2>1. \A d \in Creators : Live(d)' => Live(d)
    BY <1>1, <1>2 DEF Live
  <2>2. \A d, e \in Creators :
          Live(d)' /\ Live(e)' /\ reserved'[d] = reserved'[e] => d = e
    BY <2>1 DEF InductiveInvariant, NoSlotTwice
  <2>3. ASSUME NEW s \in Slots
        PROVE  /\ slot'[s] = "reserved" <=>
                    \E d \in Creators : reservation'[d] = "active" /\ reserved'[d] = s
               /\ slot'[s] = "accepted" <=>
                    \E d \in Creators : reservation'[d] = "converted" /\ reserved'[d] = s
    <3>1. /\ slot[s] = "reserved" <=>
               \E d \in Creators : reservation[d] = "active" /\ reserved[d] = s
          /\ slot[s] = "accepted" <=>
               \E d \in Creators : reservation[d] = "converted" /\ reserved[d] = s
      BY DEF InductiveInvariant, NoSlotTwice
    <3>2. CASE s = reserved[c]
      BY <3>1, <3>2, <1>1, <1>2 DEF Live
    <3>3. CASE s # reserved[c]
      BY <3>1, <3>3, <1>1, <1>2
    <3> QED  BY <3>2, <3>3
  <2>4. \A d \in Creators :
          <<application'[d], reservation'[d]>> \in
            {<<"none", "none">>, <<"submitted", "active">>,
             <<"accepted", "converted">>, <<"withdrawn", "released">>}
    BY <1>2 DEF InductiveInvariant, NoSlotTwice
  <2> QED  BY <2>2, <2>3, <2>4 DEF NoSlotTwice
<1>6. QED  BY <1>3, <1>4, <1>5 DEF InductiveInvariant

-----------------------------------------------------------------------------
LEMMA InitHolds == Init => InductiveInvariant
<1> SUFFICES ASSUME Init PROVE InductiveInvariant
  OBVIOUS
<1>1. TypeOK
  BY DEF Init, TypeOK
<1>2. Busy = {}
  BY DEF Init, Busy, Idle
<1>3. QED
  BY <1>1, <1>2 DEF Init, InductiveInvariant, LocksAgree, NoSlotTwice, Live,
     OneKeyOneEffect

LEMMA NextKeeps == InductiveInvariant /\ [Next]_vars => InductiveInvariant'
<1> SUFFICES ASSUME InductiveInvariant, [Next]_vars PROVE InductiveInvariant'
  OBVIOUS
<1>1. ASSUME NEW p \in Calls, NEW r \in Requests, NEW k \in Keys, Begin(p, r, k)
      PROVE  InductiveInvariant'
  BY <1>1, BeginKeeps
<1>2. ASSUME NEW p \in Calls, Serve(p)
      PROVE  InductiveInvariant'
  <2>1. CASE ClaimKey(p)           BY <2>1, ClaimKeyKeeps
  <2>2. CASE PickSlot(p)           BY <2>2, PickSlotKeeps
  <2>3. CASE RefuseSlot(p)
    <3>1. RequestOf(p) \in Requests
      BY <2>3, CallTypes DEF RefuseSlot, InductiveInvariant, InFlight, RequestOf
    <3> QED
      BY <2>3, <3>1, RollbackKeeps DEF RefuseSlot, InductiveInvariant, TypeOK
  <2>4. CASE InsertApplication(p)  BY <2>4, InsertKeeps
  <2>5. CASE CommitApplication(p)  BY <2>5, CommitKeeps
  <2> QED  BY <1>2, <2>1, <2>2, <2>3, <2>4, <2>5 DEF Serve
<1>3. ASSUME NEW p \in Calls, Abandon(p)
      PROVE  InductiveInvariant'
  BY <1>3, RollbackKeeps DEF Abandon, InductiveInvariant, TypeOK
<1>4. ASSUME NEW c \in Creators, AcceptApplication(c)
      PROVE  InductiveInvariant'
  <2>1. /\ application[c] = "submitted"
        /\ application' = [application EXCEPT ![c] = "accepted"]
        /\ MoveReservedSlot(c, "accepted") /\ MoveReservation(c, "converted")
        /\ UNCHANGED <<reserved, reply, call>>
    BY <1>4 DEF AcceptApplication
  <2> QED  BY <2>1, AnswerKeepsSlots, Zenon
<1>5. ASSUME NEW c \in Creators, WithdrawApplication(c)
      PROVE  InductiveInvariant'
  <2>1. /\ application[c] = "submitted"
        /\ application' = [application EXCEPT ![c] = "withdrawn"]
        /\ MoveReservedSlot(c, "available") /\ MoveReservation(c, "released")
        /\ UNCHANGED <<reserved, reply, call>>
    BY <1>5 DEF WithdrawApplication, Release
  <2> QED  BY <2>1, AnswerKeepsSlots, Zenon
<1>6. CASE UNCHANGED vars
  BY <1>6 DEF vars, claimVars, InductiveInvariant, TypeOK, LocksAgree,
     NoSlotTwice, Live, OneKeyOneEffect, Busy, ClaimsKey,
     LocksSlot, Inserts, RecordOf, RequestOf, CreatorOf
<1>7. QED
  BY <1>1, <1>2, <1>3, <1>4, <1>5, <1>6 DEF Next, Undisturbed

(* The rows, the keys and the calls in flight agree at every step.         *)
THEOREM Invariance == Spec => []InductiveInvariant
BY InitHolds, NextKeeps, PTL DEF Spec

(* Calls in flight never share a key, a slot or a creator's application,   *)
(* and what they found is still there when they commit.                    *)
THEOREM LocksSuffice == Spec => []LocksAgree
BY Invariance, PTL DEF InductiveInvariant

(* No slot is promised to two creators, however many calls race for it.    *)
THEOREM NoOverbooking == Spec => []NoSlotTwice
BY Invariance, PTL DEF InductiveInvariant

(* A key has the effect of one request, once.                              *)
THEOREM KeysActOnce == Spec => []OneKeyOneEffect
BY Invariance, PTL DEF InductiveInvariant

-----------------------------------------------------------------------------
(* The refinement: a commit is one application of the life cycle, an       *)
(* answer is itself, and every other step of a call changes nothing there. *)

LEMMA InitRefines == Init => Core!Init
<1>1. -0 = 0
  <2>1. \A x \in Int : -x = 0 - x
    OBVIOUS
  <2>2. 0 \in Int /\ 0 - 0 = 0
    OBVIOUS
  <2> QED  BY <2>1, <2>2, Zenon
<1>2. QED  BY <1>1, Zenon DEF Init, Core!Init, Core!AttemptNumber

LEMMA StepRefines ==
  ASSUME InductiveInvariant, [Next]_vars
  PROVE  [Core!Next]_(Core!vars)
<1>1. ASSUME UNCHANGED claimVars
      PROVE  UNCHANGED Core!vars
  BY <1>1 DEF claimVars, Core!vars, Core!claimVars, Core!reviewVars,
     Core!disputeVars
<1>2. ASSUME NEW p \in Calls, CommitApplication(p)
      PROVE  Core!ApplyForCommunityMission(CreatorOf(p), call[p].slot)
               /\ CreatorOf(p) \in Creators /\ call[p].slot \in Slots
  <2>1. /\ CreatorOf(p) \in Creators /\ call[p].slot \in Slots
        /\ slot[call[p].slot] = "available"
        /\ application[CreatorOf(p)] = "none"
    BY <1>2, CommitFinds
  <2> QED
    BY <1>2, <2>1 DEF CommitApplication, Core!ApplyForCommunityMission,
       Core!reviewVars, Core!disputeVars
<1>3. ASSUME NEW c \in Creators, AcceptApplication(c)
      PROVE  Core!AcceptApplication(c)
  BY <1>3 DEF AcceptApplication, MoveReservedSlot, MoveReservation,
     Core!AcceptApplication, Core!MoveReservedSlot, Core!MoveReservation,
     Core!reviewVars, Core!disputeVars
<1>4. ASSUME NEW c \in Creators, WithdrawApplication(c)
      PROVE  Core!WithdrawApplication(c)
  BY <1>4 DEF WithdrawApplication, Release, MoveReservedSlot, MoveReservation,
     Core!WithdrawApplication, Core!MoveReservedSlot, Core!MoveReservation,
     Core!reviewVars, Core!disputeVars
<1>5. CASE UNCHANGED vars
  BY <1>5, <1>1 DEF vars
<1>6. ASSUME NEW p \in Calls,
             \/ \E r \in Requests, k \in Keys : Begin(p, r, k)
             \/ Serve(p) /\ ~CommitApplication(p)
             \/ Abandon(p)
      PROVE  UNCHANGED claimVars
  BY <1>6 DEF Begin, Serve, ClaimKey, PickSlot, RefuseSlot, InsertApplication,
     Abandon, Rollback
<1>7. QED
  BY <1>1, <1>2, <1>3, <1>4, <1>5, <1>6 DEF Next, Undisturbed, Serve, Core!Next,
     Core!MissionCall

(* The claims implement the applications of the mission life cycle: what   *)
(* is proved there of one step per application holds of racing calls.      *)
THEOREM ClaimsImplement == Spec => ImplementsMissionLifecycle
<1>1. Init => Core!Init
  BY InitRefines
<1>2. InductiveInvariant /\ [Next]_vars => [Core!Next]_(Core!vars)
  BY StepRefines
<1>3. QED
  BY <1>1, <1>2, Invariance, PTL DEF Spec, ImplementsMissionLifecycle, Core!Spec
=============================================================================
