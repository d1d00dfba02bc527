----------------------- MODULE CampaignWorkflowProofs -----------------------
(* Proofs about CampaignWorkflow, for every set of campaigns, keys and     *)
(* payment events and any number of requests, and about RunLedger, for     *)
(* every window, pace and limit of a run.                                  *)
EXTENDS MCCampaignWorkflow, SequenceTheorems, TLAPS

(* One more status change keeps the chain of a campaign's history.         *)
LEMMA MoveKeepsChain ==
  ASSUME TypeOK, HistoryChain, NEW c \in Campaigns, NEW to \in CampaignStatus,
         campaign[c].status = "none" <=> campaign[c].version = 0,
         campaign[c].version + 1 \in Version,
         MoveCampaign(c, to)
  PROVE  /\ campaign' \in [Campaigns -> [status : CampaignStatus \cup {"none"},
                                         version : Version]]
         /\ history' \subseteq Row
         /\ HistoryChain'
  <1> DEFINE version == campaign[c].version + 1
             row == [campaign |-> c, version |-> version,
                     from |-> campaign[c].status, to |-> to]
  <1>1. /\ campaign' = [campaign EXCEPT ![c] = [status |-> to,
                                                version |-> version]]
        /\ history' = history \cup {row}
        /\ row \in Row
        /\ version \in Nat
    BY DEF MoveCampaign, TypeOK, Row, Version
  <1>2. campaign' \in [Campaigns -> [status : CampaignStatus \cup {"none"},
                                     version : Version]]
    BY <1>1 DEF TypeOK
  <1>3. history' \subseteq Row
    BY <1>1 DEF TypeOK
  <1>4. HistoryChain'
    <2> SUFFICES ASSUME NEW d \in Campaigns
                 PROVE  HistoryChain!(d)'
      BY DEF HistoryChain
    <2>1. CASE d # c
      <3>1. RowsOf(d)' = RowsOf(d) /\ campaign'[d] = campaign[d]
        BY <1>1, <2>1 DEF RowsOf, TypeOK
      <3> QED
        BY <3>1 DEF HistoryChain
    <2>2. CASE d = c
      <3>1. /\ RowsOf(c)' = RowsOf(c) \cup {row}
            /\ campaign'[c] = [status |-> to, version |-> version]
        BY <1>1 DEF RowsOf, TypeOK
      <3>2. \A old \in RowsOf(c) : /\ old.version \in 1 .. campaign[c].version
                                   /\ old.version = campaign[c].version
                                        => old.to = campaign[c].status
                                   /\ old.from = "none" <=> old.version = 1
        BY DEF HistoryChain
      <3>3. campaign[c].version \in Nat
        BY DEF TypeOK, Version
      <3>4. \A v \in 1 .. version : \E new \in RowsOf(c)' : new.version = v
        <4> SUFFICES ASSUME NEW v \in 1 .. version
                     PROVE  \E new \in RowsOf(c)' : new.version = v
          OBVIOUS
        <4>1. CASE v = version
          <5>1. row \in RowsOf(c)' /\ row.version = v
            BY <3>1, <4>1
          <5> QED
            BY <5>1
        <4>2. CASE v # version
          BY <3>1, <3>3, <4>2 DEF HistoryChain
        <4> QED
          BY <4>1, <4>2
      <3>5. \A new \in RowsOf(c)' :
              /\ new.version \in 1 .. version
              /\ new.version = version => new.to = to
              /\ new.from = "none" <=> new.version = 1
        BY <3>1, <3>2, <3>3
      <3>6. \A new, next \in RowsOf(c)' :
              /\ next.version = new.version => next = new
              /\ next.version = new.version + 1 => next.from = new.to
        <4>1. \A new, next \in RowsOf(c) :
                /\ next.version = new.version => next = new
                /\ next.version = new.version + 1 => next.from = new.to
          BY DEF HistoryChain
        <4> QED
          BY <3>1, <3>2, <3>3, <4>1
      <3> QED
        BY <2>2, <3>1, <3>4, <3>5, <3>6
    <2> QED
      BY <2>1, <2>2
  <1> QED
    BY <1>2, <1>3, <1>4

(* allowedTransitions, one pair of statuses after the other.               *)
LEMMA TransitionTable ==
  ASSUME NEW from \in CampaignStatus, NEW to \in AllowedTransitions[from]
  PROVE  \/ from = "draft"     /\ to \in {"submitted", "canceled"}
         \/ from = "submitted" /\ to \in {"approved", "canceled"}
         \/ from = "approved"  /\ to = "canceled"
         \/ from = "funded"    /\ to = "published"
  <1>1. /\ AllowedTransitions["draft"] = {"submitted", "canceled"}
        /\ AllowedTransitions["submitted"] = {"approved", "canceled"}
        /\ AllowedTransitions["approved"] = {"canceled"}
        /\ AllowedTransitions["funded"] = {"published"}
        /\ AllowedTransitions["published"] = {}
        /\ AllowedTransitions["canceled"] = {}
    BY DEF AllowedTransitions
  <1> QED
    BY <1>1 DEF CampaignStatus

-----------------------------------------------------------------------------
(* A request that is served: its campaign moves on from the version the    *)
(* client saw, and its key is bound to what was done.                      *)
LEMMA ServedKeepsKeys ==
  ASSUME InductiveInvariant, NEW r \in requests, Unclaimed(r),
         campaign[r.campaign].version = r.expected,
         MoveCampaign(r.campaign, r.to),
         Respond(r, [campaign |-> r.campaign, status |-> r.to,
                     version |-> r.expected + 1])
  PROVE  KeysMatchEffects' /\ AnswersHold'
  <1> DEFINE response == [campaign |-> r.campaign, status |-> r.to,
                          version |-> r.expected + 1]
             new == [request |-> r, response |-> response]
             row == [campaign |-> r.campaign, version |-> r.expected + 1,
                     from |-> campaign[r.campaign].status, to |-> r.to]
  <1>1. /\ records' = records \cup {new} /\ answers' = answers \cup {new}
        /\ history' = history \cup {row}
        /\ r \in Request /\ r.expected \in Nat
    BY DEF Respond, MoveCampaign, InductiveInvariant, TypeOK, Request, Version
  <1>2. \A d \in records : d.request.key = r.key
                              => Operation(d.request) # Operation(r)
    BY DEF Unclaimed, Claimed
  <1>3. \A d, e \in records : d.request.key = e.request.key
              /\ Operation(d.request) = Operation(e.request) => d = e
    BY DEF InductiveInvariant, KeysMatchEffects, Claimed
  <1>4. \A d \in records :
          /\ d.response = [campaign |-> d.request.campaign,
                           status |-> d.request.to,
                           version |-> d.request.expected + 1]
          /\ \E old \in history : /\ old.campaign = d.response.campaign
                                  /\ old.version = d.response.version
                                  /\ old.to = d.response.status
          /\ \A e \in records : d.response = e.response => d = e
    BY DEF InductiveInvariant, KeysMatchEffects
  <1>5. \A old \in history : old.campaign = r.campaign => old.version # row.version
    <2> SUFFICES ASSUME NEW old \in history, old.campaign = r.campaign
                 PROVE  old.version # row.version
      OBVIOUS
    <2>1. r.campaign \in Campaigns /\ old \in RowsOf(r.campaign)
      BY <1>1 DEF RowsOf, Request
    <2>2. old.version \in 1 .. campaign[r.campaign].version
      BY <2>1 DEF InductiveInvariant, HistoryChain
    <2> QED
      BY <1>1, <2>2
  <1>6. \A d \in records : d.response # response
    <2> SUFFICES ASSUME NEW d \in records, d.response = response
                 PROVE  FALSE
      OBVIOUS
    <2>1. PICK old \in history : /\ old.campaign = d.response.campaign
                                 /\ old.version = d.response.version
      BY <1>4
    <2>2. old.campaign = r.campaign /\ old.version = row.version
      BY <2>1
    <2> QED
      BY <1>5, <2>2
  <1>7. \A d, e \in records' : d \in Claimed(e.request)' => d = e
    <2>1. \A d, e \in records' : d \in Claimed(e.request)' =>
             /\ d.request.key = e.request.key
             /\ Operation(d.request) = Operation(e.request)
      BY DEF Claimed
    <2> QED
      BY <1>1, <1>2, <1>3, <2>1
  <1>8. \A old \in history' :
          old.to = "funded" \/ \E d \in records' :
            d.response = [campaign |-> old.campaign, status |-> old.to,
                          version |-> old.version]
    <2> SUFFICES ASSUME NEW old \in history', old.to # "funded"
                 PROVE  \E d \in records' :
                          d.response = [campaign |-> old.campaign,
                                        status |-> old.to,
                                        version |-> old.version]
      OBVIOUS
    <2>1. CASE old \in history
      BY <1>1, <2>1 DEF InductiveInvariant, KeysMatchEffects
    <2>2. CASE old = row
      <3>1. new \in records' /\ new.response = [campaign |-> old.campaign,
                          status |-> old.to, version |-> old.version]
        BY <1>1, <2>2
      <3> QED
        BY <3>1
    <2> QED
      BY <1>1, <2>1, <2>2
  <1>9. \A d \in records' :
          /\ d.response = [campaign |-> d.request.campaign,
                           status |-> d.request.to,
                           version |-> d.request.expected + 1]
          /\ \E old \in history' : /\ old.campaign = d.response.campaign
                                   /\ old.version = d.response.version
                                   /\ old.to = d.response.status
          /\ \A e \in records' : d.response = e.response => d = e
    <2> SUFFICES ASSUME NEW d \in records'
                 PROVE  /\ d.response = [campaign |-> d.request.campaign,
                                         status |-> d.request.to,
                                         version |-> d.request.expected + 1]
                        /\ \E old \in history' :
                             /\ old.campaign = d.response.campaign
                             /\ old.version = d.response.version
                             /\ old.to = d.response.status
                        /\ \A e \in records' : d.response = e.response => d = e
      OBVIOUS
    <2>1. CASE d \in records
      BY <1>1, <1>4, <1>6, <2>1
    <2>2. CASE d = new
      <3>1. /\ row \in history' /\ row.campaign = d.response.campaign
            /\ row.version = d.response.version
            /\ row.to = d.response.status
        BY <1>1, <2>2
      <3>2. \A e \in records' : d.response = e.response => d = e
        BY <1>1, <1>6, <2>2
      <3>3. d.response = [campaign |-> d.request.campaign,
                          status |-> d.request.to,
                          version |-> d.request.expected + 1]
        BY <2>2
      <3> QED
        BY <3>1, <3>2, <3>3
    <2> QED
      BY <1>1, <2>1, <2>2
  <1>10. KeysMatchEffects'
    BY <1>7, <1>8, <1>9 DEF KeysMatchEffects
  <1>11. AnswersHold'
    BY <1>1 DEF InductiveInvariant, AnswersHold
  <1> QED
    BY <1>10, <1>11

LEMMA ServedKeepsTypes ==
  ASSUME TypeOK, NEW r \in requests, r.expected + 1 \in Version,
         Respond(r, [campaign |-> r.campaign, status |-> r.to,
                     version |-> r.expected + 1])
  PROVE  /\ records' \subseteq [request : Request, response : Response]
         /\ answers' \subseteq [request : Request, response : Response]
  BY DEF TypeOK, Respond, Request, Response

LEMMA CreatePreserves ==
  ASSUME InductiveInvariant, NEW r \in requests, CreateDraftCampaign(r)
  PROVE  InductiveInvariant'
  <1>1. /\ r \in Request /\ r.expected = 0 /\ r.to = "draft"
        /\ r.campaign \in Campaigns /\ 1 \in Version
    BY DEF InductiveInvariant, TypeOK, CreateDraftCampaign, Operation,
           Request, Version
  <1>2. /\ campaign[r.campaign].version = 0
        /\ campaign[r.campaign].status = "none"
    BY <1>1 DEF InductiveInvariant, StatusAtVersion, CreateDraftCampaign,
                TypeOK, CampaignStatus
  <1>3. /\ MoveCampaign(r.campaign, "draft")
        /\ Respond(r, [campaign |-> r.campaign, status |-> r.to,
                       version |-> r.expected + 1])
        /\ UNCHANGED <<contract, funding, sent>>
    BY <1>1 DEF CreateDraftCampaign
  <1>4. /\ campaign' = [campaign EXCEPT ![r.campaign] =
                          [status |-> "draft", version |-> 1]]
        /\ \A row \in history' : row \in history \/ row.to = "draft"
    BY <1>2, <1>3 DEF MoveCampaign
  <1>5. TypeOK' /\ HistoryChain'
    BY <1>1, <1>2, <1>3, MoveKeepsChain, ServedKeepsTypes
       DEF InductiveInvariant, TypeOK, CampaignStatus, sent
  <1>6. KeysMatchEffects' /\ AnswersHold'
    BY <1>1, <1>2, <1>3, ServedKeepsKeys DEF CreateDraftCampaign
  <1>7. StatusAtVersion'
    BY <1>1, <1>4 DEF InductiveInvariant, TypeOK, StatusAtVersion
  <1>8. FundingAgreement'
    BY <1>1, <1>2, <1>3, <1>4 DEF InductiveInvariant, TypeOK, FundingAgreement
  <1>9. ContractBeforeSubmission'
    BY <1>3, <1>4 DEF InductiveInvariant, ContractBeforeSubmission
  <1> QED
    BY <1>3, <1>5, <1>6, <1>7, <1>8, <1>9 DEF InductiveInvariant, sent

LEMMA TransitionPreserves ==
  ASSUME InductiveInvariant, NEW r \in requests, TransitionCampaign(r)
  PROVE  InductiveInvariant'
  <1> DEFINE c == r.campaign
  <1>1. /\ r \in Request /\ c \in Campaigns /\ r.to \in CampaignStatus
        /\ campaign[c].version = r.expected /\ r.expected \in 1 .. 5
        /\ campaign[c].status \in CampaignStatus
    BY DEF InductiveInvariant, TypeOK, TransitionCampaign, SawThisVersion,
           StatusAtVersion, Request, Version
  <1>2. \/ campaign[c].status = "draft" /\ r.to \in {"submitted", "canceled"}
        \/ campaign[c].status = "submitted" /\ r.to \in {"approved", "canceled"}
        \/ campaign[c].status = "approved" /\ r.to = "canceled"
        \/ campaign[c].status = "funded" /\ r.to = "published"
    BY <1>1, TransitionTable DEF TransitionCampaign
  <1>3. /\ MoveCampaign(c, r.to)
        /\ Respond(r, [campaign |-> c, status |-> r.to,
                       version |-> r.expected + 1])
        /\ r.to = "submitted" => contract[c] = "complete"
        /\ UNCHANGED <<contract, funding, sent>>
    BY <1>1 DEF TransitionCampaign, IsContractComplete
  <1>4. /\ campaign' = [campaign EXCEPT ![c] =
                          [status |-> r.to, version |-> r.expected + 1]]
        /\ \A row \in history' : row \in history
                                   \/ (row.to = r.to /\ row.campaign = c)
    BY <1>1, <1>3 DEF MoveCampaign
  <1>5. r.expected + 1 \in Version
    BY <1>1, <1>2 DEF InductiveInvariant, StatusAtVersion, Version
  <1>6. campaign[c].status # "none" /\ campaign[c].version # 0
    BY <1>1, <1>2
  <1>7. TypeOK' /\ HistoryChain'
    <2>1. TypeOK /\ HistoryChain
      BY DEF InductiveInvariant
    <2>2. /\ campaign' \in [Campaigns -> [status : CampaignStatus \cup {"none"},
                                          version : Version]]
          /\ history' \subseteq Row
          /\ HistoryChain'
      BY <1>1, <1>3, <1>5, <1>6, <2>1, MoveKeepsChain
    <2>3. /\ records' \subseteq [request : Request, response : Response]
          /\ answers' \subseteq [request : Request, response : Response]
      BY <1>3, <1>5, <2>1, ServedKeepsTypes
    <2> QED
      BY <1>3, <2>1, <2>2, <2>3 DEF TypeOK, sent
  <1>8. KeysMatchEffects' /\ AnswersHold'
    BY <1>1, <1>3, ServedKeepsKeys DEF TransitionCampaign
  <1>9. StatusAtVersion'
    BY <1>1, <1>2, <1>4 DEF InductiveInvariant, TypeOK, StatusAtVersion
  <1>10. FundingAgreement'
    BY <1>1, <1>2, <1>3, <1>4 DEF InductiveInvariant, TypeOK, FundingAgreement
  <1>11. ContractBeforeSubmission'
    BY <1>3, <1>4 DEF InductiveInvariant, ContractBeforeSubmission
  <1> QED
    BY <1>3, <1>7, <1>8, <1>9, <1>10, <1>11 DEF InductiveInvariant, sent

LEMMA FundingPreserves ==
  ASSUME InductiveInvariant, NEW payment \in payments,
         RecordCampaignFunding(payment)
  PROVE  InductiveInvariant'
  <1> DEFINE c == payment.campaign
  <1>1. /\ c \in Campaigns /\ payment.event \in Events
        /\ campaign[c].status = "approved" /\ campaign[c].version = 3
        /\ MoveCampaign(c, "funded")
        /\ funding' = [funding EXCEPT ![c] = payment.event]
        /\ \A d \in Campaigns : funding[d] # payment.event
        /\ UNCHANGED <<contract, records, sent, answers>>
    BY DEF InductiveInvariant, TypeOK, RecordCampaignFunding, IsApproved,
           StatusAtVersion
  <1>2. /\ campaign' = [campaign EXCEPT ![c] =
                          [status |-> "funded", version |-> 4]]
        /\ history' = history \cup {[campaign |-> c, version |-> 4,
                                     from |-> "approved", to |-> "funded"]}
    BY <1>1 DEF MoveCampaign
  <1>3. TypeOK' /\ HistoryChain'
    <2>1. TypeOK /\ HistoryChain
      BY DEF InductiveInvariant
    <2>2. /\ campaign' \in [Campaigns -> [status : CampaignStatus \cup {"none"},
                                          version : Version]]
          /\ history' \subseteq Row
          /\ HistoryChain'
      BY <1>1, <2>1, MoveKeepsChain DEF CampaignStatus, Version
    <2> QED
      BY <1>1, <2>1, <2>2 DEF TypeOK, sent
  <1>4. KeysMatchEffects' /\ AnswersHold'
    BY <1>1, <1>2 DEF InductiveInvariant, KeysMatchEffects, AnswersHold, Claimed
  <1>5. StatusAtVersion'
    BY <1>1, <1>2 DEF InductiveInvariant, TypeOK, StatusAtVersion
  <1>6. FundingAgreement'
    BY <1>1, <1>2, EventsAssumption
       DEF InductiveInvariant, TypeOK, FundingAgreement
  <1>7. ContractBeforeSubmission'
    BY <1>1, <1>2 DEF InductiveInvariant, ContractBeforeSubmission
  <1> QED
    BY <1>1, <1>3, <1>4, <1>5, <1>6, <1>7 DEF InductiveInvariant, sent

(* The calls that move no campaign.                                        *)
LEMMA OthersPreserve ==
  ASSUME InductiveInvariant,
         \/ \E r \in Request : Send(r)
         \/ \E e \in Events, c \in Campaigns : Pay(e, c)
         \/ \E r \in requests : Replay(r)
         \/ \E c \in Campaigns : ConfigureCampaignContract(c)
         \/ \E c \in Campaigns : ConfigureDeliverableRequirements(c)
  PROVE  InductiveInvariant'
  <1> USE DEF InductiveInvariant
  <1>1. /\ UNCHANGED <<campaign, history, records, funding>>
        /\ \A r \in requests' : r \in requests
              \/ (r \in Request /\ (r.expected = 0 <=> r.to = "draft"))
        /\ payments' \subseteq [event : Events, campaign : Campaigns]
        /\ answers' \subseteq records
        /\ contract' \in [Campaigns -> {"none", "brief", "complete"}]
        /\ \A c \in Campaigns : contract[c] = "complete"
                                  => contract'[c] = "complete"
    BY DEF Send, Pay, Replay, IsReplay, ConfigureCampaignContract, AnswersHold,
           ConfigureDeliverableRequirements, stored, sent, TypeOK
  <1>2. TypeOK'
    BY <1>1 DEF TypeOK
  <1>3. StatusAtVersion' /\ HistoryChain' /\ FundingAgreement'
    BY <1>1 DEF StatusAtVersion, HistoryChain, FundingAgreement, RowsOf
  <1>4. KeysMatchEffects' /\ AnswersHold'
    BY <1>1 DEF KeysMatchEffects, AnswersHold, Claimed
  <1>5. ContractBeforeSubmission'
    BY <1>1 DEF ContractBeforeSubmission, TypeOK, Row
  <1> QED
    BY <1>1, <1>2, <1>3, <1>4, <1>5

LEMMA InitEstablishes == Init => InductiveInvariant
  BY DEF Init, InductiveInvariant, TypeOK, StatusAtVersion, HistoryChain,
         RowsOf, FundingAgreement, KeysMatchEffects, AnswersHold,
         ContractBeforeSubmission, Claimed, CampaignStatus, Version

LEMMA NextPreserves == InductiveInvariant /\ [Next]_vars => InductiveInvariant'
  <1> SUFFICES ASSUME InductiveInvariant, [Next]_vars
               PROVE  InductiveInvariant'
    OBVIOUS
  <1>1. CASE UNCHANGED vars
    BY <1>1 DEF vars, stored, sent, InductiveInvariant, TypeOK,
                StatusAtVersion, HistoryChain, RowsOf, FundingAgreement,
                KeysMatchEffects, Claimed, AnswersHold,
                ContractBeforeSubmission
  <1>2. CASE Next
    BY <1>2, CreatePreserves, TransitionPreserves, FundingPreserves,
       OthersPreserve DEF Next
  <1> QED
    BY <1>1, <1>2

-----------------------------------------------------------------------------
(* The rows of campaign-store.ts and of recordCampaignFunding agree at     *)
(* every step, in whatever order requests and payments are delivered.      *)
THEOREM Invariance == Spec => []InductiveInvariant
  BY InitEstablishes, NextPreserves, PTL DEF Spec

(* Statuses, versions and responses keep their declared shape; no campaign *)
(* has more than five versions.                                            *)
THEOREM TypeCorrect == Spec => []TypeOK
  BY Invariance, PTL DEF InductiveInvariant

(* campaign_status_history is a chain from draft to the current status.    *)
THEOREM HistoryIsChain == Spec => []HistoryChain
  BY Invariance, PTL DEF InductiveInvariant

(* Money is held exactly by funded and published campaigns.                *)
THEOREM FundingAgrees == Spec => []FundingAgreement
  BY Invariance, PTL DEF InductiveInvariant

(* transitionCampaign and createDraftCampaign take effect once per key.    *)
THEOREM KeysMatch == Spec => []KeysMatchEffects
  BY Invariance, PTL DEF InductiveInvariant

(* A campaign is submitted with a complete contract.                       *)
THEOREM ContractFirst == Spec => []ContractBeforeSubmission
  BY Invariance, PTL DEF InductiveInvariant


-----------------------------------------------------------------------------
(* A run of the ephemeral environment and its ledger.                      *)
\* The events of a run.
Event == [from : Run!States, to : Run!States, at : Nat]

\* The table of transitions leads from state to state, never to the same one,
\* and ends where it ends.
LEMMA TableOfRun ==
  /\ Run!States = {"plan_approved", "apply_started", "apply_succeeded", "apply_failed",
       "tests_started", "tests_passed", "tests_failed", "continue_approved", "rollback_started",
       "rollback_succeeded", "rollback_failed", "destroy_plan_reviewed", "destroy_started",
       "destroy_succeeded", "destroy_failed", "destroy_timed_out", "incident_opened",
       "reconciliation_started", "reconciled_clean", "orphan_detected", "inventory_mismatch",
       "complete", "escalated"}
  /\ \A s \in Run!States : Run!AllowedTransitions[s] \in SUBSET Run!States
  /\ \A s \in Run!States : s \notin Run!AllowedTransitions[s]
  /\ \A s \in Run!TerminalStates : s \in Run!States /\ Run!AllowedTransitions[s] = {}
BY DEF Run!States, Run!AllowedTransitions, Run!TerminalStates

\* After an incident, and after a destroy, the run only goes on to its end.
LEMMA LateStates ==
  /\ \A s \in Run!AfterIncident : Run!AllowedTransitions[s] \in SUBSET Run!AfterIncident
  /\ \A s \in Run!AfterDestroy : Run!AllowedTransitions[s] \in SUBSET Run!AfterDestroy
  /\ \A s \in Run!AfterDestroy : "incident_opened" \notin Run!AllowedTransitions[s]
  /\ \A s \in Run!AfterIncident : "destroy_succeeded" \notin Run!AllowedTransitions[s]
  /\ \A s \in Run!States : "incident_opened" \in Run!AllowedTransitions[s] => s \notin Run!AfterDestroy
  /\ "incident_opened" \in Run!AfterIncident /\ "destroy_succeeded" \in Run!AfterDestroy
BY DEF Run!States, Run!AllowedTransitions, Run!AfterIncident, Run!AfterDestroy

\* A piece of a sequence.
LEMMA SubSeqOf ==
  ASSUME NEW S, NEW s \in Seq(S), NEW a \in 1 .. Len(s) + 1, NEW b \in 0 .. Len(s)
  PROVE  /\ SubSeq(s, a, b) \in Seq(S)
         /\ Len(SubSeq(s, a, b)) = IF a <= b THEN b - a + 1 ELSE 0
         /\ \A k \in 1 .. b - a + 1 : SubSeq(s, a, b)[k] = s[a + k - 1]
<1>1. a \in Int /\ b \in Int /\ \A k \in a .. b : s[k] \in S
  OBVIOUS
<1> QED
  BY <1>1, SubSeqProperties

\* The sequence with its i-th element removed.
LEMMA RemoveAtIs ==
  ASSUME NEW S, NEW s \in Seq(S), NEW i \in 1 .. Len(s)
  PROVE  /\ Run!RemoveAt(s, i) \in Seq(S) /\ Len(Run!RemoveAt(s, i)) = Len(s) - 1
         /\ \A k \in 1 .. Len(s) - 1 : Run!RemoveAt(s, i)[k] = IF k < i THEN s[k] ELSE s[k + 1]
<1> DEFINE n == Len(s)
           x == SubSeq(s, 1, i - 1)
           y == SubSeq(s, i + 1, n)
<1>1. n \in Nat /\ i \in Nat /\ i >= 1 /\ i <= n
  OBVIOUS
<1>2. /\ x \in Seq(S) /\ Len(x) = i - 1 /\ \A k \in 1 .. i - 1 : x[k] = s[k]
  <2>1. 1 \in 1 .. Len(s) + 1 /\ i - 1 \in 0 .. Len(s)
    OBVIOUS
  <2> QED
    BY <2>1, SubSeqOf
<1>3. /\ y \in Seq(S) /\ Len(y) = n - i /\ \A k \in 1 .. n - i : y[k] = s[i + k]
  <2>1. i + 1 \in 1 .. Len(s) + 1 /\ n \in 0 .. Len(s)
    OBVIOUS
  <2>2. /\ y \in Seq(S)
        /\ Len(y) = IF i + 1 <= n THEN n - (i + 1) + 1 ELSE 0
        /\ \A k \in 1 .. n - (i + 1) + 1 : y[k] = s[i + 1 + k - 1]
    BY <2>1, SubSeqOf
  <2> HIDE DEF n, y
  <2>3. \A k \in 1 .. n - i : k \in 1 .. n - (i + 1) + 1 /\ i + 1 + k - 1 = i + k
    BY <1>1
  <2> QED
    BY <1>1, <2>2, <2>3
<1> HIDE DEF x, y, n
<1>4. /\ x \o y \in Seq(S) /\ Len(x \o y) = Len(x) + Len(y)
      /\ \A k \in 1 .. Len(x) + Len(y) :
           (x \o y)[k] = IF k <= Len(x) THEN x[k] ELSE y[k - Len(x)]
  BY <1>2, <1>3, ConcatProperties
<1>5. Len(x) + Len(y) = n - 1
  BY <1>1, <1>2, <1>3
<1>6. ASSUME NEW k \in 1 .. n - 1
      PROVE  (x \o y)[k] = IF k < i THEN s[k] ELSE s[k + 1]
  <2>1. CASE k < i
    <3>1. k <= Len(x) /\ k \in 1 .. i - 1
      BY <1>1, <1>2, <2>1
    <3> QED
      BY <1>4, <1>5, <1>2, <2>1, <3>1
  <2>2. CASE ~(k < i)
    <3>1. ~(k <= Len(x)) /\ k - Len(x) = k - i + 1 /\ k - i + 1 \in 1 .. n - i
          /\ i + (k - i + 1) = k + 1
      BY <1>1, <1>2, <2>2
    <3> QED
      BY <1>4, <1>5, <1>3, <2>2, <3>1
  <2> QED
    BY <2>1, <2>2
<1>7. Run!RemoveAt(s, i) = x \o y
  BY DEF Run!RemoveAt, x, y, n
<1> QED
  BY <1>4, <1>5, <1>6, <1>7 DEF n

\* The sequence with an element inserted before its i-th one.
LEMMA InsertAtIs ==
  ASSUME NEW S, NEW s \in Seq(S), NEW i \in 1 .. Len(s), NEW e \in S
  PROVE  /\ Run!InsertAt(s, i, e) \in Seq(S) /\ Len(Run!InsertAt(s, i, e)) = Len(s) + 1
         /\ Run!InsertAt(s, i, e)[i] = e /\ Run!InsertAt(s, i, e)[i + 1] = s[i]
<1> DEFINE n == Len(s)
           x == SubSeq(s, 1, i - 1)
           y == SubSeq(s, i, n)
           w == x \o <<e>>
<1>1. n \in Nat /\ i \in Nat /\ i >= 1 /\ i <= n
  OBVIOUS
<1>2. x \in Seq(S) /\ Len(x) = i - 1
  <2>1. 1 \in 1 .. Len(s) + 1 /\ i - 1 \in 0 .. Len(s)
    OBVIOUS
  <2> QED
    BY <2>1, SubSeqOf
<1>3. y \in Seq(S) /\ Len(y) = n - i + 1 /\ y[1] = s[i]
  <2>1. i \in 1 .. Len(s) + 1 /\ n \in 0 .. Len(s)
    OBVIOUS
  <2>2. /\ y \in Seq(S)
        /\ Len(y) = IF i <= n THEN n - i + 1 ELSE 0
        /\ \A k \in 1 .. n - i + 1 : y[k] = s[i + k - 1]
    BY <2>1, SubSeqOf
  <2> HIDE DEF n, y
  <2>3. 1 \in 1 .. n - i + 1 /\ i + 1 - 1 = i
    BY <1>1
  <2> QED
    BY <1>1, <2>2, <2>3
<1> HIDE DEF x, y, n
<1>4. <<e>> \in Seq(S) /\ Len(<<e>>) = 1 /\ <<e>>[1] = e
  OBVIOUS
<1>5. w \in Seq(S) /\ Len(w) = i /\ w[i] = e
  <2>1. /\ w \in Seq(S) /\ Len(w) = Len(x) + Len(<<e>>)
        /\ \A k \in 1 .. Len(x) + Len(<<e>>) :
             w[k] = IF k <= Len(x) THEN x[k] ELSE <<e>>[k - Len(x)]
    BY <1>2, <1>4, ConcatProperties
  <2>2. Len(x) + Len(<<e>>) = i /\ i \in 1 .. i /\ ~(i <= Len(x)) /\ i - Len(x) = 1
    BY <1>1, <1>2, <1>4
  <2> HIDE DEF w
  <2> QED
    BY <2>1, <2>2, <1>4
<1> HIDE DEF w
<1>6. /\ w \o y \in Seq(S) /\ Len(w \o y) = Len(w) + Len(y)
      /\ \A k \in 1 .. Len(w) + Len(y) :
           (w \o y)[k] = IF k <= Len(w) THEN w[k] ELSE y[k - Len(w)]
  BY <1>5, <1>3, ConcatProperties
<1>7. Len(w) + Len(y) = n + 1 /\ i \in 1 .. n + 1 /\ i + 1 \in 1 .. n + 1
      /\ i <= Len(w) /\ ~(i + 1 <= Len(w)) /\ i + 1 - Len(w) = 1
  BY <1>1, <1>5, <1>3
<1>8. Run!InsertAt(s, i, e) = w \o y
  BY DEF Run!InsertAt, x, y, w, n
<1> QED
  BY <1>3, <1>5, <1>6, <1>7, <1>8 DEF n

\* A path never stays where it is, and goes on from where it was.
LEMMA PathGoesOn ==
  ASSUME Run!JournalIsPath
  PROVE  /\ journal \in Seq(Event)
         /\ \A i \in 1 .. Len(journal) :
              /\ journal[i].from \in Run!States /\ journal[i].to \in Run!States
              /\ journal[i].to \in Run!AllowedTransitions[journal[i].from]
              /\ journal[i].from # journal[i].to
         /\ Len(journal) >= 1 => journal[1].from = "plan_approved"
         /\ \A i \in 1 .. Len(journal) : i > 1 => journal[i].from = journal[i - 1].to
<1>1. journal \in Seq(Event)
  BY DEF Run!JournalIsPath, Event
<1>2. \A i \in 1 .. Len(journal) : journal[i] \in Event
  BY <1>1
<1>3. \A i \in 1 .. Len(journal) : journal[i].from \in Run!States /\ journal[i].to \in Run!States
  BY <1>2 DEF Event
<1>4. \A i \in 1 .. Len(journal) :
        /\ journal[i].from = Run!Before(journal, i).to
        /\ journal[i].to \in Run!AllowedTransitions[journal[i].from]
  <2>1. \A i \in 1 .. Len(journal) : Run!Follows(journal, i)
    BY <1>1 DEF Run!JournalIsPath
  <2> QED
    BY <2>1 DEF Run!Follows
<1>5. \A i \in 1 .. Len(journal) : journal[i].from # journal[i].to
  BY <1>3, <1>4, TableOfRun
<1>6. Len(journal) >= 1 => journal[1].from = "plan_approved"
  <2>1. Len(journal) >= 1 => 1 \in 1 .. Len(journal)
    BY <1>1
  <2> QED
    BY <2>1, <1>4 DEF Run!Before
<1>7. \A i \in 1 .. Len(journal) : i > 1 => journal[i].from = journal[i - 1].to
  <2> SUFFICES ASSUME NEW i \in 1 .. Len(journal), i > 1
               PROVE  journal[i].from = journal[i - 1].to
    OBVIOUS
  <2>1. i # 1
    OBVIOUS
  <2> QED
    BY <2>1, <1>4 DEF Run!Before
<1> QED
  BY <1>1, <1>3, <1>4, <1>5, <1>6, <1>7

\* The events of an accepted ledger go on in the same way, to its outcome.
LEMMA EventsGoOn ==
  ASSUME NEW l, l.events \in Seq(Event), Run!IsPath(l)
  PROVE  /\ Len(l.events) >= 1
         /\ l.events[1].from = "plan_approved"
         /\ \A i \in 1 .. Len(l.events) : i > 1 => l.events[i].from = l.events[i - 1].to
         /\ l.events[Len(l.events)].to = l.outcome
<1> DEFINE e == l.events
<1>1. e \in Seq(Event) /\ Len(e) >= 1 /\ e[Len(e)].to = l.outcome
  BY DEF Run!IsPath, Run!Last
<1>2. \A i \in 1 .. Len(e) : e[i].from = Run!Before(e, i).to
  BY <1>1 DEF Run!IsPath, Run!Follows
<1> HIDE DEF e
<1>3. e[1].from = "plan_approved"
  <2>1. 1 \in 1 .. Len(e)
    BY <1>1
  <2> QED
    BY <2>1, <1>2 DEF Run!Before
<1>4. \A i \in 1 .. Len(e) : i > 1 => e[i].from = e[i - 1].to
  <2> SUFFICES ASSUME NEW i \in 1 .. Len(e), i > 1
               PROVE  e[i].from = e[i - 1].to
    OBVIOUS
  <2>1. i # 1
    BY <1>1
  <2> QED
    BY <2>1, <1>2 DEF Run!Before
<1> QED
  BY <1>1, <1>3, <1>4 DEF e

\* The event that a run took at step i cannot come where it started from.
LEMMA StepInPlace ==
  ASSUME Run!JournalIsPath, NEW e \in Seq(Event), NEW i \in 1 .. Len(journal),
         i <= Len(e), e[i].from = journal[i].to,
         i > 1 => e[i - 1] = journal[i - 1],
         e[1].from = "plan_approved", i > 1 => e[i].from = e[i - 1].to
  PROVE  FALSE
<1>1. i \in Nat /\ i >= 1 /\ Len(journal) >= 1 /\ journal[i].from # journal[i].to
  BY PathGoesOn
<1>2. CASE i = 1
  BY <1>1, <1>2, PathGoesOn
<1>3. CASE i > 1
  BY <1>1, <1>3, PathGoesOn
<1> QED
  BY <1>1, <1>2, <1>3

\* Losing an event breaks the path, or leaves it short of its end.
LEMMA RemovalIsSeen ==
  ASSUME Run!JournalIsPath, NEW l, NEW i \in 1 .. Len(journal),
         l.events = Run!RemoveAt(journal, i), l.outcome \in Run!TerminalStates, Run!IsPath(l)
  PROVE  FALSE
<1> DEFINE n == Len(journal)
           e == l.events
<1>1. journal \in Seq(Event) /\ n \in Nat /\ i \in Nat /\ i >= 1 /\ i <= n
  BY PathGoesOn
<1>2. /\ e \in Seq(Event) /\ Len(e) = n - 1
      /\ \A k \in 1 .. n - 1 : e[k] = IF k < i THEN journal[k] ELSE journal[k + 1]
  BY <1>1, RemoveAtIs
<1>3. /\ Len(e) >= 1 /\ e[1].from = "plan_approved"
      /\ \A k \in 1 .. Len(e) : k > 1 => e[k].from = e[k - 1].to
      /\ e[Len(e)].to = l.outcome
  BY <1>2, EventsGoOn
<1> HIDE DEF e, n
<1>4. CASE i < n
  <2>1. /\ i <= Len(e) /\ i \in 1 .. n - 1 /\ ~(i < i) /\ i + 1 \in 1 .. n /\ i + 1 > 1
        /\ i + 1 - 1 = i /\ i \in 1 .. Len(e)
    BY <1>1, <1>2, <1>4
  <2>2. e[i].from = journal[i].to
    <3>1. e[i] = journal[i + 1]
      BY <2>1, <1>2
    <3>2. journal[i + 1].from = journal[i].to
      BY <2>1, PathGoesOn DEF n
    <3> QED
      BY <3>1, <3>2
  <2>3. i > 1 => e[i - 1] = journal[i - 1]
    <3>1. i > 1 => i - 1 \in 1 .. n - 1 /\ i - 1 < i
      BY <1>1
    <3> QED
      BY <3>1, <1>2
  <2> QED
    BY <1>2, <1>3, <2>1, <2>2, <2>3, StepInPlace
<1>5. CASE i = n
  <2>1. /\ n - 1 \in 1 .. n - 1 /\ n - 1 < i /\ n \in 1 .. n /\ n > 1
    BY <1>1, <1>2, <1>3, <1>5
  <2>2. e[Len(e)] = journal[n - 1]
    BY <2>1, <1>2
  <2>3. journal[n].from = l.outcome /\ journal[n].to \in Run!AllowedTransitions[journal[n].from]
    BY <2>1, <2>2, <1>3, PathGoesOn DEF n
  <2> QED
    BY <2>3, TableOfRun
<1> QED
  BY <1>1, <1>4, <1>5

\* An event that comes twice does not go on from itself.
LEMMA DoublingIsSeen ==
  ASSUME Run!JournalIsPath, NEW l, NEW i \in 1 .. Len(journal),
         l.events = Run!InsertAt(journal, i, journal[i]), Run!IsPath(l)
  PROVE  FALSE
<1> DEFINE n == Len(journal)
           e == l.events
<1>1. journal \in Seq(Event) /\ n \in Nat /\ i \in Nat /\ i >= 1 /\ i <= n /\ journal[i] \in Event
  BY PathGoesOn
<1>2. e \in Seq(Event) /\ Len(e) = n + 1 /\ e[i] = journal[i] /\ e[i + 1] = journal[i]
  BY <1>1, InsertAtIs
<1>3. \A k \in 1 .. Len(e) : k > 1 => e[k].from = e[k - 1].to
  BY <1>2, EventsGoOn
<1> HIDE DEF e, n
<1>4. i + 1 \in 1 .. Len(e) /\ i + 1 > 1 /\ i + 1 - 1 = i
  BY <1>1, <1>2
<1>5. journal[i].from = journal[i].to
  BY <1>2, <1>3, <1>4
<1> QED
  BY <1>5, PathGoesOn

\* An event before its time does not go on from the one that comes first.
LEMMA MovingIsSeen ==
  ASSUME Run!JournalIsPath, NEW l, NEW i \in 1 .. Len(journal) - 1,
         l.events = [journal EXCEPT ![i] = journal[i + 1], ![i + 1] = journal[i]],
         Run!IsPath(l)
  PROVE  FALSE
<1> DEFINE n == Len(journal)
           e == l.events
<1>1. /\ journal \in Seq(Event) /\ n \in Nat /\ i \in Nat /\ i >= 1 /\ i < n
      /\ i \in 1 .. n /\ i + 1 \in 1 .. n
  BY PathGoesOn
<1>2. journal[i] \in Event /\ journal[i + 1] \in Event
  BY <1>1
<1>3. e \in Seq(Event) /\ Len(e) = n
  BY <1>1, <1>2
<1>4. e[i] = journal[i + 1] /\ \A k \in 1 .. n : k < i => e[k] = journal[k]
  <2>1. i # i + 1 /\ \A k \in 1 .. n : k < i => k # i /\ k # i + 1
    BY <1>1
  <2> QED
    BY <1>1, <2>1
<1>5. /\ e[1].from = "plan_approved"
      /\ \A k \in 1 .. Len(e) : k > 1 => e[k].from = e[k - 1].to
  BY <1>3, EventsGoOn
<1> HIDE DEF e
<1>6. e[i].from = journal[i].to
  <2>1. i + 1 > 1 /\ i + 1 - 1 = i
    BY <1>1
  <2> QED
    BY <1>1, <1>4, <2>1, PathGoesOn
<1>7. i > 1 => e[i - 1] = journal[i - 1]
  <2>1. i > 1 => i - 1 \in 1 .. n /\ i - 1 < i
    BY <1>1
  <2> QED
    BY <2>1, <1>4
<1>8. i <= Len(e) /\ i \in 1 .. Len(e)
  BY <1>1, <1>3
<1> QED
  BY <1>1, <1>3, <1>5, <1>6, <1>7, <1>8, StepInPlace

\* So the events of an accepted ledger are the events of the run.
LEMMA EventsAreTheRuns ==
  ASSUME Run!JournalIsPath, NEW l, l.events \in Run!Copies,
         l.outcome \in Run!TerminalStates, Run!IsPath(l)
  PROVE  l.events = journal /\ l.outcome = status
<1>1. l.events = journal
  <2> QED
    BY RemovalIsSeen, DoublingIsSeen, MovingIsSeen DEF Run!Copies
<1>2. journal \in Seq(Event) /\ Len(journal) >= 1 /\ journal[Len(journal)].to = l.outcome
  BY <1>1, PathGoesOn, EventsGoOn
<1>3. status = journal[Len(journal)].to
  <2>1. Len(journal) + 1 # 1 /\ Len(journal) + 1 - 1 = Len(journal)
    BY <1>2
  <2> QED
    BY <2>1 DEF Run!JournalIsPath, Run!Before
<1> QED
  BY <1>1, <1>2, <1>3

\* One more event keeps the path.
LEMMA StepKeepsPath ==
  ASSUME Run!RunAssumption, Run!TypeOK, Run!JournalIsPath, NEW to, Run!Step(to)
  PROVE  /\ Run!TypeOK' /\ Run!JournalIsPath'
         /\ Run!Went' = Run!Went \cup {to}
<1>1. clock \in Nat /\ started \in Nat /\ status \in Run!States /\ journal \in Seq(Event)
  BY PathGoesOn DEF Run!TypeOK, Run!RunAssumption, Run!States
<1>2. PICK pace \in Nat :
        /\ clock' = clock + pace
        /\ journal' = Append(journal, [from |-> status, to |-> to, at |-> clock + pace])
  BY DEF Run!Step, Run!RunAssumption
<1> DEFINE n == Len(journal)
           x == [from |-> status, to |-> to, at |-> clock + pace]
<1>3. /\ to \in Run!AllowedTransitions[status] /\ to \in Run!States
      /\ status' = to /\ started' = started /\ expires' = expires
  BY <1>1, TableOfRun DEF Run!Step, Run!window
<1>4. x \in Event /\ clock' \in Nat /\ clock <= clock'
  BY <1>1, <1>2, <1>3 DEF Event
<1>5. /\ journal' \in Seq(Event) /\ Len(journal') = n + 1 /\ n \in Nat
      /\ journal'[n + 1] = x
      /\ \A k \in 1 .. n : journal'[k] = journal[k]
  BY <1>1, <1>2, <1>4
<1>6. Run!TypeOK'
  <2>1. started' \in Starts /\ expires' \in Nat /\ clock' \in Nat
    BY <1>3, <1>4 DEF Run!TypeOK
  <2>2. status' \in DOMAIN Run!AllowedTransitions
    BY <1>3 DEF Run!States
  <2>3. gates' \in Gates \cup {{}} /\ left' \in Run!Count /\ retained' \in BOOLEAN
    BY DEF Run!TypeOK, Run!Step, Run!Finds, Run!Count
  <2> QED
    BY <2>1, <2>2, <2>3 DEF Run!TypeOK
<1> HIDE DEF n, x
<1>7. /\ n + 1 \in 1 .. n + 1 /\ 1 .. Len(journal') = 1 .. n \cup {n + 1}
      /\ \A k \in 1 .. n : k \in 1 .. n + 1 /\ (k # 1 => k - 1 \in 1 .. n)
      /\ (n + 1 # 1 => n + 1 - 1 = n /\ n \in 1 .. n)
      /\ n + 1 + 1 # 1 /\ n + 1 + 1 - 1 = n + 1
  BY <1>5
<1>8. ASSUME NEW k, k \in 1 .. n + 1
      PROVE  Run!Before(journal, k)' = Run!Before(journal, k)
  <2>1. k # 1 => k - 1 \in 1 .. n
    BY <1>5, <1>8
  <2> QED
    BY <2>1, <1>3, <1>5 DEF Run!Before
<1>9. ASSUME NEW k, k \in 1 .. n
      PROVE  Run!Follows(journal, k)'
  <2>1. Run!Follows(journal, k)
    BY <1>1, <1>5, <1>9 DEF Run!JournalIsPath, n
  <2>2. journal[k].at \in Nat
    <3>1. journal[k] \in Event
      BY <1>1, <1>5, <1>9 DEF n
    <3> QED
      BY <3>1 DEF Event
  <2>3. journal[k].at <= clock'
    BY <2>1, <2>2, <1>1, <1>4 DEF Run!Follows
  <2>4. Run!Before(journal, k)' = Run!Before(journal, k) /\ journal'[k] = journal[k]
    BY <1>5, <1>7, <1>8, <1>9
  <2> QED
    BY <2>1, <2>3, <2>4 DEF Run!Follows
<1>10. ASSUME NEW k, k = n + 1
       PROVE  Run!Follows(journal, k)'
  <2>1. /\ Run!Before(journal, k).to = status
        /\ Run!Before(journal, k).at <= clock
    BY <1>10 DEF Run!JournalIsPath, n
  <2>2. Run!Before(journal, k).at \in Nat
    <3>1. CASE k = 1
      BY <3>1, <1>1 DEF Run!Before
    <3>2. CASE k # 1
      <4>1. Run!Before(journal, k) = journal[n] /\ n \in 1 .. n
        BY <3>2, <1>5, <1>10 DEF Run!Before
      <4>2. journal[n] \in Event
        BY <4>1, <1>1 DEF n
      <4> QED
        BY <4>1, <4>2 DEF Event
    <3> QED
      BY <3>1, <3>2
  <2>3. x.from = status /\ x.to = to /\ x.at = clock'
    BY <1>2 DEF x
  <2>4. Run!Before(journal, k)' = Run!Before(journal, k) /\ journal'[k] = x
    BY <1>5, <1>7, <1>8, <1>10
  <2>5. Run!Before(journal, k).at <= clock'
    BY <2>1, <2>2, <1>1, <1>4
  <2>6. clock' <= clock'
    BY <1>4
  <2> QED
    BY <2>1, <2>3, <2>4, <2>5, <2>6, <1>3 DEF Run!Follows
<1>11. Run!JournalIsPath'
  <2>1. DOMAIN journal' = 1 .. n \cup {n + 1}
    BY <1>5, <1>7
  <2>2. \A i \in DOMAIN journal' : Run!Follows(journal, i)'
    <3> SUFFICES ASSUME NEW i \in DOMAIN journal'
                 PROVE  Run!Follows(journal, i)'
      OBVIOUS
    <3> QED
      BY <2>1, <1>9, <1>10
  <2>3. x.to = to /\ x.at = clock'
    BY <1>2 DEF x
  <2>4. Len(journal') + 1 # 1 /\ journal'[Len(journal') + 1 - 1] = x
    BY <1>5, <1>7
  <2>5. status' = Run!Before(journal, Len(journal) + 1).to'
    BY <1>3, <2>3, <2>4 DEF Run!Before
  <2>6. Run!Before(journal, Len(journal) + 1).at' <= clock'
    BY <1>4, <2>3, <2>4 DEF Run!Before
  <2> QED
    BY <2>2, <2>5, <2>6, <1>5 DEF Run!JournalIsPath, Event
<1>12. Run!Went' = Run!Went \cup {to}
  <2>1. DOMAIN journal = 1 .. n /\ DOMAIN journal' = 1 .. n \cup {n + 1}
    BY <1>1, <1>5, <1>7 DEF n
  <2>2. x.to = to
    BY DEF x
  <2> QED
    BY <2>1, <2>2, <1>5 DEF Run!Went
<1> QED
  BY <1>6, <1>11, <1>12

\* An incident and an orderly destroy exclude each other.
LEMMA StepKeepsOrder ==
  ASSUME Run!RunAssumption, Run!TypeOK, Run!JournalIsPath, Run!IncidentOrDestroy,
         NEW to, Run!Step(to)
  PROVE  Run!IncidentOrDestroy'
<1>1. Run!Went' = Run!Went \cup {to} /\ status' = to
  BY StepKeepsPath DEF Run!Step
<1>2. status \in Run!States /\ to \in Run!AllowedTransitions[status]
  BY DEF Run!TypeOK, Run!States, Run!Step
<1>3. ASSUME "incident_opened" \in Run!Went'
      PROVE  "destroy_succeeded" \notin Run!Went' /\ to \in Run!AfterIncident
  <2>1. CASE "incident_opened" \in Run!Went
    BY <1>1, <1>2, <2>1, LateStates DEF Run!IncidentOrDestroy
  <2>2. CASE "incident_opened" \notin Run!Went
    <3>1. to = "incident_opened"
      BY <1>1, <1>3, <2>2
    <3>2. "destroy_succeeded" \notin Run!Went
      BY <1>2, <3>1, LateStates DEF Run!IncidentOrDestroy
    <3> QED
      BY <1>1, <3>1, <3>2, LateStates
  <2> QED
    BY <2>1, <2>2
<1>4. ASSUME "destroy_succeeded" \in Run!Went'
      PROVE  to \in Run!AfterDestroy
  <2>1. CASE "destroy_succeeded" \in Run!Went
    BY <1>2, <2>1, LateStates DEF Run!IncidentOrDestroy
  <2>2. CASE "destroy_succeeded" \notin Run!Went
    BY <1>1, <1>4, <2>2, LateStates
  <2> QED
    BY <2>1, <2>2
<1> QED
  BY <1>1, <1>3, <1>4 DEF Run!IncidentOrDestroy

\* What is dated by an event has been.
LEMMA DatedHasBeen ==
  ASSUME NEW l, l.events = journal, NEW phase, phase # "apply", Run!IsDated(l, phase)
  PROVE  l.evidence[phase].result \in Run!Went
<1>1. PICK e \in Run!EntryOf(l.events, l.evidence[phase].result) : TRUE
  BY DEF Run!IsDated
<1> QED
  BY <1>1 DEF Run!EntryOf, Run!Went

\* A phase that was run ended as the table of the run allows.
LEMMA EvidenceIsAllowed ==
  ASSUME Run!RunAssumption, Run!JournalIsPath, NEW phase, Run!Evidence(phase) # Run!NotRun
  PROVE  Run!Evidence(phase).result \in Run!AllowedTransitions[Run!StartOf(phase)]
<1> DEFINE ends == {e \in Run!Range(journal) : e.from = Run!StartOf(phase)}
           end  == CHOOSE e \in ends : TRUE
<1>1. ends # {} /\ Run!Evidence(phase).result = end.to
  BY DEF Run!Evidence
<1>2. end \in Run!Range(journal) /\ end.from = Run!StartOf(phase)
  BY <1>1
<1>3. PICK i \in DOMAIN journal : journal[i] = end
  BY <1>2 DEF Run!Range
<1>4. Run!Follows(journal, i)
  BY <1>3 DEF Run!JournalIsPath
<1> QED
  BY <1>1, <1>2, <1>3, <1>4 DEF Run!Follows

\* Where two phases start.
LEMMA StartsOfPhases ==
  /\ Run!StartOf("rollback") = "rollback_started"
  /\ Run!StartOf("destroy") = "destroy_started"
BY DEF Run!StartOf, Run!PhaseOf

\* What the validator accepts at the end of a run is true of it.
LEMMA AcceptedIsTrue ==
  ASSUME Run!RunAssumption, Run!TypeOK, Run!JournalIsPath, Run!IncidentOrDestroy,
         NEW l \in Run!Ledgers, Run!ValidateLedger(l)
  PROVE  Run!TellsTheRun(l)
<1>1. /\ l.events \in Run!Copies /\ l.outcome \in Run!TerminalStates
      /\ l.evidence = [p \in DOMAIN Limit |-> Run!Evidence(p)]
      /\ l.overdue \in BOOLEAN /\ l.incident \in BOOLEAN
  BY DEF Run!Ledgers
<1>2. DOMAIN Limit = Run!Phases
  BY DEF Run!RunAssumption
<1>3. \A p \in Run!Phases : l.evidence[p] = Run!Evidence(p)
  BY <1>1, <1>2
<1>4. /\ Run!IsBounded(l) /\ Run!TestsAgree(l) /\ Run!TimingsAgree(l)
      /\ Run!InventoriesAgree(l) /\ Run!EventsAgree(l) /\ Run!CompletionAgrees(l)
  BY DEF Run!ValidateLedger
<1>5. l.events = journal /\ l.outcome = status
  BY <1>1, <1>4, EventsAreTheRuns DEF Run!EventsAgree
<1>6. clock <= expires /\ clock - started <= MaxLife /\ clock <= Cutoff /\ retained
  <2>1. clock \in Nat /\ started \in Nat /\ expires \in Nat /\ MaxLife \in Nat /\ Cutoff \in Nat
    BY DEF Run!TypeOK, Run!RunAssumption
  <2>2. clock <= expires /\ expires - started <= MaxLife /\ expires <= Cutoff
    BY <1>4 DEF Run!IsBounded
  <2>3. retained
    BY <1>4 DEF Run!InventoriesAgree
  <2> QED
    BY <2>1, <2>2, <2>3
<1>7. Run!Visited(l) = Run!Went
  BY <1>5 DEF Run!Visited, Run!Went
<1>8. ASSUME NEW p \in {"tests", "rollback", "destroy"}, Run!Evidence(p) # Run!NotRun \/ p # "rollback"
      PROVE  Run!Evidence(p).result \in Run!Went
  <2>1. p \in Run!Phases /\ p # "apply"
    BY DEF Run!Phases
  <2>2. Run!IsDated(l, p)
    BY <1>2, <1>3, <1>4, <1>8, <2>1 DEF Run!EventsAgree
  <2> QED
    BY <1>3, <1>5, <2>1, <2>2, DatedHasBeen
<1>9. ASSUME l.outcome = "complete"
      PROVE  /\ left.state = 0 /\ left.live = 0
             /\ Run!Evidence("destroy").result = "destroy_succeeded"
             /\ "destroy_succeeded" \in Run!Went
             /\ Run!InTime("destroy")
             /\ \/ gates = {"passed"} /\ "tests_passed" \in Run!Went
                \/ "rollback_succeeded" \in Run!Went /\ Run!InTime("rollback")
  <2>1. "tests" \in Run!Phases /\ "rollback" \in Run!Phases /\ "destroy" \in Run!Phases
        /\ "reconciliation" \in Run!Phases
    BY DEF Run!Phases
  <2>2. /\ Run!Evidence("destroy").result = "destroy_succeeded"
        /\ Run!Evidence("reconciliation").result = "reconciled_clean"
        /\ \/ Run!Evidence("tests").result = "tests_passed"
           \/ Run!Evidence("rollback").result = "rollback_succeeded"
    BY <1>3, <1>4, <1>9, <2>1 DEF Run!CompletionAgrees
  <2>3. left.state = 0 /\ left.live = 0
    BY <1>3, <1>4, <2>1, <2>2 DEF Run!InventoriesAgree
  <2>4. "destroy_succeeded" \in Run!Went
    BY <1>8, <2>2
  <2>5. Run!InTime("destroy")
    BY <1>3, <1>4, <2>1, <2>2 DEF Run!TimingsAgree, Run!WithinLimit, Run!InTime
  <2>6. CASE Run!Evidence("tests").result = "tests_passed"
    <3>1. gates = {"passed"}
      BY <1>3, <1>4, <2>1, <2>6 DEF Run!TestsAgree
    <3>2. "tests_passed" \in Run!Went
      BY <1>8, <2>6
    <3> QED
      BY <2>2, <2>3, <2>4, <2>5, <3>1, <3>2
  <2>7. CASE Run!Evidence("rollback").result = "rollback_succeeded"
    <3>1. Run!Evidence("rollback") # Run!NotRun
      BY <2>7 DEF Run!NotRun
    <3>2. "rollback_succeeded" \in Run!Went
      BY <1>8, <2>7, <3>1
    <3>3. Run!InTime("rollback")
      BY <1>3, <1>4, <2>1, <2>7 DEF Run!TimingsAgree, Run!WithinLimit, Run!InTime
    <3> QED
      BY <2>2, <2>3, <2>4, <2>5, <3>2, <3>3
  <2> QED
    BY <2>2, <2>6, <2>7
<1>10. ASSUME Run!Went \cap Run!FailureStates # {}
       PROVE  l.incident /\ l.outcome = "escalated"
  <2>1. l.incident /\ "incident_opened" \in Run!Went
    BY <1>4, <1>7, <1>10 DEF Run!CompletionAgrees
  <2>2. l.outcome # "complete"
    BY <2>1, <1>9 DEF Run!IncidentOrDestroy
  <2> QED
    BY <1>1, <2>1, <2>2 DEF Run!TerminalStates
<1>11. ASSUME NEW phase \in Run!Phases
       PROVE  \/ Run!InTime(phase)
              \/ phase = "apply" /\ l.overdue
              \/ l.incident /\ l.outcome = "escalated"
  <2>1. l.evidence[phase] = Run!Evidence(phase)
    BY <1>3
  <2>2. Run!WithinLimit(l, phase) => Run!InTime(phase)
    BY <2>1 DEF Run!WithinLimit, Run!InTime
  <2>3. CASE phase \in {"apply", "tests", "reconciliation"}
    BY <1>1, <1>4, <2>2, <2>3 DEF Run!TimingsAgree
  <2>4. CASE phase \in {"rollback", "destroy"}
    <3>1. CASE Run!Evidence(phase) = Run!NotRun
      <4>1. Run!Evidence(phase).finish = 0 /\ Run!Evidence(phase).start = 0 /\ Limit[phase] \in Nat
        BY <3>1 DEF Run!NotRun, Run!RunAssumption
      <4> QED
        BY <4>1 DEF Run!InTime
    <3>2. CASE Run!Evidence(phase) # Run!NotRun
      <4>1. Run!Evidence(phase).result \in Run!Went
        BY <1>8, <2>4, <3>2
      <4>2. Run!Evidence(phase).result \in Run!AllowedTransitions[Run!StartOf(phase)]
        BY <3>2, EvidenceIsAllowed
      <4>3. \/ phase = "rollback" /\ Run!Evidence(phase).result = "rollback_succeeded"
            \/ phase = "destroy" /\ Run!Evidence(phase).result = "destroy_succeeded"
            \/ Run!Evidence(phase).result \in Run!FailureStates
        BY <2>4, <4>2, StartsOfPhases DEF Run!AllowedTransitions, Run!FailureStates
      <4>4. CASE Run!Evidence(phase).result \in Run!FailureStates
        BY <1>10, <4>1, <4>4
      <4>5. CASE Run!Evidence(phase).result \notin Run!FailureStates
        BY <1>4, <2>1, <2>2, <4>3, <4>5 DEF Run!TimingsAgree
      <4> QED
        BY <4>4, <4>5
    <3> QED
      BY <3>1, <3>2
  <2> QED
    BY <2>3, <2>4 DEF Run!Phases
<1> QED
  BY <1>5, <1>6, <1>9, <1>10, <1>11 DEF Run!TellsTheRun

\* Filing a ledger changes nothing that it tells of.
LEMMA TellingStays ==
  ASSUME NEW l, Run!TellsTheRun(l),
         UNCHANGED <<started, expires, clock, status, journal, gates, left, retained>>
  PROVE  Run!TellsTheRun(l)'
<1>1. \A p : Run!Evidence(p)' = Run!Evidence(p)
  BY DEF Run!Evidence, Run!EntryOf
<1>2. Run!Went' = Run!Went
  BY DEF Run!Went
<1>3. \A p : Run!InTime(p)' = Run!InTime(p)
  BY <1>1 DEF Run!InTime
<1> QED
  BY <1>1, <1>2, <1>3 DEF Run!TellsTheRun

\* The run begins with no event and no ledger.
LEMMA RunBegins ==
  ASSUME Run!RunAssumption, Run!Init
  PROVE  Run!InductiveInvariant
<1>1. Run!TypeOK
  BY DEF Run!Init, Run!RunAssumption, Run!TypeOK, Run!Count, Run!AllowedTransitions
<1>2. journal = <<>> /\ status = "plan_approved" /\ clock = started /\ clock \in Nat
  BY DEF Run!Init, Run!RunAssumption
<1>3. Run!JournalIsPath
  <2>1. DOMAIN journal = {} /\ Len(journal) + 1 = 1
    BY <1>2
  <2> QED
    BY <1>2, <2>1 DEF Run!JournalIsPath, Run!Before
<1>4. Run!Went = {}
  BY <1>2 DEF Run!Went
<1> QED
  BY <1>1, <1>3, <1>4 DEF Run!InductiveInvariant, Run!IncidentOrDestroy, Run!AcceptedRunIsTrue, Run!Init

\* Every step of a run, and the filing of its ledger, keep the invariant.
LEMMA RunGoesOn ==
  ASSUME Run!RunAssumption, Run!InductiveInvariant, Run!Next
  PROVE  Run!InductiveInvariant'
<1> USE DEF Run!InductiveInvariant
<1>1. ASSUME NEW to \in DOMAIN Run!AllowedTransitions, Run!Step(to)
      PROVE  Run!InductiveInvariant'
  <2>1. Run!TypeOK' /\ Run!JournalIsPath' /\ Run!IncidentOrDestroy'
    BY <1>1, StepKeepsPath, StepKeepsOrder
  <2>2. Run!AcceptedRunIsTrue'
    BY <1>1 DEF Run!Step, Run!AcceptedRunIsTrue
  <2> QED
    BY <2>1, <2>2
<1>2. ASSUME Run!File
      PROVE  Run!InductiveInvariant'
  <2>1. UNCHANGED <<started, expires, clock, status, journal, gates, left, retained>>
    BY <1>2 DEF Run!File, Run!window
  <2>2. Run!TypeOK' /\ Run!JournalIsPath' /\ Run!IncidentOrDestroy'
    BY <2>1 DEF Run!TypeOK, Run!JournalIsPath, Run!Follows, Run!Before, Run!IncidentOrDestroy, Run!Went
  <2>3. PICK l \in Run!Ledgers : Run!ValidateLedger(l) /\ filed' = l
    BY <1>2 DEF Run!File
  <2>4. Run!TellsTheRun(l)'
    BY <2>1, <2>3, AcceptedIsTrue, TellingStays
  <2>5. Run!AcceptedRunIsTrue'
    BY <2>3, <2>4 DEF Run!AcceptedRunIsTrue, Run!TellsTheRun
  <2> QED
    BY <2>2, <2>5
<1> QED
  BY <1>1, <1>2 DEF Run!Next

\* So does a step of the campaigns.
LEMMA RunRests ==
  ASSUME Run!InductiveInvariant, UNCHANGED runRows
  PROVE  Run!InductiveInvariant'
<1>1. UNCHANGED <<started, expires, clock, status, journal, gates, left, retained>> /\ filed' = filed
  BY DEF runRows
<1>2. Run!TypeOK' /\ Run!JournalIsPath' /\ Run!IncidentOrDestroy'
  BY <1>1 DEF Run!InductiveInvariant, Run!TypeOK, Run!JournalIsPath, Run!Follows, Run!Before,
              Run!IncidentOrDestroy, Run!Went
<1>3. Run!AcceptedRunIsTrue'
  <2>1. CASE filed = NoLedger
    BY <1>1, <2>1 DEF Run!AcceptedRunIsTrue
  <2>2. CASE filed # NoLedger
    <3>1. Run!TellsTheRun(filed)
      BY <2>2 DEF Run!InductiveInvariant, Run!AcceptedRunIsTrue
    <3>2. Run!TellsTheRun(filed)'
      BY <1>1, <3>1, TellingStays
    <3> QED
      BY <3>2 DEF Run!AcceptedRunIsTrue
  <2> QED
    BY <2>1, <2>2
<1> QED
  BY <1>2, <1>3 DEF Run!InductiveInvariant

(* An accepted ledger of an ephemeral run stays the run's own, however the *)
(* run went and whatever its author put into the ledger: its events are    *)
(* those of the run, a run filed as complete left nothing behind, and one  *)
(* that failed, or broke a limit other than that of the apply, is filed    *)
(* with its incident (validate-ephemeral-run-ledger.mjs).                  *)
THEOREM AcceptedRunStaysTrue ==
  /\ Run!Spec => []Run!AcceptedRunIsTrue
  /\ MCSpec => []AcceptedRunIsTrue
<1>1. Run!Init => Run!InductiveInvariant
  BY RunIsAssumed, RunBegins
<1>2. Run!InductiveInvariant /\ [Run!Next]_(Run!vars) => Run!InductiveInvariant'
  <2> SUFFICES ASSUME Run!InductiveInvariant, [Run!Next]_(Run!vars)
               PROVE  Run!InductiveInvariant'
    OBVIOUS
  <2>1. CASE Run!Next
    BY <2>1, RunIsAssumed, RunGoesOn
  <2>2. CASE UNCHANGED Run!vars
    <3>1. UNCHANGED runRows
      BY <2>2 DEF Run!vars, Run!window, runRows
    <3> QED
      BY <3>1, RunRests
  <2> QED
    BY <2>1, <2>2
<1>3. MCInit => Run!InductiveInvariant
  BY <1>1 DEF MCInit
<1>4. Run!InductiveInvariant /\ [MCNext]_<<part, vars, runRows>> => Run!InductiveInvariant'
  <2> SUFFICES ASSUME Run!InductiveInvariant, [MCNext]_<<part, vars, runRows>>
               PROVE  Run!InductiveInvariant'
    OBVIOUS
  <2>1. CASE Run!Next
    BY <2>1, RunIsAssumed, RunGoesOn
  <2>2. CASE UNCHANGED runRows
    BY <2>2, RunRests
  <2> QED
    BY <2>1, <2>2 DEF MCNext
<1>5. Run!InductiveInvariant => Run!AcceptedRunIsTrue /\ AcceptedRunIsTrue
  BY DEF Run!InductiveInvariant, AcceptedRunIsTrue
<1>6. Run!Spec => []Run!AcceptedRunIsTrue
  BY <1>1, <1>2, <1>5, PTL DEF Run!Spec
<1>7. MCSpec => []AcceptedRunIsTrue
  BY <1>3, <1>4, <1>5, PTL DEF MCSpec
<1> QED
  BY <1>6, <1>7

(* The run: a behaviour of either part is one of both specifications, so   *)
(* what is proved of each holds of the two together.                       *)
THEOREM PartsAreBoth == MCSpec => Spec /\ Run!Spec
<1>1. MCInit => Init /\ Run!Init
  BY DEF MCInit
<1>2. [MCNext]_<<part, vars, runRows>> => [Next]_vars /\ [Run!Next]_(Run!vars)
  BY DEF MCNext, runRows, Run!vars, Run!window
<1> QED
  BY <1>1, <1>2, PTL DEF MCSpec, Spec, Run!Spec
=============================================================================
