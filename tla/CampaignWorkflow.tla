-------------------------- MODULE CampaignWorkflow --------------------------
(***************************************************************************)
(* Campaigns from their draft to publication: campaign-store.ts, the       *)
(* contract calls that must come first, and the funding webhook that alone *)
(* can move an approved campaign on.                                       *)
(*                                                                         *)
(* Every call is one transaction that locks the row of the campaign, so a  *)
(* call is one action.  What is concurrent is the callers: managers send   *)
(* requests that carry the version they saw and an idempotency key; a      *)
(* request may be delivered at any later time, repeatedly, after others    *)
(* have changed the campaign, and the payment provider delivers its events *)
(* in the same way.                                                        *)
(***************************************************************************)
EXTENDS Naturals, FiniteSets

CONSTANTS
  Campaigns,    \* campaigns that may be created
  Keys,         \* idempotency keys the clients use
  Events,       \* payment events of the provider
  NoEvent,      \* "not funded"
  MaxRequests   \* requests the clients may send (bound)

ASSUME EventsAssumption == NoEvent \notin Events
ASSUME BoundAssumption  == MaxRequests \in Nat

VARIABLES
  campaign,   \* campaigns: status and version; version 0 before the INSERT
  contract,   \* campaign_brief_versions and deliverable_requirements
  history,    \* campaign_status_history
  records,    \* idempotency_records: the request and its response
  funding,    \* campaign_funding_snapshots.provider_event_id
  requests,   \* requests sent; each may be delivered any number of times
  payments,   \* payment events sent; likewise
  answers     \* what clients were answered

stored == <<campaign, contract, history, records, funding>>
sent   == <<requests, payments>>
vars   == <<stored, sent, answers>>

CampaignStatus ==
  {"draft", "submitted", "approved", "funded", "published", "canceled"}

Version == 0 .. 5

\* A request to create (expected 0) or to move a campaign.  Its hash covers all
\* of it but the key.
Request == [key : Keys, campaign : Campaigns, expected : Version,
            to : CampaignStatus]

Operation(r) ==
  IF r.expected = 0 THEN "campaign.create-draft" ELSE "campaign.transition"

Response == [campaign : Campaigns, status : CampaignStatus, version : Version]

Row == [campaign : Campaigns, version : Version,
        from : CampaignStatus \cup {"none"}, to : CampaignStatus]

TypeOK ==
  /\ campaign \in [Campaigns -> [status : CampaignStatus \cup {"none"},
                                 version : Version]]
  /\ contract \in [Campaigns -> {"none", "brief", "complete"}]
  /\ history  \subseteq Row
  /\ records  \subseteq [request : Request, response : Response]
  /\ funding  \in [Campaigns -> Events \cup {NoEvent}]
  /\ requests \subseteq Request
  /\ payments \subseteq [event : Events, campaign : Campaigns]
  /\ answers  \subseteq [request : Request, response : Response]

Init ==
  /\ campaign = [c \in Campaigns |-> [status |-> "none", version |-> 0]]
  /\ contract = [c \in Campaigns |-> "none"]
  /\ history  = {}
  /\ records  = {}
  /\ funding  = [c \in Campaigns |-> NoEvent]
  /\ requests = {}
  /\ payments = {}
  /\ answers  = {}

-----------------------------------------------------------------------------
(* The callers.                                                            *)

\* A client asks for a move of the campaign as it is now; by the time the
\* request is delivered the campaign may have moved.
Send(r) ==
  /\ Cardinality(requests) < MaxRequests
  /\ r.expected = campaign[r.campaign].version
  /\ r.expected = 0 <=> r.to = "draft"
  /\ requests' = requests \cup {r}
  /\ UNCHANGED <<stored, payments, answers>>

\* Somebody pays for a campaign that the platform had approved.
Pay(e, c) ==
  /\ \E row \in history : row.campaign = c /\ row.to = "approved"
  /\ payments' = payments \cup {[event |-> e, campaign |-> c]}
  /\ UNCHANGED <<stored, requests, answers>>

-----------------------------------------------------------------------------
(* claimIdempotency: the record this request finds.                        *)
Claimed(r) == {d \in records : /\ d.request.key = r.key
                               /\ Operation(d.request) = Operation(r)}

\* Mutant: does not compare the hash of the request.
IsReplayOfKey(r, d) == d \in Claimed(r)

IsReplay(r, d) == d \in Claimed(r) /\ d.request = r

\* The request was served before: its response is sent again.
Replay(r) ==
  /\ \E d \in records :
       /\ IsReplay(r, d)
       /\ answers' = answers \cup {[request |-> r, response |-> d.response]}
  /\ UNCHANGED <<stored, sent>>

Unclaimed(r) == Claimed(r) = {}

(* completeIdempotency and the response to the caller.                     *)
Respond(r, response) ==
  /\ records' = records \cup {[request |-> r, response |-> response]}
  /\ answers' = answers \cup {[request |-> r, response |-> response]}

\* Mutant: forgets "version = version + 1".
MoveInPlace(c, to) ==
  /\ campaign' = [campaign EXCEPT ![c].status = to]
  /\ history'  = history \cup {[campaign |-> c, version |-> campaign[c].version,
                                from |-> campaign[c].status, to |-> to]}

\* The campaign takes its next version and the history a row for it.
MoveCampaign(c, to) ==
  LET version == campaign[c].version + 1 IN
  /\ campaign' = [campaign EXCEPT ![c] = [status |-> to, version |-> version]]
  /\ history'  = history \cup {[campaign |-> c, version |-> version,
                                from |-> campaign[c].status, to |-> to]}

CreateDraftCampaign(r) ==
  /\ Operation(r) = "campaign.create-draft"
  /\ Unclaimed(r)
  /\ campaign[r.campaign].version = 0
  /\ MoveCampaign(r.campaign, "draft")
  /\ Respond(r, [campaign |-> r.campaign, status |-> "draft", version |-> 1])
  /\ UNCHANGED <<contract, funding, sent>>

(* allowedTransitions.                                                     *)
AllowedTransitions ==
  [draft     |-> {"submitted", "canceled"},
   submitted |-> {"approved", "canceled"},
   approved  |-> {"canceled"},
   funded    |-> {"published"},
   published |-> {},
   canceled  |-> {}]

(* assertCampaignContractComplete.                                         *)
IsContractComplete(c) == contract[c] = "complete"

\* Mutant: moves the campaign whatever version the client saw.
SawSomeVersion(r) == campaign[r.campaign].version > 0

SawThisVersion(r) == campaign[r.campaign].version = r.expected

TransitionCampaign(r) ==
  LET current == campaign[r.campaign] IN
  /\ Operation(r) = "campaign.transition"
  /\ current.version > 0
  /\ Unclaimed(r)
  /\ SawThisVersion(r)
  /\ r.to \in AllowedTransitions[current.status]
  /\ r.to = "submitted" => IsContractComplete(r.campaign)
  /\ MoveCampaign(r.campaign, r.to)
  /\ Respond(r, [campaign |-> r.campaign, status |-> r.to,
                 version |-> current.version + 1])
  /\ UNCHANGED <<contract, funding, sent>>

ConfigureCampaignContract(c) ==
  /\ campaign[c].status = "draft"
  /\ contract[c] = "none"
  /\ contract' = [contract EXCEPT ![c] = "brief"]
  /\ UNCHANGED <<campaign, history, records, funding, sent, answers>>

ConfigureDeliverableRequirements(c) ==
  /\ campaign[c].status = "draft"
  /\ contract[c] = "brief"
  /\ contract' = [contract EXCEPT ![c] = "complete"]
  /\ UNCHANGED <<campaign, history, records, funding, sent, answers>>

\* Mutant: funds any campaign that has not been funded yet.
CanBeFunded(c) == campaign[c].status \notin {"none", "funded", "published"}

IsApproved(c) == campaign[c].status = "approved"

(* recordCampaignFunding.  A repeated event finds the funding it made; a   *)
(* second one, or the event of another campaign, is refused.               *)
RecordCampaignFunding(payment) ==
  LET c == payment.campaign IN
  /\ funding[c] = NoEvent
  /\ IsApproved(c)
  /\ \A d \in Campaigns : funding[d] # payment.event
  /\ funding' = [funding EXCEPT ![c] = payment.event]
  /\ MoveCampaign(c, "funded")
  /\ UNCHANGED <<contract, records, sent, answers>>

-----------------------------------------------------------------------------
Next ==
  \/ \E r \in Request : Send(r)
  \/ \E e \in Events, c \in Campaigns : Pay(e, c)
  \/ \E r \in requests :
       Replay(r) \/ CreateDraftCampaign(r) \/ TransitionCampaign(r)
  \/ \E c \in Campaigns :
       ConfigureCampaignContract(c) \/ ConfigureDeliverableRequirements(c)
  \/ \E payment \in payments : RecordCampaignFunding(payment)

Spec == Init /\ [][Next]_vars

-----------------------------------------------------------------------------
RowsOf(c) == {row \in history : row.campaign = c}

(* The history of a campaign has one row for each of its versions; each    *)
(* row goes on from the one before, and the last one is the status.        *)
HistoryChain ==
  \A c \in Campaigns :
    /\ \A v \in 1 .. campaign[c].version :
         \E row \in RowsOf(c) : row.version = v
    /\ \A row \in RowsOf(c) :
         /\ row.version \in 1 .. campaign[c].version
         /\ row.version = campaign[c].version => row.to = campaign[c].status
         /\ row.from = "none" <=> row.version = 1
         /\ \A next \in RowsOf(c) :
              /\ next.version = row.version => next = row
              /\ next.version = row.version + 1 => next.from = row.to

(* A campaign holds money exactly while it is funded or published, an      *)
(* event pays for one campaign, and money arrives after the approval and   *)
(* never for a campaign that was canceled.                                 *)
FundingAgreement ==
  /\ \A c \in Campaigns :
       funding[c] # NoEvent <=> campaign[c].status \in {"funded", "published"}
  /\ \A c, d \in Campaigns : funding[c] = funding[d] /\ c # d
                               => funding[c] = NoEvent
  /\ \A row \in history : row.to = "funded" => row.from = "approved"

(* A key stands for one request of its operation, and the idempotency      *)
(* records and the moves of the campaigns that clients asked for are one   *)
(* to one: no request takes effect twice, and none on a version its client *)
(* had not seen.                                                           *)
KeysMatchEffects ==
  /\ \A d, e \in records : d \in Claimed(e.request) => d = e
  /\ \A row \in history :
       row.to = "funded" \/ \E d \in records :
         d.response = [campaign |-> row.campaign, status |-> row.to,
                       version |-> row.version]
  /\ \A d \in records :
       /\ d.response = [campaign |-> d.request.campaign,
                        status |-> d.request.to,
                        version |-> d.request.expected + 1]
       /\ \E row \in history : /\ row.campaign = d.response.campaign
                               /\ row.version = d.response.version
                               /\ row.to = d.response.status
       /\ \A e \in records : d.response = e.response => d = e

(* Every answer a client got is what was done for its request.             *)
AnswersHold == answers \subseteq records

(* Nothing is submitted, and so nothing approved, funded or published,     *)
(* before its contract is complete.                                        *)
ContractBeforeSubmission ==
  \A row \in history : row.to = "submitted" => contract[row.campaign] = "complete"

\* The statuses lie on one path, so the status tells the version.
StatusAtVersion ==
  \A c \in Campaigns :
    LET status == campaign[c].status  version == campaign[c].version IN
    /\ status = "none"      => version = 0
    /\ status = "draft"     => version = 1
    /\ status = "submitted" => version = 2
    /\ status = "approved"  => version = 3
    /\ status = "funded"    => version = 4
    /\ status = "published" => version = 5
    /\ status = "canceled"  => version \in 2 .. 4

(* What every step preserves.                                              *)
InductiveInvariant ==
  /\ TypeOK
  /\ \A r \in requests : r.expected = 0 <=> r.to = "draft"
  /\ StatusAtVersion
  /\ HistoryChain
  /\ FundingAgreement
  /\ KeysMatchEffects
  /\ AnswersHold
  /\ ContractBeforeSubmission
=============================================================================
