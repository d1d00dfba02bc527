# Verification of the Local Missions backend

The program is a marketplace for local missions: a business publishes a campaign with a fixed number of paid slots, creators
apply, visit the place, check in, submit content, are reviewed and are paid. Almost all of its logic that survives a request lives
in `packages/db/src`: one store class per aggregate, each method one PostgreSQL transaction (READ COMMITTED) that locks rows,
checks, writes and commits, or rolls everything back. The API is a thin layer over the stores, and the worker process does nothing
yet. So the questions worth a model are: which transactions meet on the same rows, in which orders their locks and commits may
fall, what a retry or a late delivery finds, and whether the rows of one mission, and its money, still agree afterwards.

This directory holds TLA+ modules of these stores and of the mobile session, TLC configurations that check them on small
instances, and proofs that TLAPS checks for all instances. `PROJECT.json` lists components, runs, mutants (one plausible bug per
property, which the property must catch), the source lines of every definition, findings, hazards and theorems.

    tlc -workers 2 -config MissionLifecycle.cfg MCMissionLifecycle      # one run
    tlapm MissionLifecycleProofs.tla                                    # one module's proofs

## 1. Inventory

| component (source under `packages/db/src` unless named) | state it keeps | operations | what is hard | modelled in |
|---|---|---|---|---|
| Applications and slots, `mission-application-store.ts` | slots, applications, reservations, idempotency records | publish, apply (Community, Reach), accept, withdraw | races for the last slot under `SKIP LOCKED`, retries under a key, three rows moved by separate UPDATEs | MissionLifecycle, SlotClaim, CampaignWorkflow |
| Check-in, `check-in-store.ts` | assignments, challenges, check-in events | schedule, issue, consume, venue staff | rotation and replay of challenges, crossing lock orders, expiry by the transaction's start time | CheckIn, MissionLifecycle |
| Submissions, `submission-store.ts` | attempts, correction requests, media assets | upload, scan, submit, review, request correction, approve automatically | review, automatic approval and dispute meet at one deadline; a second attempt; crossing lock orders | MissionLifecycle, SubmissionEvidence |
| Disputes, `dispute-store.ts` | disputes, evidence | open (business, creator), resolve | closes the same rows as an approval, along another path; disputes about an older attempt | MissionLifecycle, SubmissionEvidence |
| Ledger, `ledger-store.ts` | funding snapshots, fee allocations, journal, financial intents | fund, consume intent, adjust, balances | duplicate delivery, rounding, money that no row explains | CampaignLedger, FeeAllocation, CampaignWorkflow, MissionLifecycle |
| Campaigns, `campaign-store.ts` | campaigns, status history, contract snapshot, idempotency records | create, configure, transition | stale versions, retried requests, funding racing cancellation | CampaignWorkflow |
| Schema, `schema.ts`, `drizzle/*.sql` | constraints, triggers | - | a constraint that decides which of two calls fails, or that refuses what a store's own checks let through | guards and refusals of the stores' models |
| Notification outbox, `notification-store.ts` | events, outbox, preferences, inbox | enqueue, claim, complete, fail, replay | leases, redelivery, dead letters | LeasedJobs, JobPromise |
| Locality proofs, `locality-proof-store.ts` | verifications, profile badge, deletion jobs, legal holds | submit, review, appeal, declare a change, expire, hold, delete | badge against credential; leased jobs, holds against deletion | LocalityProof, LeasedJobs |
| Local Pass, `local-pass-store.ts` | offers, links, claims, tokens, challenges, incidents | claim, recover, redeem, expire, report, review | inventory at its limit, token rotation against redemption, lock circles | LocalPass, PassPromise |
| Content rights, `rights-store.ts` | documents, offers, acceptances, licences, renewals, funding intents, payables | publish, offer, accept, activate, renew, fund, expire | funding against expiry, late and repeated provider events | ContentRights, RightsPromise |
| Reach qualification, `reach-qualification-store.ts` | capability, outages, consents, verifications, tiers, deletion jobs | consent, submit, review, appeal, revoke, outage grace, expire | grace periods, revocation against review, leased jobs | ReachQualification, LeasedJobs |
| Account lifecycle, `account-lifecycle-store.ts` and its calls in `apps/api/src/domain-api.service.ts` | methods, sessions, recent-authentication grants, holds, requests | sign in, revoke, link, unlink, hold, ask for export or deletion | one-time grants, holds against changes, counts under concurrency | AccountAccess |
| Mobile sign-in, `apps/mobile/lib` | OIDC transaction, stored and shown session | sign in, restore, choose mode and workspace, sign out | callbacks in any order, the app killed between two awaits | MobileSession |
| Tenants, authorization policy | users, businesses, memberships, venue contacts | create, read | unique indexes, reads only | not modelled |
| API, `apps/api/src` | none | HTTP over the stores | error mapping, what is looked up before the transaction | AccountAccess, for the account's calls; otherwise not modelled |
| Worker, `apps/worker/src` | none | health only | nothing drives the deadlines | not modelled |
| Ephemeral run ledger, `scripts/validate-ephemeral-run-ledger.mjs`, `config/ephemeral-run-ledger.v1.json` | the ledger of a run of the ephemeral environment | validate | a record that looks like the run and is not: events lost or moved, claims its author makes | RunLedger |
| Screens, dashboard, contracts, client, other scripts, infrastructure | none | rendering, generated code, validators, Terraform | - | not modelled |

How they interact. There are no messages between stores: they share tables. A slot is created by publication, reserved by an
application, scheduled by check-in, closed by submission or dispute, and settled by the ledger, which reads what the others
wrote and refuses what does not fit. Funding moves a campaign of `campaign-store` on and creates the allocations its slots are
settled from; a full reward activates the mission's licences; the locality badge and the Reach tier decide who may apply; their
evidence is deleted by jobs that the reviews schedule. Clients and the payment provider retry; the idempotency records and the
unique indexes absorb it. The device and the account meet in the sessions the server grants and revokes.

What makes each part correct: slots are never promised twice and the rows of a mission tell one story; a creator is checked in
once, in the window, by the last challenge issued; a closed mission has one verdict and one intent, the intent of its outcome; a
slot's money is decided once, posted once and never taken back; every balance is explained by the missions; a campaign's history
is a chain and its money follows its status; a job is ended once, by the worker it was handed to last, and evidence under a hold
survives; a customer's pass is honoured once, with its last token, for the creator who was first; a term of a licence follows from
one payment and never runs backwards; the badge is the credential, and one tier at most is active; no session outlives its method
or lives under a hold; a device keeps only sessions of its own sign-ins, with what the server granted; an accepted ledger of a run
tells that run.

## 2. Modules

`MCx` gives `x` small values; `xProofs` extends `x` and `TLAPS`; `...Promise` and `SlotObligation` are abstract specifications
that the modules beside them instantiate and implement.

**SlotObligation** is the abstract promise about the money of one slot (docs/product/mvp.md:74): reserved, then committed, then
earned or forfeited, then posted, never back.

**MissionLifecycle** is the core: the missions of one published campaign from application to settled intent. One action is one
committed transaction; each call takes the row locks that make this sound first (for apply, where it does not, see SlotClaim; for
check-in and evidence CheckIn and SubmissionEvidence). `slot`, `application`, `reservation`, `assignment`, `attempt`,
`correction`, `dispute` and `intents` are the tables' status columns. Time is kept as ticks left to a deadline. PostgreSQL's
`now()` is the start of the transaction, which may have waited for its locks since: every deadline check takes the age
`b \in 0 .. MaxLockWait` of its transaction, so a review that started before the deadline can commit after an automatic approval
could have started. Refinement: `ObligationOf(s)` reads a slot's obligation off its rows (`ImplementsObligation`).

**SlotClaim** takes an application apart into the statements that meet other transactions: claim the key (wait on an uncommitted
one), pick a slot that nobody has locked, insert under the unique index (wait), commit. It also has the Reach application. Its
`ImplementsMissionLifecycle` shows that MissionLifecycle's atomic apply is justified.

**CheckIn** is one mission's check-in at the granularity of row locks: issue locks the assignment, then the live challenge;
consume locks the challenge, then the assignment. **SubmissionEvidence** is what follows, likewise: uploads and their scan,
submitComplete (assignment, then attempts), reviews, automatic approval and disputes (attempt, then assignment). Two calls can wait
for each other; `DetectDeadlock` is PostgreSQL canceling one. MCMissionCalls runs one or the other (`phase`); `EvidenceAgrees` is the
conjunction of SubmissionEvidence's `EvidenceStaysClean` and `ClosedByOneVerdict`.

**CampaignWorkflow** has the campaigns, the contract that must be complete before submission, requests that carry a version and a
key and may be delivered late and repeatedly, and the payment events, likewise.

**FeeAllocation** is the pure split of the 15% fee (floor plus largest remainders, ties by ordinal); **CampaignLedger** the
double-entry journal over it: funding by payments whose event, object and transfer group may each have paid before, the postings
of the intents, operators' adjustments under ids of their own choice, and balances. The journal is a set of transactions, so
what `BalancesExplained` says is that each of them has the right accounts and amounts; that an intent is consumed once is
MissionLifecycle's `ImplementsObligation`.

**LeasedJobs** is the three queues of leased work: the notification outbox and the evidence deletions of locality and Reach proofs.
They share the protocol and differ in who may be claimed, in retries, replays, holds and alerts; `store` says which one a behaviour
is about. Times are ticks left to a lease, a retry, a retention or a hold. **JobPromise** is what all three promise.

**LocalPass** is the pass of one campaign: codes, claims, recovery, redemption and expiry with the rows they lock, in the code's
order, and the waits of an insert for the rows its foreign keys name (a redemption's event for the creator's link, a code for
its link and claim); reports of refusal, their review and pauses in one step each. **PassPromise** is the pass without locks,
tokens and codes.

**ContentRights** is the licences of one mission's content, their renewals and their separate funding. **RightsPromise** is what
the architecture promises of them, without rows, events or a clock. **LocalityProof** is one creator's locality proofs and
badge, **ReachQualification** one creator's tier on one platform with the platform's outages. Where a method decides on what it
read without a lock, or holds a row while it waits for another, it is two steps; otherwise one.

**AccountAccess** is one user's account: sign-in, link, unlink, recovery hold, requests, with the locks of the account and method
rows, the trigger and foreign-key reads that go around them, and the grant that is looked up before the transaction.

**MobileSession** is one device: asynchronous functions over protected storage and shown state, which another may enter at every
await, with an app that may be killed and a browser that returns callbacks of earlier attempts.

**RunLedger** is a run of the ephemeral environment, which takes its time, fails, leaves resources behind and reconciles them or
overlooks them, and the ledger that is written about it afterwards: evidence and counts come from the run, but an event may be lost,
doubled or moved, and labels and incident are what the author claims. `ValidateLedger` is the validator, check by check.

MCCampaignWorkflow (CampaignWorkflow and RunLedger), MCMissionCalls, MCCreatorRecords (rights, locality, reach, pass, device) and
MCAccountAndLedger each run several of these, one per behaviour (`part`, `phase`, `store`): the modules share no row, so their union
is checked by the same run and every property of one is a property of the union.

State and action names are the code's, so `AutoApproveSubmission(c, n, b)` is `SubmissionStore.autoApproveSubmission` for creator
`c`'s attempt `n`; `PROJECT.json` has the lines. Definitions commented as mutants are wrong on purpose; nothing uses them except
the check that the property named in `PROJECT.json` catches them.

What is abstracted everywhere: public ids, audit rows, authorization (an unauthorized call is a call that changes nothing, so it is left
out), evidence content, free text, amounts outside CampaignLedger. Rejected calls roll back and are stutters, except where a
rejection is itself the point (SlotClaim, CampaignWorkflow's replays, MobileSession's refusals). That holds of calls the database
rejects too: a CHECK or unique index that decides an outcome is a guard with a name of its own (`IsNew`, `IsNewPayment` and
`AmountsArePositive` in CampaignLedger, `OfferIsFirst`, `AcceptanceIsFirst` and `IsNewEvent` in ContentRights), apart from the
store's own checks. A call can pass those checks and meet the index all the same: a second rights offer for a slot, a payment event
used before, a slot whose fee rounds to nothing, an adjustment with the id of another transaction. No property says that the
database refuses nothing.

## 3. Runs

| run | instance | states | question |
|---|---|---|---|
| mission | 2 creators, 2 slots, window of 1 tick, lock waits of 1 | 75,263 | do the rows of missions agree in every interleaving, does each slot follow SlotObligation; is a closed mission posted, a submission answered, a corrected mission settled |
| open_dispute | 1 creator, 1 slot | (violation) | finding 1 |
| mission_calls | 2 calls; 3 challenges, window 1..3, clock to 4; 1 upload | 227,426 | one live challenge, one check-in; submitted evidence stays complete and clean and has one verdict; every call ends, deadlocks included |
| slot_claim | 2 creators, 2 keys, 3 connections, a Community and a Reach Slot | 106,055 | no slot twice, one effect per key, refinement of MissionLifecycle, every call ends |
| campaign | 2 campaigns, 4 keys, 2 events, 5 requests; a run of 5 or 6 hours whose phases take no time or twice what they may | 276,172 | history, funding and keys agree; an accepted ledger is the run's own |
| apply_timeout | 1 campaign, 1 request; the same runs | (violation) | finding 5 |
| leased_jobs | 2 jobs, 2 workers, 2 attempts, 1 replay; lease, retry, retention 1 tick, hold 2 | 194,477 | outcomes agree with the rows they are about, refinement of JobPromise, held evidence is kept, every job ends |
| retention_alert | 1 worker, 2 deletions | (violation) | finding 2 |
| creator_records | see below; a pass: 2 customers, 2 links, 2 connections, 1 unit of stock, 2 rotations | 561,254 | licences, badge, tier, device, pass: do the rows agree (RenewalsAgree, CredentialsAgree, DeviceAgrees, TokensAgree), is a paid term ahead, is no tier revived, do calls that wait for each other share a customer or a link; refinement of RightsPromise and PassPromise |
| reach_appeal | same | (violation) | finding 3 |
| account_and_ledger | 4 slots of 2 campaigns, 3 payments, two of them of one object, 1 adjustment, with the id of one slot's posting; 3 methods of 2 providers, 2 sessions, 2 grants, 2 connections, 1 hold | 724,695 | every balance explained, the fee exact and fair; sessions, methods and grants agree |
| recovery_hold | same | (violation) | finding 4 |

Why these bounds are enough. Two creators and two slots let a slot be released and taken by another while the other one is
contested; the proofs below remove this bound. A mission has at most two attempts and one dispute in the code itself. A tick of
window with a tick of lock wait gives a call that began before, at and after each deadline. Two connections make every pairwise
race; three at the slots, where one call may wait for a second that waits for a third. Four requests and the funding event take
one campaign through its whole life, and the fifth competes. Two attempts of a job give a first, a retried and a last one; a
lease of one tick with two workers a claim that outlives its holder. The remainders of 15% repeat every 20 minor units, so
rewards 1..20 show every combination of remainders of three slots; one campaign goes on to be settled, with fees rounded up and
down. In creator_records a licence has two kinds and up to three terms within 7 ticks, a badge three proofs and a tier two
proofs and two outages within 4 ticks, with validity, grace and retention of 2 and an appeal window of 1, so that each deadline
can fall before, at and after each other one; the device has two sign-ins, so one may return the other's callback, and the
account is a creator's with two businesses, then loses all but one. Two payment events are enough for a
payment to be reported twice and for a second event to be used after another. The pass has one unit for two customers of two
links, whose two codes may be live together until the first claim and one code at a time from then on: two claims race for the
unit, a code of a link passes from one customer to the other, and a claim meets redemption, recovery and expiry of the other
customer's. A run of the environment has two lengths around its limit, and phases that keep or break theirs.
Bounds that are part of a model: `MaxIssued`, `MaxTime`, `MaxRequests`, `MaxLockWait`, `MaxReplays`, `MaxTerms`, `MaxProofs`,
`MaxOutages`, `MaxHolds`, `MaxSignIns`, `Rotations`, `LiveCodes`, and in MobileSession one save under way at a time.

Deadlock is checked except in campaign, creator_records and account_and_ledger, which really stop: when the requests are used up or a
run of the environment has ended, when the clock of a creator's records is at its bound, a device has used up its sign-ins or every pass
of an offer has been honoured, and when everything is posted and adjusted.

Fairness. MissionLifecycle: `PlatformFairness` assumes that time passes, that somebody calls the automatic approval when it is
due, consumes pending intents and resolves open disputes; nothing is assumed of creators and businesses. **No code under `src` makes
these calls yet**: the worker has no job. The liveness properties therefore say what the stores guarantee once such a worker runs, and
are not a statement about a deployment without one. LeasedJobs: time passes, some worker claims while a job is due (weak), and a job
that is claimed again and again is answered in the end (strong): a worker may stop at any claim, not at every one. CheckIn,
SubmissionEvidence and SlotClaim: strong fairness for a call in flight, which PostgreSQL's lock queues and deadlock detector provide;
none for starting a call.

## 4. Findings

1. `open_dispute`: automatic approval of attempt 2 does not look for an open dispute, although architecture.md:551 promises it. The
   dispute about attempt 1 then stays open for good.
2. `retention_alert`: a worker that stops during a deletion's last attempt leaves the job in processing for ever, without the alert of
   architecture.md:596; in the locality queue it also blocks every later deletion.
3. `reach_appeal`: the evidence of a rejected Reach proof is deleted on its schedule while the appeal waits, although
   architecture.md:443 counts from the closure of the appeal; the appeal can then never be decided.
4. `recovery_hold`: a change that looked for a hold before it was placed commits after it, although docs/evidence/M04/summary.md:209
   says a hold blocks it.
5. `apply_timeout`: the ledger of a run whose apply timed out is accepted as complete and without an incident, although
   config/ephemeral-run-ledger.v1.json:120 says `"openIncidentRequiredForFailureOrTimeout": true` and
   historical-completion-log.md:4402 names the timeout among what "requires an attached open incident". The validator looks for
   incidents among the run's states, and only a destroy has a state for its timeout.

Also met, and not stated as properties:

- `SKIP LOCKED` reports "No Community Slot remains available" while the slot is only locked by a repeated application that then fails
  and leaves it available (mission-application-store.ts:385); applyForReachMission answers CREATOR_NOT_QUALIFIED when the slots are taken.
- Once the dispute about attempt 1 is resolved while attempt 2 is under review, attempt 2 can never be approved, although
  architecture.md:549 promises approval by inaction.
- A mission whose window passes stays scheduled for ever, and one whose correction deadline passes stays checked in. A mission completed
  by a dispute without an accepted contract is never licensed.
- A payment captured for a campaign canceled meanwhile, or for a renewal closed meanwhile, is refused and recorded nowhere.
- A Reach review, or a submission, that races the revocation of its consent leaves an active tier or a pending proof under a revoked
  consent (docs/evidence/M03/authenticated-reach-api.md:14 says revocation blocks it); a tier approved during an outage gets no grace
  in a later one.
- expireClaim of a Local Pass ignores an open incident (architecture.md:633). A declared address change that races an approval is refused.
- A slot whose 15% rounds to nothing, and a renewal whose reward or fee does, pass the stores' checks and are refused by a CHECK
  (0006_dapper_mordo.sql:129; of the renewal only its funding intent is refused, after the creator has agreed).
- An adjustment whose id is that of an intent's transaction (`ledger_` and the intent's, ledger-store.ts:538) blocks the settlement of
  that mission for good.
- No ledger of a run whose apply or rollback failed can be accepted, because the evidence of tests and destroy it asks for cannot exist;
  one whose clean destroy left an orphan cannot either, because the escalation asks for an incident that the table of transitions does
  not allow there. Apply may be claimed `timed_out` beside an event `apply_succeeded`.
- Signing out in business mode without a workspace, or as venue staff, throws before anything is cleared (auth-session.ts:167;
  docs/evidence/M04/summary.md:138 says local state is always cleared), and the next start restores the session; a workspace chosen
  late revives a session that was signed out; a failing restore clears the storage over a sign-in that finished meanwhile. The shipped
  runtime has no identity provider yet, so none of these can happen in it.

## 5. Proofs

Every safety property that a passing run checks is a theorem for every value of the constants: any number of slots, creators,
calls, keys, jobs, tokens, proofs, methods, any rewards, windows and waits. The assumptions are the named ASSUMEs
(`SlotsAssumption`, `JobsAssumption`, `AccountAssumption`, `RunAssumption` and their like: the "no row" value is not a row,
windows are natural numbers, sets that the database holds are finite), which TLC evaluates in the runs, and two hypotheses: the
finiteness of methods and grants, which GrantsAreCounted counts, and `PassAssumption`, of the theorems of LocalPassProofs, which
the run creator_records evaluates. (MCCreatorRecords instantiates LocalPassProofs, so that CreatorRecordsProofs may cite them.)
Each module proves `Init => InductiveInvariant` and `InductiveInvariant /\ [Next]_vars => InductiveInvariant'` by cases over the actions, and reads the safety properties off it.
What is proved of a module holds of the composition a run checks: PhasesAreBoth, PartsAreBoth and StoresAreBoth say that a
behaviour of the composition is one of each of its modules; of the creator's records, which share a clock, RightsHoldOfRecords,
CredentialsAgreeAlways, NoTierIsRevivedEver and DeviceAgreesAlways say it property by property, and
TokensAgreeAlways, CirclesShareALinkAlways and PassIsPromised do for the pass.

- **MissionLifecycleProofs**: TypeCorrect, Invariance, SlotsAgree, OutcomesAgree, OneIntent, SlotsSettleOnce, VerdictsAgree,
  OneCorrection, SettledForGood, ObligationImplemented. The safety properties are not inductive by themselves: that a closed slot
  has exactly one holder needs to know that its application, reservation and assignment move together. `ClaimInv` ties a slot to
  its one holder, `MissionInv` the assignment to the application, `ReviewInv` a final assignment to exactly one verdict,
  `IntentInv` that verdict to exactly one intent. SettledForGood, an action property, and the refinement of SlotObligation follow
  action by action: each moves at most one slot's obligation by one arrow, or stutters.
- **SlotClaimProofs**: Invariance, LocksSuffice, NoOverbooking, KeysActOnce, ClaimsImplement. The invariant is
  `TypeOK`, `LocksAgree` and the row facts: what a call found when it took its lock is still so when it commits. ClaimsImplement
  maps the commit of a call to MissionLifecycle's apply and every other step to a stutter, so MissionLifecycle's safety holds of
  racing calls.
- **MissionCallsProofs**: Invariance, TypeCorrect, OneLive, OneCheckIn about CheckIn, for any number of calls and challenges: the
  locks alone keep the partial unique index on live challenges from ever refusing. EvidenceInvariance and EvidenceAgreesAlways
  about SubmissionEvidence: `CallHolds(p)` says what a call that waits or works has locked and what it has read that is still so,
  `SecondFollows` that a second attempt comes after a correction.
- **LeasedJobsProofs**: Invariance, TypeCorrect, OutcomesAgree, HeldEvidenceStays, JobsImplement, for any number of jobs and
  workers. The strengthening counts attempts (`AttemptsAreCounted`: a job in work has used one, a dead one all) and dates holds
  (`HoldsAreYounger`: a claim of evidence under a hold was made before the hold). JobsImplement is the refinement of JobPromise by
  all three queues.
- **LocalPassProofs**: Invariance, TypeCorrect, TokensMatch, CirclesStayInALink, PassImplements. `CountersAgree` ties stock
  to claims, `TokensInOrder` a claim to its last token, `CallsAgree` each call in flight to the rows it holds. Two calls that wait
  for each other share a customer or a link: calls about other customers and other links meet in the offer only, and a call that
  holds it wants nothing but rows of its own customer and link.
- **CampaignWorkflowProofs**: Invariance, TypeCorrect, HistoryIsChain, FundingAgrees, KeysMatch, ContractFirst. The strengthening
  says which status a campaign has at each version (`StatusAtVersion`), which makes the versions of the history unique.
  AcceptedRunStaysTrue about RunLedger: the journal is a path of transitions (`JournalIsPath`), and as no transition leads from a
  state to itself, a path with an event lost, doubled or moved breaks, or ends before its end; and a run that opened an incident
  was not destroyed in order (`IncidentOrDestroy`), so a failure state cannot be filed as complete. A phase that broke its limit is
  filed with an incident too, but for the apply (finding 5), of which the theorem only says that its timeout is on record.
- **CreatorRecordsProofs**: Invariance, RenewalsAgreeAlways, PaidTerms, RightsArePromised about ContentRights
  (invariant `TypeOK`, `RightsBegin`, `RenewalsAgree`). LocalityInvariance, ReachInvariance, TiersStayEnded, DeviceInvariance
  about one module each, and RecordsInvariance, CredentialsAgreeAlways, NoTierIsRevivedEver, DeviceAgreesAlways about the
  composition, whose clock a waiting store does not stop: its invariant only asks that the clock is not behind.
- **AccountAndLedgerProofs**: Invariance, SessionsStayTrue, SignInStaysPossible, GrantsAreCounted about AccountAccess. Sign-in,
  removal and hold look for each other's rows without a lock; the strengthening `LocksAgree` says what a call that is past its
  reads still holds, and why the row it has not looked at cannot have changed. LedgerInvariance, BalancesStayAccounted,
  FeeStaysAllocated about the ledger, for any campaigns, finite set of slots and rewards. The invariant is
  `TypeOK`, `FundingComesFirst`, `JournalIsTold` (each transaction is a funding, a posting or an adjustment that the other rows
  tell of, and each of these is there once) and `BalancesExplained`: a step moves what is expected of an account by exactly what
  its transaction posts there. The fee is fair because the units left to assign are fewer than the slots, and the slots ranked
  before a given number are that many.

Sums. What a sum over a finite set does when an element joins, that sums of sums are sums, and that they are monotone would be
inductions, and the library's induction theorems cannot be instantiated by the installed provers. The lemmas at the head of
AccountAndLedgerProofs argue with a smallest subset for which the claim fails instead (`WFMin` over the strict subsets of a finite
set, which takes no operator), so nothing about sums is taken on trust.

Type correctness, the lock discipline, OneIntent, SlotSettledOnce, OneCorrectionRound, SettlementIsFinal and
ContractBeforeSubmission are theorems and not properties of a run: TLC checked them while the proofs were written, and a run
would say no more than the theorem. Only model-checked: the liveness properties (ClosedMissionIsPosted, ReviewIsAnswered,
CorrectedMissionSettles, EveryCallReturns, EveryCallEnds, EveryJobEnds), because fairness and ENABLED are beyond the prover, and
the five violations of section 4.

## 6. Not modelled

Tenants (section 7) and authorization policy are rows created once under unique indexes, and read checks. The API parses,
authenticates and maps errors; the worker, the dashboard and the screens keep no state another part reads; the contracts and the
client are generated or declarative; the other scripts and infrastructure are file processing and declarations. Inside modelled
stores: venue staff grants, the content of media and evidence, the reviewer's independence, read models and lists, eligibility
data (identity, locality, region), the in-app inbox, Local Pass links, reports and the later purge of customer data, expiry
reminders of licences. The eligibility an application reads from other stores is an input of SlotClaim; LocalityProof and
ReachQualification say what it is made of, and their composition with SlotClaim is left open.

## 7. What is left

1. Tenants: the unique indexes that two concurrent creations of a membership meet.
2. The composition of SlotClaim with the badge and the tier it reads without a lock, and the theorem of what it can go wrong by: one
   transaction's age.
3. A proof that AccountAccess, like SlotClaim, implements an abstract account without locks.
