---------------------------- MODULE AccountAccess -----------------------------
(***************************************************************************)
(* One user's account (packages/db/src/account-lifecycle-store.ts, its     *)
(* tables and triggers, and the calls of apps/api/src/domain-api.service   *)
(* that resolve who is calling): sign-in methods, sessions, recent         *)
(* authentication, recovery holds and requests about the account.          *)
(*                                                                         *)
(* Creating a session locks the account (FOR UPDATE), reads the method     *)
(* without a lock (trigger) and then meets the lock on the method (foreign *)
(* key).  Removing a method locks the methods (FOR UPDATE) and then meets  *)
(* the lock on the account (foreign key of the binding's history).  Both,  *)
(* and the calls that spend a recent-authentication grant, are several     *)
(* steps with their locks; the others are one, which waits until nobody    *)
(* holds the account.                                                      *)
(***************************************************************************)
EXTENDS Integers, FiniteSets

CONSTANTS
  Methods, NoMethod, \* external identities: an issuer and a subject
  Provider,          \* the provider of each
  FirstMethods,      \* those the account begins with
  Sessions, NoSession,
  Grants, NoGrant,
  Staff, Nobody,
  Calls,             \* database connections
  MaxHolds           \* bound: holds placed

\* What the constants must be.
AccountAssumption ==
  /\ FirstMethods \subseteq Methods /\ FirstMethods # {} /\ DOMAIN Provider = Methods
  /\ \A i, j \in FirstMethods : Provider[i] = Provider[j] => i = j
  /\ NoMethod \notin Methods /\ NoSession \notin Sessions /\ NoGrant \notin Grants /\ Nobody \notin Staff
  /\ MaxHolds \in Nat

VARIABLES
  account,  \* users.status
  method,   \* external_identities.status, "none" without a row
  session,  \* account_sessions: status and external_identity_id
  grant,    \* recent_auth_grants
  hold,     \* placed_by_user_id of the active account_sensitive_holds row
  holds,    \* how many have been placed
  requests, \* types of the open account_requests
  call      \* transactions in flight

rows == <<account, method, session, grant, hold, holds, requests>>
vars == <<rows, call>>

-----------------------------------------------------------------------------
(* Rows.  A session past its expires_at counts as ended whatever its       *)
(* status; a grant past its expires_at is one that nobody can spend.       *)

AccountStatus == {"active", "deletion_requested"}
MethodStatus == {"none", "active", "revoked"}
SessionRow == [status: {"none", "active", "ended"}, method: Methods \cup {NoMethod}]
Purposes == {"identity_link", "identity_unlink", "account_deletion"}
GrantRow == [status: {"none", "fresh", "consumed"}, purpose: Purposes,
             session: Sessions \cup {NoSession}]
HoldRow == Staff \cup {Nobody}
RequestTypes == {"export", "deletion"}

Idle == [op |-> "none", at |-> "none"]
Stages == {"account", "insert", "reference", "grant", "hold", "methods", "history", "change"}
SignIns == [op: {"sign_in"}, at: {"account", "insert", "reference"},
            session: Sessions, method: Methods]
Changes == [op: {"link", "unlink", "delete"}, at: {"grant", "hold", "methods", "history", "change"},
            grant: Grants, method: Methods \cup {NoMethod}]

TypeOK ==
  /\ account \in AccountStatus
  /\ method \in [Methods -> MethodStatus]
  /\ session \in [Sessions -> SessionRow]
  /\ grant \in [Grants -> GrantRow]
  /\ hold \in HoldRow
  /\ holds \in 0..MaxHolds
  /\ requests \subseteq RequestTypes
  /\ call \in [Calls -> SignIns \cup Changes \cup {Idle}]

Init ==
  /\ account = "active"
  /\ method = [i \in Methods |-> IF i \in FirstMethods THEN "active" ELSE "none"]
  /\ session = [s \in Sessions |-> [status |-> "none", method |-> NoMethod]]
  /\ grant = [g \in Grants |->
                [status |-> "none", purpose |-> "identity_link", session |-> NoSession]]
  /\ hold = Nobody
  /\ holds = 0
  /\ requests = {}
  /\ call = [c \in Calls |-> Idle]

-----------------------------------------------------------------------------
(* Locks, and what a call may read.                                        *)

ActiveMethods == {i \in Methods : method[i] = "active"}

\* Mutant of HasAccount: reads the account without FOR UPDATE.
HasAccountUnlocked(c) == FALSE

\* The call that has the account's row FOR UPDATE.
HasAccount(c) == call[c].op = "sign_in" /\ call[c].at \in {"insert", "reference"}
AccountFree == \A c \in Calls : ~HasAccount(c)

\* Mutant of HasMethods: counts the methods without FOR UPDATE.
HasMethodsUnlocked(c) == FALSE

\* The call that has the rows of the active methods FOR UPDATE.
HasMethods(c) == call[c].at = "history"
MethodsFree == \A c \in Calls : ~HasMethods(c)

\* Mutant of HasGrant: finds a fresh grant and marks it consumed at the end.
HasGrantUnlocked(c, g) == FALSE

\* The call that has spent grant g and not committed.
HasGrant(c, g) ==
  /\ call[c].op \in {"link", "unlink", "delete"} /\ call[c].at # "grant" /\ call[c].grant = g

\* The verified token of method i names this account.
Known(i) == account = "active" /\ method[i] = "active"

\* resolvePrincipal: who calls with session s.
Authenticated(s) == session[s].status = "active" /\ Known(session[s].method)

\* What the API finds before it begins a change: a grant to spend, and a
\* method to remove.
Resolved(op, g, i) ==
  /\ grant[g].status = "fresh"
  /\ op = "delete" <=> i = NoMethod
  /\ op = "unlink" => method[i] = "active"

Answer(c) == call' = [call EXCEPT ![c] = Idle]
Go(c, at) == call' = [call EXCEPT ![c].at = at]

RevokeSessions(S) ==
  session' = [s \in Sessions |->
                IF s \in S /\ session[s].status = "active"
                THEN [session[s] EXCEPT !.status = "ended"] ELSE session[s]]
\* A binding goes from active to revoked and never back (trigger).
Remove(i) == method' = [method EXCEPT ![i] = "revoked"]
Spend(g) == grant' = [grant EXCEPT ![g].status = "consumed"]

-----------------------------------------------------------------------------
(* Signing in and out.                                                     *)

\* bootstrapExternalSession: the method of the token, read without a lock.
BeginSignIn(c, s, i) ==
  /\ call[c] = Idle
  /\ Known(i)
  /\ call' = [call EXCEPT ![c] = [op |-> "sign_in", at |-> "account", session |-> s, method |-> i]]
  /\ UNCHANGED rows

\* Locks the account and looks for a hold.
LockAccount(c) ==
  /\ call[c].at = "account"
  /\ AccountFree
  /\ IF account = "active" /\ hold = Nobody THEN Go(c, "insert") ELSE Answer(c)
  /\ UNCHANGED rows

\* The insert meets the session's public id (the session is used again or
\* refused: nothing changes either way) or the trigger on the method.
InsertSession(c) ==
  /\ call[c].at = "insert"
  /\ IF session[call[c].session].status = "none" /\ method[call[c].method] = "active"
     THEN Go(c, "reference") ELSE Answer(c)
  /\ UNCHANGED rows

\* The foreign key waits for the method's row, and the session is created.
ReferenceMethod(c) ==
  /\ call[c].at = "reference"
  /\ MethodsFree
  /\ session' = [session EXCEPT ![call[c].session] =
                   [status |-> "active", method |-> call[c].method]]
  /\ Answer(c)
  /\ UNCHANGED <<account, method, grant, hold, holds, requests>>

\* The user signs out, or expires_at passes.
RevokeSession(s) ==
  /\ session[s].status = "active"
  /\ RevokeSessions({s})
  /\ UNCHANGED <<account, method, grant, hold, holds, requests, call>>

\* The trigger on a grant asks for an active session.
MayGrant(s) == session[s].status = "active"

GrantRecentAuth(g, s, p) ==
  /\ grant[g].status = "none"
  /\ MayGrant(s)
  /\ AccountFree
  /\ grant' = [grant EXCEPT ![g] = [status |-> "fresh", purpose |-> p, session |-> s]]
  /\ UNCHANGED <<account, method, session, hold, holds, requests, call>>

-----------------------------------------------------------------------------
(* Changes that spend a grant.                                             *)

\* linkAccountIdentity, unlinkAccountIdentity and createAccountRequest find
\* the grant, and the method to unlink, without a lock.
BeginChange(c, op, g, i) ==
  /\ call[c] = Idle
  /\ \E s \in Sessions : Authenticated(s)
  /\ Resolved(op, g, i)
  /\ call' = [call EXCEPT ![c] = [op |-> op, at |-> "grant", grant |-> g, method |-> i]]
  /\ UNCHANGED rows

PurposeOf(op) == CASE op = "link"   -> "identity_link"
                   [] op = "unlink" -> "identity_unlink"
                   [] op = "delete" -> "account_deletion"

\* consumeRecentAuth: waits for another call that spends the same grant.
ConsumeRecentAuth(c) ==
  LET g == call[c].grant IN
  /\ call[c].at = "grant"
  /\ \A d \in Calls \ {c} : ~HasGrant(d, g)
  /\ IF /\ grant[g].status = "fresh"
        /\ grant[g].purpose = PurposeOf(call[c].op)
        /\ session[grant[g].session].status = "active"
     THEN Go(c, "hold") ELSE Answer(c)
  /\ UNCHANGED rows

\* assertNoHold, without a lock.
AssertNoHold(c) ==
  /\ call[c].at = "hold"
  /\ IF hold # Nobody THEN Answer(c)
     ELSE Go(c, IF call[c].op = "unlink" THEN "methods" ELSE "change")
  /\ UNCHANGED rows

\* unlinkIdentity locks the active methods and counts them.
LockMethods(c) ==
  /\ call[c].at = "methods"
  /\ MethodsFree
  /\ IF call[c].method \in ActiveMethods /\ Cardinality(ActiveMethods) >= 2
     THEN Go(c, "history") ELSE Answer(c)
  /\ UNCHANGED rows

\* The history's foreign key waits for the account.
UnlinkIdentity(c) ==
  LET i == call[c].method IN
  /\ call[c].at = "history"
  /\ AccountFree
  /\ Remove(i)
  /\ RevokeSessions({s \in Sessions : session[s].method = i})
  /\ Spend(call[c].grant)
  /\ Answer(c)
  /\ UNCHANGED <<account, hold, holds, requests>>

\* An issuer and subject is bound once and for all, and a user has one
\* active method of a provider.
MayLink(i) ==
  method[i] = "none" /\ \A j \in ActiveMethods : Provider[j] # Provider[i]

LinkIdentity(c) ==
  /\ call[c].at = "change" /\ call[c].op = "link"
  /\ AccountFree
  /\ MayLink(call[c].method)
  /\ method' = [method EXCEPT ![call[c].method] = "active"]
  /\ Spend(call[c].grant)
  /\ Answer(c)
  /\ UNCHANGED <<account, session, hold, holds, requests>>

RequestDeletion(c) ==
  /\ call[c].at = "change" /\ call[c].op = "delete"
  /\ AccountFree
  /\ "deletion" \notin requests
  /\ requests' = requests \cup {"deletion"}
  /\ account' = "deletion_requested"
  /\ Spend(call[c].grant)
  /\ Answer(c)
  /\ UNCHANGED <<method, session, hold, holds>>

\* A unique index refuses the change, and the grant is fresh again.
RefuseChange(c) ==
  /\ call[c].at = "change"
  /\ IF call[c].op = "link" THEN ~MayLink(call[c].method) ELSE "deletion" \in requests
  /\ Answer(c)
  /\ UNCHANGED rows

RequestExport(s) ==
  /\ Authenticated(s)
  /\ AccountFree
  /\ "export" \notin requests
  /\ requests' = requests \cup {"export"}
  /\ UNCHANGED <<account, method, session, grant, hold, holds, call>>

\* A lost connection, or the victim of a deadlock: all is rolled back.
Abort(c) ==
  /\ call[c] # Idle
  /\ Answer(c)
  /\ UNCHANGED rows

-----------------------------------------------------------------------------
(* Recovery.                                                               *)

\* Locks the account, and revokes every session under that lock.
PlaceRecoveryHold(w) ==
  /\ AccountFree
  /\ account = "active" /\ hold = Nobody /\ holds < MaxHolds
  /\ hold' = w
  /\ holds' = holds + 1
  /\ RevokeSessions(Sessions)
  /\ UNCHANGED <<account, method, grant, requests, call>>

ReleaseRecoveryHold(w) ==
  /\ hold \notin {Nobody, w}
  /\ hold' = Nobody
  /\ UNCHANGED <<account, method, session, grant, holds, requests, call>>

-----------------------------------------------------------------------------

CallStep(c) ==
  \/ \E s \in Sessions, i \in Methods : BeginSignIn(c, s, i)
  \/ \E op \in {"link", "unlink", "delete"}, g \in Grants, i \in Methods \cup {NoMethod} :
       BeginChange(c, op, g, i)
  \/ LockAccount(c) \/ InsertSession(c) \/ ReferenceMethod(c)
  \/ ConsumeRecentAuth(c) \/ AssertNoHold(c) \/ LockMethods(c)
  \/ UnlinkIdentity(c) \/ LinkIdentity(c) \/ RequestDeletion(c)
  \/ RefuseChange(c) \/ Abort(c)

Next ==
  \/ \E c \in Calls : CallStep(c)
  \/ \E s \in Sessions :
       \/ RevokeSession(s) \/ RequestExport(s)
       \/ \E g \in Grants, p \in Purposes : GrantRecentAuth(g, s, p)
  \/ \E w \in Staff : PlaceRecoveryHold(w) \/ ReleaseRecoveryHold(w)

Spec == Init /\ [][Next]_vars

-----------------------------------------------------------------------------
(* Properties.                                                             *)

\* At most one call has the account, and at most one the methods; what each
\* found under its lock still holds.
LocksAgree ==
  /\ \A c, d \in Calls : HasAccount(c) /\ HasAccount(d) => c = d
  /\ \A c, d \in Calls : HasMethods(c) /\ HasMethods(d) => c = d
  /\ \A c \in Calls : HasAccount(c) => account = "active" /\ hold = Nobody
  /\ \A c \in Calls : HasAccount(c) /\ call[c].at = "reference" => method[call[c].method] = "active"
  /\ \A c \in Calls : HasMethods(c) =>
       \E i \in Methods \ {call[c].method} : method[i] = "active"

\* A removed sign-in method leaves no session (docs/evidence/M04/
\* summary.md:16): a sign-in by that method, which read it before the
\* removal, never commits after it.
RemovedMethodHasNoSession ==
  \A s \in Sessions : session[s].status = "active" => method[session[s].method] = "active"

\* A held account has no session, although signing in and placing the hold
\* look for each other's row.
HeldAccountHasNoSession ==
  hold # Nobody => \A s \in Sessions : session[s].status # "active"

\* Sessions, methods and holds agree.
SessionsAgree == RemovedMethodHasNoSession /\ HeldAccountHasNoSession

\* However many removals run at once, a way to sign in remains.
MethodRemains == ActiveMethods # {}

\* The changes recorded are as many as the recent authentications spent: a
\* grant pays for one change, and a change that fails gives it back.
GrantsMatchChanges ==
  Cardinality({i \in Methods : method[i] = "revoked"})
    + Cardinality({i \in Methods \ FirstMethods : method[i] # "none"})
    + Cardinality(requests \cap {"deletion"})
  = Cardinality({g \in Grants : grant[g].status = "consumed"})

\* What every step keeps.
InductiveInvariant == TypeOK /\ LocksAgree /\ SessionsAgree /\ MethodRemains

\* While a hold is active, no method changes and no deletion is requested
\* (docs/evidence/M04/summary.md:209).  The code does not keep this: a call
\* that has looked for a hold commits after one is placed.
HoldBlocksChanges ==
  [][hold # Nobody => UNCHANGED <<method, account>>]_vars
=============================================================================
