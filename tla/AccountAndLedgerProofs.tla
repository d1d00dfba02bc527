------------------------ MODULE AccountAndLedgerProofs ------------------------
(***************************************************************************)
(* Proofs about AccountAccess for any methods, sessions, grants, staff and *)
(* connections, and about CampaignLedger for any campaigns, slots,         *)
(* rewards, payments and adjustments.                                      *)
(*                                                                         *)
(* The ledger's part rests on sums over finite sets.  They are folds, and  *)
(* what a fold adds up to is proved by a smallest set it would fail for.   *)
(***************************************************************************)
EXTENDS MCAccountAndLedger, FiniteSetTheorems, WellFoundedInduction, TLAPS

(***************************************************************************)
(* A user's account.                                                       *)
(***************************************************************************)
USE DEF HasAccount, HasMethods

\* Two methods are one and another.
LEMMA TwoMethods ==
  ASSUME NEW S, NEW x \in S, Cardinality(S) >= 2
  PROVE  \E y \in S \ {x} : TRUE
<1>1. ASSUME S \subseteq {x} PROVE FALSE
  <2>1. S = {x}
    BY <1>1
  <2>2. Cardinality(S) = 1
    BY <2>1, FS_Singleton
  <2> QED
    BY <2>2
<1> QED
  BY <1>1

\* A new account has a method and nothing else.
LEMMA Initially == AccountAssumption /\ Init => InductiveInvariant
<1> SUFFICES ASSUME AccountAssumption, Init PROVE InductiveInvariant
  OBVIOUS
<1> USE DEF AccountAssumption, Init, Idle
<1>1. TypeOK
  BY DEF TypeOK, AccountStatus, MethodStatus, SessionRow, GrantRow, Purposes, HoldRow, RequestTypes
<1>2. LocksAgree
  BY DEF LocksAgree
<1>3. SessionsAgree
  BY DEF SessionsAgree, RemovedMethodHasNoSession, HeldAccountHasNoSession
<1>4. MethodRemains
  BY DEF MethodRemains, ActiveMethods
<1> QED
  BY <1>1, <1>2, <1>3, <1>4 DEF InductiveInvariant

\* A call that moves on without taking a lock, or ends, disturbs nothing.
LEMMA CallsMove ==
  ASSUME AccountAssumption, InductiveInvariant, UNCHANGED rows, NEW c \in Calls,
         NEW k \in SignIns \cup Changes \cup {Idle}, call' = [call EXCEPT ![c] = k],
         ~(k.op = "sign_in" /\ k.at \in {"insert", "reference"}), k.at # "history"
  PROVE  InductiveInvariant'
<1>1. TypeOK'
  BY DEF InductiveInvariant, TypeOK, rows
<1>2. LocksAgree'
  BY DEF InductiveInvariant, TypeOK, LocksAgree, rows
<1>3. SessionsAgree' /\ MethodRemains'
  BY DEF InductiveInvariant, SessionsAgree, RemovedMethodHasNoSession, HeldAccountHasNoSession,
         MethodRemains, ActiveMethods, rows
<1> QED
  BY <1>1, <1>2, <1>3 DEF InductiveInvariant

\* A call that ends without a change.
LEMMA CallEnds ==
  ASSUME AccountAssumption, InductiveInvariant, UNCHANGED rows, NEW c \in Calls, Answer(c)
  PROVE  InductiveInvariant'
<1> DEFINE k == Idle
<1>1. k \in SignIns \cup Changes \cup {Idle} /\ k.op = "none" /\ k.at = "none"
  BY DEF Idle
<1>2. call' = [call EXCEPT ![c] = k]
  BY DEF Answer
<1> QED
  BY <1>1, <1>2, CallsMove

\* Steps that read: a sign-in or a change begins, spends its grant, looks for
\* a hold, is refused or rolled back.
LEMMA ReadersMove ==
  ASSUME AccountAssumption, InductiveInvariant, NEW c \in Calls,
         \/ \E s \in Sessions, i \in Methods : BeginSignIn(c, s, i)
         \/ \E op \in {"link", "unlink", "delete"}, g \in Grants, i \in Methods \cup {NoMethod} :
              BeginChange(c, op, g, i)
         \/ ConsumeRecentAuth(c)
         \/ AssertNoHold(c)
         \/ RefuseChange(c)
         \/ Abort(c)
  PROVE  InductiveInvariant'
<1> USE DEF SignIns, Changes, Idle
<1>0. call[c] \in SignIns \cup Changes \cup {Idle}
  BY DEF InductiveInvariant, TypeOK
<1>1. ASSUME NEW s \in Sessions, NEW i \in Methods, BeginSignIn(c, s, i)
      PROVE  InductiveInvariant'
  <2> DEFINE k == [op |-> "sign_in", at |-> "account", session |-> s, method |-> i]
  <2>1. k \in SignIns /\ call' = [call EXCEPT ![c] = k] /\ UNCHANGED rows
    BY <1>1 DEF BeginSignIn
  <2> QED
    BY <2>1, CallsMove
<1>2. ASSUME NEW op \in {"link", "unlink", "delete"}, NEW g \in Grants,
             NEW i \in Methods \cup {NoMethod}, BeginChange(c, op, g, i)
      PROVE  InductiveInvariant'
  <2> DEFINE k == [op |-> op, at |-> "grant", grant |-> g, method |-> i]
  <2>1. k \in Changes /\ call' = [call EXCEPT ![c] = k] /\ UNCHANGED rows
    BY <1>2 DEF BeginChange
  <2> QED
    BY <2>1, CallsMove
<1>3. ASSUME Answer(c), UNCHANGED rows
      PROVE  InductiveInvariant'
  BY <1>3, CallEnds
<1>4. ASSUME NEW at \in {"hold", "methods", "change"}, call[c] \in Changes, Go(c, at), UNCHANGED rows
      PROVE  InductiveInvariant'
  <2> DEFINE k == [call[c] EXCEPT !.at = at]
  <2>1. k \in Changes /\ call' = [call EXCEPT ![c] = k] /\ k.at = at
    BY <1>4 DEF Go, InductiveInvariant, TypeOK
  <2> QED
    BY <1>4, <2>1, CallsMove
<1>5. ASSUME ConsumeRecentAuth(c)
      PROVE  InductiveInvariant'
  <2>1. call[c] \in Changes
    BY <1>0, <1>5 DEF ConsumeRecentAuth
  <2> QED
    BY <1>3, <1>4, <1>5, <2>1 DEF ConsumeRecentAuth
<1>6. ASSUME AssertNoHold(c)
      PROVE  InductiveInvariant'
  <2>1. call[c] \in Changes
    BY <1>0, <1>6 DEF AssertNoHold
  <2> QED
    BY <1>3, <1>4, <1>6, <2>1 DEF AssertNoHold
<1> QED
  BY <1>1, <1>2, <1>3, <1>5, <1>6 DEF RefuseChange, Abort

\* A sign-in that locks the account finds it active and not held, and one
\* that gets past the trigger has an active method, as long as it has the
\* account.
LEMMA SignInsMove ==
  ASSUME AccountAssumption, InductiveInvariant, NEW c \in Calls, LockAccount(c) \/ InsertSession(c)
  PROVE  InductiveInvariant'
<1> USE DEF SignIns, Changes, Idle
<1>0. call[c] \in SignIns \cup Changes \cup {Idle}
  BY DEF InductiveInvariant, TypeOK
<1>1. CASE Answer(c) /\ UNCHANGED rows
  BY <1>1, CallEnds
<1>2. CASE ~Answer(c)
  <2>1. PICK at \in {"insert", "reference"} :
          /\ call[c] \in SignIns /\ Go(c, at) /\ UNCHANGED rows
          /\ AccountFree \/ HasAccount(c)
          /\ account = "active" /\ hold = Nobody
          /\ at = "reference" => method[call[c].method] = "active"
    BY <1>0, <1>2 DEF LockAccount, InsertSession, InductiveInvariant, LocksAgree
  <2> DEFINE k == [call[c] EXCEPT !.at = at]
  <2>2. k \in SignIns /\ k.at = at /\ k.method = call[c].method /\ call' = [call EXCEPT ![c] = k]
    BY <2>1 DEF Go, InductiveInvariant, TypeOK
  <2>3. TypeOK'
    BY <2>1, <2>2 DEF InductiveInvariant, TypeOK, rows
  <2>4. \A d \in Calls \ {c} : call'[d] = call[d] /\ ~HasAccount(d)
    BY <2>1, <2>2 DEF AccountFree, InductiveInvariant, TypeOK, LocksAgree
  <2>5. call'[c] = k
    BY <2>2 DEF InductiveInvariant, TypeOK
  <2>6. LocksAgree'
    BY <2>1, <2>2, <2>4, <2>5 DEF InductiveInvariant, LocksAgree, rows
  <2>7. SessionsAgree' /\ MethodRemains'
    BY <2>1 DEF InductiveInvariant, SessionsAgree, RemovedMethodHasNoSession,
           HeldAccountHasNoSession, MethodRemains, ActiveMethods, rows
  <2> QED
    BY <2>3, <2>6, <2>7 DEF InductiveInvariant
<1> QED
  BY <1>1, <1>2 DEF LockAccount, InsertSession

\* The session is created under the lock of the account, while no removal
\* has the methods.
LEMMA SessionIsCreated ==
  ASSUME AccountAssumption, InductiveInvariant, NEW c \in Calls, ReferenceMethod(c)
  PROVE  InductiveInvariant'
<1> USE DEF ReferenceMethod, Answer, Idle
<1>0. /\ call[c] \in SignIns /\ HasAccount(c)
      /\ \A d \in Calls \ {c} : call'[d] = call[d]
      /\ call'[c] = Idle
  BY DEF InductiveInvariant, TypeOK, SignIns, Changes
<1>1. TypeOK'
  BY <1>0 DEF InductiveInvariant, TypeOK, SessionRow, SignIns
<1>2. LocksAgree'
  BY <1>0 DEF InductiveInvariant, LocksAgree
<1>3. account = "active" /\ hold = Nobody /\ method[call[c].method] = "active"
  BY <1>0 DEF InductiveInvariant, LocksAgree
<1>4. \A s \in Sessions : session'[s] = IF s = call[c].session
                                       THEN [status |-> "active", method |-> call[c].method]
                                       ELSE session[s]
  BY <1>0 DEF InductiveInvariant, TypeOK, SignIns
<1>5. SessionsAgree'
  BY <1>3, <1>4 DEF InductiveInvariant, SessionsAgree, RemovedMethodHasNoSession,
         HeldAccountHasNoSession
<1>6. MethodRemains'
  BY DEF InductiveInvariant, MethodRemains, ActiveMethods
<1> QED
  BY <1>1, <1>2, <1>5, <1>6 DEF InductiveInvariant

\* Locking the methods: two are active, so another than the one to remove.
LEMMA MethodsAreLocked ==
  ASSUME AccountAssumption, InductiveInvariant, NEW c \in Calls, LockMethods(c)
  PROVE  InductiveInvariant'
<1> USE DEF LockMethods
<1>1. CASE Answer(c)
  BY <1>1, CallEnds
<1>2. CASE ~Answer(c)
  <2>1. /\ call[c] \in Changes /\ Go(c, "history") /\ UNCHANGED rows
        /\ \A d \in Calls : ~HasMethods(d)
        /\ call[c].method \in ActiveMethods /\ Cardinality(ActiveMethods) >= 2
    <3>1. call[c] \in SignIns \cup Changes \cup {Idle}
      BY DEF InductiveInvariant, TypeOK
    <3> QED
      BY <1>2, <3>1 DEF SignIns, Idle, MethodsFree
  <2> DEFINE k == [call[c] EXCEPT !.at = "history"]
  <2>2. /\ k \in Changes /\ k.method = call[c].method
        /\ call' = [call EXCEPT ![c] = k]
        /\ k.op # "sign_in"
    BY <2>1 DEF Go, Changes
  <2>3. call'[c] = k /\ \A d \in Calls \ {c} : call'[d] = call[d]
    BY <2>2 DEF InductiveInvariant, TypeOK
  <2>4. TypeOK'
    BY <2>1, <2>2 DEF InductiveInvariant, TypeOK, rows
  <2>5. \E i \in Methods \ {k.method} : method[i] = "active"
    <3>1. \E i \in ActiveMethods \ {k.method} : TRUE
      BY <2>1, <2>2, TwoMethods
    <3> QED
      BY <3>1 DEF ActiveMethods
  <2>6. LocksAgree'
    BY <2>1, <2>2, <2>3, <2>5 DEF InductiveInvariant, LocksAgree, rows
  <2>7. SessionsAgree' /\ MethodRemains'
    BY <2>1 DEF InductiveInvariant, SessionsAgree, RemovedMethodHasNoSession,
           HeldAccountHasNoSession, MethodRemains, ActiveMethods, rows
  <2> QED
    BY <2>4, <2>6, <2>7 DEF InductiveInvariant
<1> QED
  BY <1>1, <1>2

\* The removal ends every session of the method, and no sign-in has got
\* past the trigger: it would have the account.
LEMMA MethodIsRemoved ==
  ASSUME AccountAssumption, InductiveInvariant, NEW c \in Calls, UnlinkIdentity(c)
  PROVE  InductiveInvariant'
<1> USE DEF UnlinkIdentity, Answer, Remove, RevokeSessions, Spend
<1>0. /\ call[c] \in Changes /\ HasMethods(c)
      /\ \A d \in Calls \ {c} : call'[d] = call[d] /\ ~HasMethods(d)
      /\ \A d \in Calls : ~HasAccount(d)
      /\ call'[c] = Idle
  <2>1. call[c] \in SignIns \cup Changes \cup {Idle}
    BY DEF InductiveInvariant, TypeOK
  <2>2. call[c] \in Changes
    BY <2>1 DEF SignIns, Idle
  <2>3. call'[c] = Idle /\ \A d \in Calls \ {c} : call'[d] = call[d]
    BY DEF InductiveInvariant, TypeOK
  <2>4. \A d \in Calls \ {c} : ~HasMethods(d)
    BY DEF InductiveInvariant, LocksAgree
  <2>5. HasMethods(c)
    OBVIOUS
  <2>6. \A d \in Calls : ~HasAccount(d)
    BY DEF AccountFree
  <2> QED
    BY <2>2, <2>3, <2>4, <2>5, <2>6
<1>1. TypeOK'
  <2> USE DEF InductiveInvariant, TypeOK
  <2>1. method' \in [Methods -> MethodStatus]
    BY DEF MethodStatus
  <2>2. session' \in [Sessions -> SessionRow]
    BY DEF SessionRow
  <2>3. grant' \in [Grants -> GrantRow]
    BY DEF GrantRow
  <2>4. call' \in [Calls -> SignIns \cup Changes \cup {Idle}]
    OBVIOUS
  <2> QED
    BY <2>1, <2>2, <2>3, <2>4
<1>2. LocksAgree'
  BY <1>0 DEF InductiveInvariant, LocksAgree, Idle
<1>3. \A s \in Sessions : session'[s].status = "active" =>
        /\ session[s].status = "active" /\ session'[s] = session[s]
        /\ session[s].method # call[c].method
  BY DEF InductiveInvariant, TypeOK, SessionRow
<1>7. RemovedMethodHasNoSession'
  <2> SUFFICES ASSUME NEW s \in Sessions, session'[s].status = "active"
               PROVE  method'[session'[s].method] = "active"
    BY DEF RemovedMethodHasNoSession
  <2>1. method[session[s].method] = "active" /\ session'[s] = session[s]
        /\ session[s].method # call[c].method
    BY <1>3 DEF InductiveInvariant, SessionsAgree, RemovedMethodHasNoSession
  <2> QED
    BY <2>1 DEF InductiveInvariant, TypeOK
<1>8. SessionsAgree'
  BY <1>3, <1>7 DEF InductiveInvariant, SessionsAgree, HeldAccountHasNoSession
<1>4. PICK i \in Methods \ {call[c].method} : method[i] = "active"
  BY <1>0 DEF InductiveInvariant, LocksAgree
<1>5. MethodRemains'
  BY <1>4 DEF InductiveInvariant, TypeOK, MethodRemains, ActiveMethods
<1> QED
  BY <1>1, <1>2, <1>8, <1>5 DEF InductiveInvariant

\* Changes of other rows, while nobody has the account.
LEMMA OthersMove ==
  ASSUME AccountAssumption, InductiveInvariant,
         \/ \E c \in Calls : LinkIdentity(c) \/ RequestDeletion(c)
         \/ \E s \in Sessions :
              \/ RevokeSession(s) \/ RequestExport(s)
              \/ \E g \in Grants, p \in Purposes : GrantRecentAuth(g, s, p)
         \/ \E w \in Staff : PlaceRecoveryHold(w) \/ ReleaseRecoveryHold(w)
  PROVE  InductiveInvariant'
<1> USE DEF Answer, RevokeSessions, Spend
<1>1. ASSUME NEW c \in Calls, LinkIdentity(c)
      PROVE  InductiveInvariant'
  <2>0. /\ call[c] \in Changes /\ call[c].method \in Methods \cup {NoMethod}
        /\ \A d \in Calls \ {c} : call'[d] = call[d]
        /\ \A d \in Calls : ~HasAccount(d)
        /\ call'[c] = Idle
    BY <1>1 DEF LinkIdentity, InductiveInvariant, TypeOK, SignIns, Changes, Idle, AccountFree
  <2>1. \A i \in Methods : method[i] = "active" => method'[i] = "active"
    BY <1>1 DEF LinkIdentity, InductiveInvariant, TypeOK
  <2>2. TypeOK'
    BY <1>1, <2>0 DEF LinkIdentity, InductiveInvariant, TypeOK, GrantRow, MethodStatus, Changes
  <2>3. LocksAgree'
    BY <1>1, <2>0, <2>1 DEF LinkIdentity, InductiveInvariant, LocksAgree, Idle
  <2>4. RemovedMethodHasNoSession'
    <3> SUFFICES ASSUME NEW s \in Sessions, session[s].status = "active"
                 PROVE  method'[session[s].method] = "active"
      BY <1>1 DEF LinkIdentity, RemovedMethodHasNoSession
    <3>1. method[session[s].method] = "active"
      BY DEF InductiveInvariant, SessionsAgree, RemovedMethodHasNoSession
    <3> QED
      BY <1>1, <3>1 DEF LinkIdentity, InductiveInvariant, TypeOK
  <2>5. SessionsAgree' /\ MethodRemains'
    BY <1>1, <2>1, <2>4 DEF LinkIdentity, InductiveInvariant, SessionsAgree,
           HeldAccountHasNoSession, MethodRemains, ActiveMethods
  <2> QED
    BY <2>2, <2>3, <2>5 DEF InductiveInvariant
<1>2. ASSUME NEW c \in Calls, RequestDeletion(c)
      PROVE  InductiveInvariant'
  <2>0. /\ call[c] \in Changes
        /\ \A d \in Calls \ {c} : call'[d] = call[d]
        /\ \A d \in Calls : ~HasAccount(d)
        /\ call'[c] = Idle
    BY <1>2 DEF RequestDeletion, InductiveInvariant, TypeOK, SignIns, Changes, Idle, AccountFree
  <2>1. TypeOK'
    BY <1>2, <2>0 DEF RequestDeletion, InductiveInvariant, TypeOK, GrantRow, AccountStatus,
           RequestTypes, Changes
  <2>2. LocksAgree'
    BY <1>2, <2>0 DEF RequestDeletion, InductiveInvariant, LocksAgree, Idle
  <2>3. SessionsAgree' /\ MethodRemains'
    BY <1>2 DEF RequestDeletion, InductiveInvariant, SessionsAgree, RemovedMethodHasNoSession,
           HeldAccountHasNoSession, MethodRemains, ActiveMethods
  <2> QED
    BY <2>1, <2>2, <2>3 DEF InductiveInvariant
<1>3. ASSUME NEW s \in Sessions, RevokeSession(s)
      PROVE  InductiveInvariant'
  <2>1. TypeOK' /\ LocksAgree'
    BY <1>3 DEF RevokeSession, InductiveInvariant, TypeOK, SessionRow, LocksAgree
  <2>2. SessionsAgree' /\ MethodRemains'
    BY <1>3 DEF RevokeSession, InductiveInvariant, TypeOK, SessionRow, SessionsAgree,
           RemovedMethodHasNoSession, HeldAccountHasNoSession, MethodRemains, ActiveMethods
  <2> QED
    BY <2>1, <2>2 DEF InductiveInvariant
<1>4. ASSUME NEW s \in Sessions, RequestExport(s)
      PROVE  InductiveInvariant'
  BY <1>4 DEF RequestExport, InductiveInvariant, TypeOK, RequestTypes, LocksAgree, SessionsAgree,
         RemovedMethodHasNoSession, HeldAccountHasNoSession, MethodRemains, ActiveMethods
<1>5. ASSUME NEW s \in Sessions, NEW g \in Grants, NEW p \in Purposes, GrantRecentAuth(g, s, p)
      PROVE  InductiveInvariant'
  BY <1>5 DEF GrantRecentAuth, MayGrant, InductiveInvariant, TypeOK, GrantRow, LocksAgree, SessionsAgree,
         RemovedMethodHasNoSession, HeldAccountHasNoSession, MethodRemains, ActiveMethods
<1>6. ASSUME NEW w \in Staff, PlaceRecoveryHold(w)
      PROVE  InductiveInvariant'
  <2>1. TypeOK'
    BY <1>6 DEF PlaceRecoveryHold, AccountAssumption, InductiveInvariant, TypeOK, HoldRow, SessionRow
  <2>2. LocksAgree'
    BY <1>6 DEF PlaceRecoveryHold, AccountFree, InductiveInvariant, LocksAgree
  <2>3. SessionsAgree' /\ MethodRemains'
    BY <1>6 DEF PlaceRecoveryHold, InductiveInvariant, TypeOK, SessionRow, SessionsAgree,
           RemovedMethodHasNoSession, HeldAccountHasNoSession, MethodRemains, ActiveMethods
  <2> QED
    BY <2>1, <2>2, <2>3 DEF InductiveInvariant
<1>7. ASSUME NEW w \in Staff, ReleaseRecoveryHold(w)
      PROVE  InductiveInvariant'
  BY <1>7 DEF ReleaseRecoveryHold, InductiveInvariant, TypeOK, HoldRow, LocksAgree, SessionsAgree,
         RemovedMethodHasNoSession, HeldAccountHasNoSession, MethodRemains, ActiveMethods
<1> QED
  BY <1>1, <1>2, <1>3, <1>4, <1>5, <1>6, <1>7

\* Nothing happens.
LEMMA Stutters ==
  ASSUME InductiveInvariant, UNCHANGED vars
  PROVE  InductiveInvariant'
BY DEF vars, rows, InductiveInvariant, TypeOK, LocksAgree, AccountFree, SessionsAgree,
       RemovedMethodHasNoSession, HeldAccountHasNoSession, MethodRemains, ActiveMethods

\* The locks, the rows and the calls in flight agree in every state.
THEOREM Invariance == ASSUME AccountAssumption PROVE Spec => []InductiveInvariant
<1>1. Init => InductiveInvariant
  BY Initially
<1>2. InductiveInvariant /\ [Next]_vars => InductiveInvariant'
  <2> SUFFICES ASSUME InductiveInvariant, [Next]_vars PROVE InductiveInvariant'
    OBVIOUS
  <2>1. ASSUME NEW c \in Calls, CallStep(c) PROVE InductiveInvariant'
    BY <2>1, ReadersMove, SignInsMove, SessionIsCreated, MethodsAreLocked, MethodIsRemoved,
       OthersMove DEF CallStep
  <2>2. CASE Next
    BY <2>1, <2>2, OthersMove DEF Next
  <2>3. CASE UNCHANGED vars
    BY <2>3, Stutters
  <2> QED
    BY <2>2, <2>3
<1> QED
  BY <1>1, <1>2, PTL DEF Spec

\* A removed method has no session, and a held account has none, however
\* many calls race (account-lifecycle-store.ts:118, 298, 362).
THEOREM SessionsStayTrue == ASSUME AccountAssumption PROVE Spec => []SessionsAgree
<1>1. InductiveInvariant => SessionsAgree
  BY DEF InductiveInvariant
<1> QED
  BY <1>1, Invariance, PTL

\* A way to sign in remains, however many removals race.
THEOREM SignInStaysPossible == ASSUME AccountAssumption PROVE Spec => []MethodRemains
<1>1. InductiveInvariant => MethodRemains
  BY DEF InductiveInvariant
<1> QED
  BY <1>1, Invariance, PTL

-----------------------------------------------------------------------------
(* The count of recent authentications.                                    *)

\* What the count needs to be kept: the first methods have rows, only a
\* removal locks methods and it finds its own among the active ones, and a
\* call that has spent a grant is the only one, and finds it fresh.
GrantsInOrder ==
  /\ \A i \in FirstMethods : method[i] # "none"
  /\ \A c \in Calls : call[c].op \in {"link", "unlink"} => call[c].method \in Methods
  /\ \A c \in Calls : call[c].at \in {"methods", "history"} => call[c].op = "unlink"
  /\ \A c \in Calls : HasMethods(c) => method[call[c].method] = "active"
  /\ \A c \in Calls, g \in Grants : HasGrant(c, g) => grant[g].status = "fresh"
  /\ \A c, d \in Calls, g \in Grants : HasGrant(c, g) /\ HasGrant(d, g) => c = d
  /\ GrantsMatchChanges

Removed == {i \in Methods : method[i] = "revoked"}
Linked == {i \in Methods \ FirstMethods : method[i] # "none"}
Consumed == {g \in Grants : grant[g].status = "consumed"}

\* The count, by the names of what it counts.
Counted ==
  Cardinality(Removed) + Cardinality(Linked) + Cardinality(requests \cap {"deletion"})
    = Cardinality(Consumed)

LEMMA CountIsCounted ==
  (GrantsMatchChanges <=> Counted) /\ (GrantsMatchChanges' <=> Counted')
BY Zenon DEF GrantsMatchChanges, Counted, Removed, Linked, Consumed

\* A finite set with one more member.
LEMMA OneMore ==
  ASSUME NEW S, NEW T, IsFiniteSet(T), S \subseteq T, NEW x, x \notin S
  PROVE  Cardinality(S) \in Nat /\ Cardinality(S \cup {x}) = Cardinality(S) + 1
BY FS_Subset, FS_AddElement, FS_CardinalityType

\* No count changes with a call that reads.
LEMMA ReadingKeepsCount ==
  ASSUME AccountAssumption, InductiveInvariant, GrantsInOrder, NEW c \in Calls,
         UNCHANGED <<method, grant, requests>>,
         NEW k \in SignIns \cup Changes \cup {Idle}, call' = [call EXCEPT ![c] = k],
         k.op \in {"link", "unlink"} => k.method \in Methods,
         k.at \in {"methods", "history"} => k.op = "unlink",
         k.at = "history" => method[k.method] = "active",
         k.op \in {"link", "unlink", "delete"} /\ k.at # "grant" =>
           /\ grant[k.grant].status = "fresh"
           /\ \A d \in Calls \ {c} : ~HasGrant(d, k.grant)
  PROVE  GrantsInOrder'
<1>1. call'[c] = k /\ \A d \in Calls \ {c} : call'[d] = call[d]
  BY DEF InductiveInvariant, TypeOK
<1>2. /\ (\A i \in FirstMethods : method[i] # "none")'
      /\ (\A d \in Calls : call[d].op \in {"link", "unlink"} => call[d].method \in Methods)'
      /\ (\A d \in Calls : call[d].at \in {"methods", "history"} => call[d].op = "unlink")'
      /\ (\A d \in Calls : HasMethods(d) => method[call[d].method] = "active")'
  BY <1>1 DEF GrantsInOrder
<1>3. (\A d \in Calls, g \in Grants : HasGrant(d, g) => grant[g].status = "fresh")'
  BY <1>1 DEF GrantsInOrder, HasGrant
<1>4. (\A b, d \in Calls, g \in Grants : HasGrant(b, g) /\ HasGrant(d, g) => b = d)'
  BY <1>1 DEF GrantsInOrder, HasGrant
<1>5. GrantsMatchChanges'
  BY DEF GrantsInOrder, GrantsMatchChanges
<1> QED
  BY <1>2, <1>3, <1>4, <1>5 DEF GrantsInOrder

\* A call that commits a change has spent its grant.
LEMMA ChangeKeepsOrder ==
  ASSUME AccountAssumption, InductiveInvariant, GrantsInOrder, NEW c \in Calls,
         call[c] \in Changes, call[c].at # "grant",
         Spend(call[c].grant), Answer(c),
         \A i \in Methods :
           method'[i] = method[i] \/ method[i] = "none" \/ (HasMethods(c) /\ i = call[c].method),
         \A i \in FirstMethods : method'[i] # "none",
         GrantsMatchChanges'
  PROVE  GrantsInOrder'
<1> DEFINE g == call[c].grant
<1>1. call'[c] = Idle /\ \A d \in Calls \ {c} : call'[d] = call[d]
  BY DEF InductiveInvariant, TypeOK, Answer
<1>2. /\ g \in Grants /\ HasGrant(c, g)
      /\ \A h \in Grants \ {g} : grant'[h] = grant[h]
  BY DEF Changes, HasGrant, Spend, InductiveInvariant, TypeOK
<1>3. /\ (\A d \in Calls : call[d].op \in {"link", "unlink"} => call[d].method \in Methods)'
      /\ (\A d \in Calls : call[d].at \in {"methods", "history"} => call[d].op = "unlink")'
  BY <1>1 DEF GrantsInOrder, Idle
<1>4. (\A d \in Calls : HasMethods(d) => method[call[d].method] = "active")'
  <2> SUFFICES ASSUME NEW d \in Calls \ {c}, call[d].at = "history"
               PROVE  method'[call[d].method] = "active"
    BY <1>1 DEF Idle
  <2>1. method[call[d].method] = "active" /\ call[d].method \in Methods
    BY DEF GrantsInOrder
  <2>2. ~HasMethods(c)
    BY DEF InductiveInvariant, LocksAgree
  <2> QED
    BY <2>1, <2>2
<1>5. \A d \in Calls, h \in Grants : HasGrant(d, h)' => d # c /\ HasGrant(d, h)
  BY <1>1 DEF HasGrant, Idle
<1>6. (\A d \in Calls, h \in Grants : HasGrant(d, h) => grant[h].status = "fresh")'
  BY <1>2, <1>5 DEF GrantsInOrder
<1>7. (\A b, d \in Calls, h \in Grants : HasGrant(b, h) /\ HasGrant(d, h) => b = d)'
  BY <1>5 DEF GrantsInOrder
<1> QED
  BY <1>3, <1>4, <1>6, <1>7 DEF GrantsInOrder

\* Removing a method spends one grant and adds one to the removed.
LEMMA RemovalIsCounted ==
  ASSUME AccountAssumption, IsFiniteSet(Methods), IsFiniteSet(Grants), InductiveInvariant,
         GrantsInOrder, NEW c \in Calls, UnlinkIdentity(c)
  PROVE  GrantsInOrder'
<1> DEFINE i == call[c].method
           g == call[c].grant
<1> USE DEF UnlinkIdentity
<1>0. /\ call[c] \in Changes /\ call[c].at # "grant" /\ HasMethods(c) /\ HasGrant(c, g)
      /\ i \in Methods /\ g \in Grants /\ method[i] = "active" /\ grant[g].status = "fresh"
  <2>1. call[c] \in SignIns \cup Changes \cup {Idle}
    BY DEF InductiveInvariant, TypeOK
  <2>2. call[c] \in Changes /\ call[c].op = "unlink"
    BY <2>1 DEF SignIns, Idle, GrantsInOrder
  <2> QED
    BY <2>2 DEF Changes, HasGrant, GrantsInOrder
<1>1. Removed' = Removed \cup {i} /\ i \notin Removed /\ Removed \subseteq Methods
  BY <1>0 DEF Removed, Remove, InductiveInvariant, TypeOK
<1>2. Linked' = Linked
  BY <1>0 DEF Linked, Remove, InductiveInvariant, TypeOK
<1>3. Consumed' = Consumed \cup {g} /\ g \notin Consumed /\ Consumed \subseteq Grants
  BY <1>0 DEF Consumed, Spend, InductiveInvariant, TypeOK, GrantRow
<1>4. Linked \subseteq Methods /\ Cardinality(Linked) \in Nat
  BY FS_Subset, FS_CardinalityType DEF Linked
<1>5. Cardinality(requests \cap {"deletion"}) \in Nat
  BY FS_Subset, FS_CardinalityType, FS_Singleton
<1>6. GrantsMatchChanges'
  <2>1. Cardinality(Removed) \in Nat /\ Cardinality(Removed') = Cardinality(Removed) + 1
    BY <1>1, OneMore
  <2>2. Cardinality(Consumed) \in Nat /\ Cardinality(Consumed') = Cardinality(Consumed) + 1
    BY <1>3, OneMore
  <2>3. Counted
    BY CountIsCounted DEF GrantsInOrder
  <2>4. requests' = requests
    OBVIOUS
  <2> QED
    BY <1>2, <1>4, <1>5, <2>1, <2>2, <2>3, <2>4, CountIsCounted DEF Counted
<1>7. \A j \in Methods :
        method'[j] = method[j] \/ method[j] = "none" \/ (HasMethods(c) /\ j = i)
  BY <1>0 DEF Remove, InductiveInvariant, TypeOK
<1>8. \A j \in FirstMethods : method'[j] # "none"
  BY <1>0 DEF Remove, GrantsInOrder, AccountAssumption, InductiveInvariant, TypeOK
<1>9. Spend(g) /\ Answer(c)
  OBVIOUS
<1> QED
  BY <1>0, <1>6, <1>7, <1>8, <1>9, ChangeKeepsOrder, Zenon

\* Linking a method spends one grant and adds one to those linked later.
LEMMA LinkIsCounted ==
  ASSUME AccountAssumption, IsFiniteSet(Methods), IsFiniteSet(Grants), InductiveInvariant,
         GrantsInOrder, NEW c \in Calls, LinkIdentity(c)
  PROVE  GrantsInOrder'
<1> DEFINE i == call[c].method
           g == call[c].grant
<1> USE DEF LinkIdentity
<1>0. /\ call[c] \in Changes /\ call[c].at # "grant" /\ HasGrant(c, g)
      /\ i \in Methods \ FirstMethods /\ g \in Grants
      /\ method[i] = "none" /\ grant[g].status = "fresh"
  <2>1. call[c] \in SignIns \cup Changes \cup {Idle}
    BY DEF InductiveInvariant, TypeOK
  <2>2. call[c] \in Changes /\ call[c].op = "link"
    BY <2>1 DEF SignIns, Idle
  <2> QED
    BY <2>2 DEF Changes, HasGrant, GrantsInOrder, MayLink
<1>1. Removed' = Removed
  BY <1>0 DEF Removed, InductiveInvariant, TypeOK
<1>2. Linked' = Linked \cup {i} /\ i \notin Linked /\ Linked \subseteq Methods
  BY <1>0 DEF Linked, InductiveInvariant, TypeOK
<1>3. Consumed' = Consumed \cup {g} /\ g \notin Consumed /\ Consumed \subseteq Grants
  BY <1>0 DEF Consumed, Spend, InductiveInvariant, TypeOK, GrantRow
<1>4. Removed \subseteq Methods /\ Cardinality(Removed) \in Nat
  BY FS_Subset, FS_CardinalityType DEF Removed
<1>5. Cardinality(requests \cap {"deletion"}) \in Nat
  BY FS_Subset, FS_CardinalityType, FS_Singleton
<1>6. GrantsMatchChanges'
  <2>1. Cardinality(Linked) \in Nat /\ Cardinality(Linked') = Cardinality(Linked) + 1
    BY <1>2, OneMore
  <2>2. Cardinality(Consumed) \in Nat /\ Cardinality(Consumed') = Cardinality(Consumed) + 1
    BY <1>3, OneMore
  <2>3. Counted
    BY CountIsCounted DEF GrantsInOrder
  <2>4. requests' = requests
    OBVIOUS
  <2> QED
    BY <1>1, <1>4, <1>5, <2>1, <2>2, <2>3, <2>4, CountIsCounted DEF Counted
<1>7. \A j \in Methods :
        method'[j] = method[j] \/ method[j] = "none" \/ (HasMethods(c) /\ j = i)
  BY <1>0 DEF InductiveInvariant, TypeOK
<1>8. \A j \in FirstMethods : method'[j] # "none"
  BY <1>0 DEF GrantsInOrder, AccountAssumption, InductiveInvariant, TypeOK
<1>9. Spend(g) /\ Answer(c)
  OBVIOUS
<1> QED
  BY <1>0, <1>6, <1>7, <1>8, <1>9, ChangeKeepsOrder, Zenon

\* Asking for the deletion spends one grant and opens one request.
LEMMA DeletionIsCounted ==
  ASSUME AccountAssumption, IsFiniteSet(Methods), IsFiniteSet(Grants), InductiveInvariant,
         GrantsInOrder, NEW c \in Calls, RequestDeletion(c)
  PROVE  GrantsInOrder'
<1> DEFINE g == call[c].grant
<1> USE DEF RequestDeletion
<1>0. /\ call[c] \in Changes /\ call[c].at # "grant" /\ HasGrant(c, g)
      /\ g \in Grants /\ grant[g].status = "fresh"
  <2>1. call[c] \in SignIns \cup Changes \cup {Idle}
    BY DEF InductiveInvariant, TypeOK
  <2>2. call[c] \in Changes /\ call[c].op = "delete"
    BY <2>1 DEF SignIns, Idle
  <2> QED
    BY <2>2 DEF Changes, HasGrant, GrantsInOrder
<1>1. Removed' = Removed /\ Linked' = Linked
  BY DEF Removed, Linked
<1>3. Consumed' = Consumed \cup {g} /\ g \notin Consumed /\ Consumed \subseteq Grants
  BY <1>0 DEF Consumed, Spend, InductiveInvariant, TypeOK, GrantRow
<1>4. Cardinality(Removed) \in Nat /\ Cardinality(Linked) \in Nat
  BY FS_Subset, FS_CardinalityType DEF Removed, Linked
<1>5. /\ requests \cap {"deletion"} = {} /\ requests' \cap {"deletion"} = {"deletion"}
      /\ Cardinality({}) = 0 /\ Cardinality({"deletion"}) = 1
  BY FS_EmptySet, FS_Singleton
<1>6. GrantsMatchChanges'
  <2>1. Cardinality(Consumed) \in Nat /\ Cardinality(Consumed') = Cardinality(Consumed) + 1
    BY <1>3, OneMore
  <2>2. Counted
    BY CountIsCounted DEF GrantsInOrder
  <2>3. Cardinality(requests \cap {"deletion"}) = 0
    BY <1>5, Zenon
  <2>4. Cardinality(requests' \cap {"deletion"}) = 1
    BY <1>5, Zenon
  <2>5. Counted'
    BY <1>1, <1>4, <2>1, <2>2, <2>3, <2>4 DEF Counted
  <2> QED
    BY <2>5, CountIsCounted, Zenon
<1>7. \A j \in FirstMethods : method'[j] # "none"
  BY DEF GrantsInOrder
<1>8. \A j \in Methods :
        method'[j] = method[j] \/ method[j] = "none" \/ (HasMethods(c) /\ j = call[c].method)
  OBVIOUS
<1>9. Spend(g) /\ Answer(c)
  OBVIOUS
<1> QED
  BY <1>0, <1>6, <1>7, <1>8, <1>9, ChangeKeepsOrder, Zenon

\* What the steps of one call do to the count.
LEMMA CallKeepsCount ==
  ASSUME AccountAssumption, IsFiniteSet(Methods), IsFiniteSet(Grants), InductiveInvariant,
         GrantsInOrder, NEW c \in Calls, CallStep(c)
  PROVE  GrantsInOrder'
<1> USE DEF SignIns, Changes, Idle
<1>0. call[c] \in SignIns \cup Changes \cup {Idle}
  BY DEF InductiveInvariant, TypeOK
<1>1. ASSUME NEW s \in Sessions, NEW i \in Methods, BeginSignIn(c, s, i)
      PROVE  GrantsInOrder'
  <2> DEFINE k == [op |-> "sign_in", at |-> "account", session |-> s, method |-> i]
  <2>1. k \in SignIns /\ call' = [call EXCEPT ![c] = k] /\ UNCHANGED rows
    BY <1>1 DEF BeginSignIn
  <2> QED
    BY <2>1, ReadingKeepsCount DEF rows
<1>2. ASSUME NEW op \in {"link", "unlink", "delete"}, NEW g \in Grants,
             NEW i \in Methods \cup {NoMethod}, BeginChange(c, op, g, i)
      PROVE  GrantsInOrder'
  <2> DEFINE k == [op |-> op, at |-> "grant", grant |-> g, method |-> i]
  <2>1. k \in Changes /\ call' = [call EXCEPT ![c] = k] /\ UNCHANGED rows
    BY <1>2 DEF BeginChange
  <2>2. op # "delete" => i \in Methods
    BY <1>2 DEF BeginChange, Resolved
  <2> QED
    BY <2>1, <2>2, ReadingKeepsCount DEF rows
<1>3. ASSUME Answer(c), UNCHANGED <<method, grant, requests>>
      PROVE  GrantsInOrder'
  <2> DEFINE k == Idle
  <2>1. call' = [call EXCEPT ![c] = k]
    BY <1>3 DEF Answer
  <2>2. /\ k \in SignIns \cup Changes \cup {Idle} /\ k.at \notin {"methods", "history"}
        /\ k.op \notin {"link", "unlink", "delete"}
    OBVIOUS
  <2> HIDE DEF k
  <2> QED
    BY <1>3, <2>1, <2>2, ReadingKeepsCount
<1>4. ASSUME NEW at \in {"insert", "reference"}, call[c] \in SignIns, Go(c, at), UNCHANGED rows
      PROVE  GrantsInOrder'
  <2> DEFINE k == [call[c] EXCEPT !.at = at]
  <2>1. k \in SignIns /\ k.at = at /\ k.op = "sign_in" /\ call' = [call EXCEPT ![c] = k]
    BY <1>4 DEF Go
  <2> QED
    BY <1>4, <2>1, ReadingKeepsCount DEF rows
<1>5. ASSUME NEW at \in {"hold", "methods", "history", "change"},
             call[c] \in Changes, Go(c, at), UNCHANGED rows,
             at \in {"methods", "history"} => call[c].op = "unlink",
             at = "history" => method[call[c].method] = "active",
             /\ grant[call[c].grant].status = "fresh"
             /\ \A d \in Calls \ {c} : ~HasGrant(d, call[c].grant)
      PROVE  GrantsInOrder'
  <2> DEFINE k == [call[c] EXCEPT !.at = at]
  <2>1. /\ k \in Changes /\ k.at = at /\ k.op = call[c].op
        /\ k.method = call[c].method /\ k.grant = call[c].grant
        /\ call' = [call EXCEPT ![c] = k]
    BY <1>5 DEF Go
  <2>2. k.op \in {"link", "unlink"} => k.method \in Methods
    BY <2>1 DEF GrantsInOrder
  <2> HIDE DEF k
  <2> QED
    BY <1>5, <2>1, <2>2, ReadingKeepsCount DEF rows
<1>6. call[c] \in Changes /\ call[c].at # "grant" =>
        /\ grant[call[c].grant].status = "fresh"
        /\ \A d \in Calls \ {c} : ~HasGrant(d, call[c].grant)
  BY DEF GrantsInOrder, HasGrant
<1>7. ASSUME LockAccount(c) \/ InsertSession(c) PROVE GrantsInOrder'
  <2>1. call[c] \in SignIns
    BY <1>0, <1>7 DEF LockAccount, InsertSession
  <2> QED
    BY <1>3, <1>4, <1>7, <2>1 DEF LockAccount, InsertSession, rows
<1>8. ASSUME ReferenceMethod(c) PROVE GrantsInOrder'
  BY <1>3, <1>8 DEF ReferenceMethod
<1>9. ASSUME ConsumeRecentAuth(c) PROVE GrantsInOrder'
  <2>1. call[c] \in Changes
    BY <1>0, <1>9 DEF ConsumeRecentAuth
  <2> QED
    BY <1>3, <1>5, <1>9, <2>1 DEF ConsumeRecentAuth, rows
<1>10. ASSUME AssertNoHold(c) PROVE GrantsInOrder'
  <2>1. call[c] \in Changes
    BY <1>0, <1>10 DEF AssertNoHold
  <2> QED
    BY <1>3, <1>5, <1>6, <1>10, <2>1 DEF AssertNoHold, rows
<1>11. ASSUME LockMethods(c) PROVE GrantsInOrder'
  <2>1. call[c] \in Changes /\ call[c].op = "unlink"
    BY <1>0, <1>11 DEF LockMethods, GrantsInOrder
  <2> QED
    BY <1>3, <1>5, <1>6, <1>11, <2>1 DEF LockMethods, ActiveMethods, rows
<1>12. ASSUME RefuseChange(c) \/ Abort(c) PROVE GrantsInOrder'
  BY <1>3, <1>12 DEF RefuseChange, Abort, rows
<1> QED
  BY <1>1, <1>2, <1>7, <1>8, <1>9, <1>10, <1>11, <1>12, RemovalIsCounted, LinkIsCounted,
     DeletionIsCounted DEF CallStep

\* What the other steps do to it: no call moves.
LEMMA OthersKeepCount ==
  ASSUME AccountAssumption, InductiveInvariant, GrantsInOrder,
         \/ \E s \in Sessions :
              \/ RevokeSession(s) \/ RequestExport(s)
              \/ \E g \in Grants, p \in Purposes : GrantRecentAuth(g, s, p)
         \/ \E w \in Staff : PlaceRecoveryHold(w) \/ ReleaseRecoveryHold(w)
         \/ UNCHANGED vars
  PROVE  GrantsInOrder'
<1>1. /\ UNCHANGED <<method, call>> /\ requests' \cap {"deletion"} = requests \cap {"deletion"}
      /\ \A g \in Grants : \/ grant'[g].status = grant[g].status
                           \/ grant[g].status = "none" /\ grant'[g].status = "fresh"
  <2>1. ASSUME NEW s \in Sessions, RequestExport(s)
        PROVE  UNCHANGED <<method, call, grant>> /\ requests' \cap {"deletion"} = requests \cap {"deletion"}
    BY <2>1 DEF RequestExport
  <2>2. ASSUME NEW s \in Sessions, NEW g \in Grants, NEW p \in Purposes, GrantRecentAuth(g, s, p)
        PROVE  /\ UNCHANGED <<method, call, requests>>
               /\ \A h \in Grants : \/ grant'[h].status = grant[h].status
                                    \/ grant[h].status = "none" /\ grant'[h].status = "fresh"
    BY <2>2 DEF GrantRecentAuth, InductiveInvariant, TypeOK
  <2> QED
    BY <2>1, <2>2 DEF RevokeSession, PlaceRecoveryHold, ReleaseRecoveryHold, vars, rows
<1>2. Consumed' = Consumed
  BY <1>1 DEF Consumed
<1>3. GrantsMatchChanges'
  BY <1>1, <1>2 DEF GrantsInOrder, GrantsMatchChanges, Consumed
<1>4. \A c \in Calls, g \in Grants : HasGrant(c, g)' <=> HasGrant(c, g)
  BY <1>1 DEF HasGrant
<1>5. (\A c \in Calls, g \in Grants : HasGrant(c, g) => grant[g].status = "fresh")'
  BY <1>1, <1>4 DEF GrantsInOrder
<1> QED
  BY <1>1, <1>3, <1>4, <1>5 DEF GrantsInOrder

\* Every recent authentication that was spent bought one change, and every
\* change was bought (consumeRecentAuth and its three callers).
THEOREM GrantsAreCounted ==
  ASSUME AccountAssumption, IsFiniteSet(Methods), IsFiniteSet(Grants)
  PROVE  Spec => []GrantsMatchChanges
<1>1. Init => GrantsInOrder
  <2> SUFFICES ASSUME Init PROVE GrantsInOrder
    OBVIOUS
  <2>1. Removed = {} /\ Linked = {} /\ Consumed = {} /\ requests \cap {"deletion"} = {}
    BY DEF Init, Removed, Linked, Consumed, AccountAssumption
  <2>2. GrantsMatchChanges
    BY <2>1, FS_EmptySet, CountIsCounted DEF Counted
  <2> QED
    BY <2>2 DEF Init, GrantsInOrder, HasGrant, Idle, AccountAssumption
<1>2. InductiveInvariant /\ GrantsInOrder /\ [Next]_vars => GrantsInOrder'
  BY CallKeepsCount, OthersKeepCount DEF Next
<1>3. GrantsInOrder => GrantsMatchChanges
  BY DEF GrantsInOrder
<1> QED
  BY <1>1, <1>2, <1>3, Invariance, PTL DEF Spec

(***************************************************************************)
(* Sums over finite sets.                                                  *)
(***************************************************************************)
Sum(f, S) == Ledger!SumFunctionOnSet(f, S)

\* A set of numbers has a least one.
LEMMA LeastNatural ==
  ASSUME NEW T \in SUBSET Nat, T # {}
  PROVE  \E m \in T : \A n \in T : m <= n
<1> DEFINE R == {ss \in Nat \X Nat : ss[1] < ss[2]}
<1>1. IsWellFoundedOn(OpToRel(<, Nat), Nat)
  BY NatLessThanWellFounded
<1>2. IsWellFoundedOn(R, Nat)
  BY <1>1 DEF OpToRel
<1>3. \A m, n \in Nat : n < m => <<n, m>> \in R
  OBVIOUS
<1> HIDE DEF R
<1>4. \E m \in T : \A n \in T : ~(<<n, m>> \in R)
  BY <1>2, WFMin
<1>5. PICK m \in T : \A n \in T : ~(<<n, m>> \in R)
  BY <1>4
<1>6. \A n \in T : m <= n
  <2> SUFFICES ASSUME NEW n \in T  PROVE m <= n
    OBVIOUS
  <2>1. m \in Nat /\ n \in Nat
    OBVIOUS
  <2>2. ~(n < m)
    BY <1>3, <1>5, <2>1
  <2> QED  BY <2>1, <2>2
<1> QED  BY <1>6

\* A family of subsets of a finite set has a smallest member: the induction that
\* the facts about sums are proved by, on a smallest set they fail for.
LEMMA MinimalSubset ==
  ASSUME NEW S, IsFiniteSet(S), NEW T \in SUBSET (SUBSET S), T # {}
  PROVE  \E X \in T : \A Y \in T : Y \subseteq X => Y = X
<1>1. IsWellFoundedOn(StrictSubsetOrdering(S), SUBSET S)
  BY FS_StrictSubsetOrderingWellFounded, FS_FiniteSubsetsOfFinite
<1>2. \E X \in T : \A Y \in T : ~(<<Y, X>> \in StrictSubsetOrdering(S))
  BY <1>1, WFMin
<1> QED  BY <1>2 DEF StrictSubsetOrdering

\* How the folds of the community modules walk over a set.
Pick(s) == CHOOSE x \in s : TRUE

\* One step of the walk.
After(f, g, s) == IF s = {} THEN 0 ELSE f[Pick(s)] + g[s \ {Pick(s)}]

\* The sum is the fold written with a function over the subsets of the set.
LEMMA SumIsChosen ==
  ASSUME NEW f, NEW S
  PROVE  Sum(f, S) = (CHOOSE g : g = [s \in SUBSET S |-> After(f, g, s)])[S]
BY DEF Sum, After, Pick, Ledger!SumFunctionOnSet, Ledger!FoldFunctionOnSet,
       Ledger!MapThenFoldSet

\* Without its picked element a set has one element less.
LEMMA Smaller ==
  ASSUME NEW s, IsFiniteSet(s), s # {}
  PROVE  /\ Pick(s) \in s /\ s \ {Pick(s)} \subseteq s /\ s \ {Pick(s)} # s
         /\ IsFiniteSet(s \ {Pick(s)})
         /\ Cardinality(s \ {Pick(s)}) = Cardinality(s) - 1
         /\ Cardinality(s) \in Nat
<1>1. Pick(s) \in s
  BY DEF Pick
<1> QED  BY <1>1, FS_RemoveElement, FS_CardinalityType

\* That function exists, built for one cardinality after the other.
LEMMA SumExists ==
  ASSUME NEW S, IsFiniteSet(S), NEW f
  PROVE  \E g : g = [s \in SUBSET S |-> After(f, g, s)]
<1> DEFINE Fits(g, n) == \A s \in SUBSET S : Cardinality(s) <= n => g[s] = After(f, g, s)
           Missed == {n \in Nat : ~ \E g : Fits(g, n)}
<1>0. \A s \in SUBSET S : IsFiniteSet(s) /\ Cardinality(s) \in Nat
  BY FS_Subset, FS_CardinalityType
<1>1. Fits([s \in SUBSET S |-> 0], 0)
  <2> SUFFICES ASSUME NEW s \in SUBSET S, Cardinality(s) <= 0
               PROVE  [t \in SUBSET S |-> 0][s] = After(f, [t \in SUBSET S |-> 0], s)
    OBVIOUS
  <2>1. s = {}
    BY <1>0, FS_EmptySet
  <2> QED  BY <2>1 DEF After
<1>2. ASSUME NEW n \in Nat, NEW g, Fits(g, n)
      PROVE  \E h : Fits(h, n + 1)
  <2> DEFINE h == [s \in SUBSET S |-> IF Cardinality(s) <= n THEN g[s] ELSE After(f, g, s)]
  <2>1. ASSUME NEW s \in SUBSET S, Cardinality(s) <= n + 1
        PROVE  h[s] = After(f, h, s)
    <3>1. h[s] = After(f, g, s)
      BY <1>2
    <3>2. CASE s = {}
      BY <3>1, <3>2 DEF After
    <3>3. CASE s # {}
      <4> DEFINE r == s \ {Pick(s)}
      <4>1. r \in SUBSET S /\ Cardinality(r) <= n
        BY <1>0, <2>1, <3>3, Smaller
      <4>2. h[r] = g[r]
        BY <4>1
      <4> HIDE DEF h
      <4> QED  BY <3>1, <3>3, <4>2 DEF After
    <3> QED  BY <3>2, <3>3
  <2> HIDE DEF h
  <2> QED  BY <2>1
<1>3. Missed = {}
  <2> SUFFICES ASSUME Missed # {}  PROVE FALSE
    OBVIOUS
  <2>1. PICK m \in Missed : \A n \in Missed : m <= n
    <3> HIDE DEF Missed
    <3>1. Missed \in SUBSET Nat
      BY DEF Missed
    <3> QED  BY <3>1, LeastNatural
  <2>2. m \in Nat /\ ~ \E g : Fits(g, m)
    OBVIOUS
  <2>3. m # 0
    BY <1>1, <2>2
  <2>4. m - 1 \in Nat /\ m - 1 \notin Missed /\ (m - 1) + 1 = m
    BY <2>1, <2>2, <2>3
  <2>5. \E g : Fits(g, m - 1)
    BY <2>4
  <2> HIDE DEF Fits
  <2> QED  BY <1>2, <2>2, <2>4, <2>5
<1>4. PICK g : Fits(g, Cardinality(S))
  BY <1>0, <1>3
<1> DEFINE h == [s \in SUBSET S |-> g[s]]
<1>5. \A s \in SUBSET S : g[s] = After(f, g, s)
  BY <1>4, <1>0, FS_Subset
<1>6. ASSUME NEW s \in SUBSET S
      PROVE  h[s] = After(f, h, s)
  <2>1. s = {} \/ s \ {Pick(s)} \in SUBSET S
    OBVIOUS
  <2> QED  BY <1>5, <2>1 DEF After
<1>7. h = [s \in SUBSET S |-> After(f, h, s)]
  <2>1. h = [s \in SUBSET S |-> h[s]]
    OBVIOUS
  <2> HIDE DEF h
  <2> QED  BY <1>6, <2>1
<1> QED  BY <1>7

\* So the sum can be taken element by element.
LEMMA SumFollows ==
  ASSUME NEW S, IsFiniteSet(S), NEW f
  PROVE  /\ Sum(f, {}) = 0
         /\ S # {} => Sum(f, S) = f[Pick(S)] + Sum(f, S \ {Pick(S)})
<1> DEFINE Iter(T) == CHOOSE g : g = [s \in SUBSET T |-> After(f, g, s)]
<1>0. \A T : Sum(f, T) = Iter(T)[T]
  BY SumIsChosen
<1>1. \A T : IsFiniteSet(T) => Iter(T) = [s \in SUBSET T |-> After(f, Iter(T), s)]
  BY SumExists
<1>2. \A T : IsFiniteSet(T) => \A s \in SUBSET T : Iter(T)[s] = After(f, Iter(T), s)
  <2> HIDE DEF Iter
  <2> SUFFICES ASSUME NEW T, IsFiniteSet(T), NEW s \in SUBSET T
               PROVE  Iter(T)[s] = After(f, Iter(T), s)
    OBVIOUS
  <2> DEFINE g == Iter(T)
  <2>1. g = [r \in SUBSET T |-> After(f, g, r)]
    BY <1>1
  <2> HIDE DEF g
  <2>2. g[s] = After(f, g, s)
    BY <2>1
  <2> QED  BY <2>2 DEF g
<1> HIDE DEF Iter
<1>3. ASSUME NEW A, NEW B, IsFiniteSet(A), IsFiniteSet(B), B \in SUBSET A
      PROVE  \A s \in SUBSET B : Iter(A)[s] = Iter(B)[s]
  <2> DEFINE T == {s \in SUBSET B : Iter(A)[s] # Iter(B)[s]}
  <2>1. SUFFICES ASSUME T # {}  PROVE FALSE
    OBVIOUS
  <2>2. PICK X \in T : \A Y \in T : Y \subseteq X => Y = X
    <3> HIDE DEF T
    <3>1. T \in SUBSET (SUBSET B)
      BY DEF T
    <3> QED  BY <1>3, <2>1, <3>1, MinimalSubset
  <2>3. X \in SUBSET A /\ X \in SUBSET B /\ Iter(A)[X] # Iter(B)[X] /\ IsFiniteSet(X)
    BY <1>3, FS_Subset
  <2>4. Iter(A)[X] = After(f, Iter(A), X) /\ Iter(B)[X] = After(f, Iter(B), X)
    BY <1>2, <1>3, <2>3
  <2>5. X # {}
    BY <2>3, <2>4 DEF After
  <2> DEFINE Y == X \ {Pick(X)}
  <2>6. Y \in SUBSET B /\ Y \subseteq X /\ Y # X
    BY <2>3, <2>5, Smaller
  <2>7. Iter(A)[Y] = Iter(B)[Y]
    BY <2>2, <2>6
  <2> QED  BY <2>3, <2>4, <2>5, <2>7 DEF After
<1>4. Sum(f, {}) = 0
  <2>1. Iter({})[{}] = After(f, Iter({}), {})
    BY <1>2, FS_EmptySet
  <2> QED  BY <1>0, <2>1 DEF After
<1>5. ASSUME S # {}
      PROVE  Sum(f, S) = f[Pick(S)] + Sum(f, S \ {Pick(S)})
  <2> DEFINE r == S \ {Pick(S)}
  <2>1. r \in SUBSET S /\ IsFiniteSet(r)
    BY <1>5, Smaller
  <2>2. Iter(S)[S] = f[Pick(S)] + Iter(S)[r]
    BY <1>2, <1>5 DEF After
  <2>3. Iter(S)[r] = Iter(r)[r]
    BY <1>3, <2>1
  <2> QED  BY <1>0, <2>2, <2>3
<1> QED  BY <1>4, <1>5

\* A sum of integers is one.
LEMMA SumType ==
  ASSUME NEW S, IsFiniteSet(S), NEW f, \A x \in S : f[x] \in Int
  PROVE  Sum(f, S) \in Int
<1> DEFINE T == {X \in SUBSET S : Sum(f, X) \notin Int}
<1>1. SUFFICES ASSUME T # {}  PROVE FALSE
  OBVIOUS
<1>2. PICK X \in T : \A Y \in T : Y \subseteq X => Y = X
  <2> HIDE DEF T
  <2>1. T \in SUBSET (SUBSET S)
    BY DEF T
  <2> QED  BY <1>1, <2>1, MinimalSubset
<1>3. X \in SUBSET S /\ IsFiniteSet(X) /\ Sum(f, X) \notin Int
  BY FS_Subset
<1>4. X # {}
  <2>1. Sum(f, {}) = 0
    BY FS_EmptySet, SumFollows
  <2> QED  BY <1>3, <2>1
<1>5. /\ Pick(X) \in S /\ X \ {Pick(X)} \subseteq X /\ X \ {Pick(X)} # X
      /\ X \ {Pick(X)} \in SUBSET S
  BY <1>3, <1>4, Smaller
<1>6. Sum(f, X \ {Pick(X)}) \in Int
  BY <1>2, <1>5
<1>7. Sum(f, X) = f[Pick(X)] + Sum(f, X \ {Pick(X)})
  BY <1>3, <1>4, SumFollows
<1>8. f[Pick(X)] \in Int
  BY <1>5
<1> HIDE DEF T
<1> QED  BY <1>3, <1>6, <1>7, <1>8

\* A sum of naturals is one.
LEMMA SumIsNatural ==
  ASSUME NEW S, IsFiniteSet(S), NEW f, \A x \in S : f[x] \in Nat
  PROVE  Sum(f, S) \in Nat
<1> DEFINE T == {X \in SUBSET S : Sum(f, X) \notin Nat}
<1>1. SUFFICES ASSUME T # {}  PROVE FALSE
  OBVIOUS
<1>2. PICK X \in T : \A Y \in T : Y \subseteq X => Y = X
  <2> HIDE DEF T
  <2>1. T \in SUBSET (SUBSET S)
    BY DEF T
  <2> QED  BY <1>1, <2>1, MinimalSubset
<1>3. X \in SUBSET S /\ IsFiniteSet(X) /\ Sum(f, X) \notin Nat
  BY FS_Subset
<1>4. X # {}
  <2>1. Sum(f, {}) = 0
    BY FS_EmptySet, SumFollows
  <2> QED  BY <1>3, <2>1
<1>5. /\ Pick(X) \in S /\ X \ {Pick(X)} \subseteq X /\ X \ {Pick(X)} # X
      /\ X \ {Pick(X)} \in SUBSET S
  BY <1>3, <1>4, Smaller
<1>6. Sum(f, X \ {Pick(X)}) \in Nat
  BY <1>2, <1>5
<1>7. Sum(f, X) = f[Pick(X)] + Sum(f, X \ {Pick(X)})
  BY <1>3, <1>4, SumFollows
<1>8. f[Pick(X)] \in Nat
  BY <1>5
<1> HIDE DEF T
<1> QED  BY <1>3, <1>6, <1>7, <1>8

\* Any element may be taken out of a sum first.
LEMMA SumRemove ==
  ASSUME NEW S, IsFiniteSet(S), NEW f, \A x \in S : f[x] \in Int, NEW x \in S
  PROVE  Sum(f, S) = f[x] + Sum(f, S \ {x})
<1> DEFINE T == {X \in SUBSET S : \E y \in X : Sum(f, X) # f[y] + Sum(f, X \ {y})}
<1>1. SUFFICES ASSUME T # {}  PROVE FALSE
  OBVIOUS
<1>2. PICK X \in T : \A Y \in T : Y \subseteq X => Y = X
  <2> HIDE DEF T
  <2>1. T \in SUBSET (SUBSET S)
    BY DEF T
  <2> QED  BY <1>1, <2>1, MinimalSubset
<1>3. PICK y \in X : Sum(f, X) # f[y] + Sum(f, X \ {y})
  OBVIOUS
<1>4. X \in SUBSET S /\ IsFiniteSet(X) /\ X # {}
  BY FS_Subset
<1> DEFINE p == Pick(X)
<1>5. p \in X /\ f[p] \in Int /\ f[y] \in Int
  BY <1>4, Smaller
<1>6. Sum(f, X) = f[p] + Sum(f, X \ {p})
  BY <1>4, SumFollows
<1>7. p # y
  BY <1>3, <1>6
<1> HIDE DEF p
<1>8. Sum(f, X \ {p}) = f[y] + Sum(f, (X \ {p}) \ {y})
  <2>1. X \ {p} \in SUBSET S /\ X \ {p} \subseteq X /\ X \ {p} # X /\ y \in X \ {p}
    BY <1>4, <1>5, <1>7
  <2> QED  BY <1>2, <2>1
<1>9. Sum(f, X \ {y}) = f[p] + Sum(f, (X \ {y}) \ {p})
  <2>1. X \ {y} \in SUBSET S /\ X \ {y} \subseteq X /\ X \ {y} # X /\ p \in X \ {y}
    BY <1>4, <1>5, <1>7
  <2> QED  BY <1>2, <2>1
<1>10. (X \ {y}) \ {p} = (X \ {p}) \ {y}
  OBVIOUS
<1>11. Sum(f, (X \ {p}) \ {y}) \in Int
  <2>1. (X \ {p}) \ {y} \in SUBSET S /\ IsFiniteSet((X \ {p}) \ {y})
    BY <1>4, FS_Subset
  <2> QED  BY <2>1, SumType
<1> DEFINE r == Sum(f, (X \ {p}) \ {y})
<1>12. /\ Sum(f, X \ {p}) = f[y] + r
       /\ Sum(f, X \ {y}) = f[p] + r
       /\ r \in Int
  BY <1>8, <1>9, <1>10, <1>11
<1> HIDE DEF T, r
<1>13. Sum(f, X) = f[p] + (f[y] + r)
  BY <1>6, <1>12
<1>14. f[y] + Sum(f, X \ {y}) = f[y] + (f[p] + r)
  BY <1>12
<1>15. f[p] + (f[y] + r) = f[y] + (f[p] + r)
  BY <1>5, <1>12
<1> QED  BY <1>3, <1>13, <1>14, <1>15
\* A whole and a remainder of each value, as parts of 15%.
AreShares(f, g, h, S) ==
  \A x \in S : /\ f[x] \in Int /\ g[x] \in Int /\ h[x] \in Int
               /\ 100 * f[x] + g[x] = 15 * h[x]

\* What holds of the share of each element holds of the sums.
LEMMA SumOfShares ==
  ASSUME NEW S, IsFiniteSet(S), NEW f, NEW g, NEW h, AreShares(f, g, h, S)
  PROVE  100 * Sum(f, S) + Sum(g, S) = 15 * Sum(h, S)
<1>0. \A x \in S : /\ f[x] \in Int /\ g[x] \in Int /\ h[x] \in Int
                   /\ 100 * f[x] + g[x] = 15 * h[x]
  BY DEF AreShares
<1> DEFINE T == {X \in SUBSET S : 100 * Sum(f, X) + Sum(g, X) # 15 * Sum(h, X)}
<1>1. SUFFICES ASSUME T # {}  PROVE FALSE
  OBVIOUS
<1>2. PICK X \in T : \A Y \in T : Y \subseteq X => Y = X
  <2> HIDE DEF T
  <2>1. T \in SUBSET (SUBSET S)
    BY DEF T
  <2> QED  BY <1>1, <2>1, MinimalSubset
<1>3. X \in SUBSET S /\ IsFiniteSet(X) /\ 100 * Sum(f, X) + Sum(g, X) # 15 * Sum(h, X)
  BY FS_Subset
<1>4. X # {}
  <2>1. Sum(f, {}) = 0 /\ Sum(g, {}) = 0 /\ Sum(h, {}) = 0
    BY FS_EmptySet, SumFollows
  <2>2. 100 * Sum(f, {}) + Sum(g, {}) = 15 * Sum(h, {})
    BY <2>1
  <2> QED  BY <1>3, <2>2
<1> DEFINE p == Pick(X)
           Y == X \ {p}
<1>5. p \in S /\ Y \in SUBSET S /\ Y \subseteq X /\ Y # X /\ IsFiniteSet(Y)
  BY <1>3, <1>4, Smaller
<1>6. 100 * Sum(f, Y) + Sum(g, Y) = 15 * Sum(h, Y)
  BY <1>2, <1>5
<1>7. /\ Sum(f, X) = f[p] + Sum(f, Y) /\ Sum(g, X) = g[p] + Sum(g, Y)
      /\ Sum(h, X) = h[p] + Sum(h, Y)
  BY <1>3, <1>4, SumFollows
<1>8. Sum(f, Y) \in Int /\ Sum(g, Y) \in Int /\ Sum(h, Y) \in Int
  BY <1>0, <1>5, SumType
<1>9. /\ f[p] \in Int /\ g[p] \in Int /\ h[p] \in Int
      /\ 100 * f[p] + g[p] = 15 * h[p]
  BY <1>0, <1>5
<1> HIDE DEF T, p, Y
<1>10. 100 * (f[p] + Sum(f, Y)) + (g[p] + Sum(g, Y)) = 15 * (h[p] + Sum(h, Y))
  <2> DEFINE a == f[p]
             b == g[p]
             c == h[p]
             d == Sum(f, Y)
             e == Sum(g, Y)
             k == Sum(h, Y)
  <2>1. a \in Int /\ b \in Int /\ c \in Int /\ 100 * a + b = 15 * c
    BY <1>9
  <2>2. d \in Int /\ e \in Int /\ k \in Int /\ 100 * d + e = 15 * k
    BY <1>6, <1>8
  <2> HIDE DEF a, b, c, d, e, k
  <2>3. 100 * (a + d) + (b + e) = 15 * (c + k)
    BY <2>1, <2>2
  <2> QED  BY <2>3 DEF a, b, c, d, e, k
<1>11. 100 * Sum(f, X) + Sum(g, X) = 15 * Sum(h, X)
  BY <1>7, <1>10, Zenon
<1> QED  BY <1>3, <1>11

\* A sum depends on the values in its set only.
LEMMA SumSame ==
  ASSUME NEW S, IsFiniteSet(S), NEW f, NEW g, \A x \in S : f[x] = g[x]
  PROVE  Sum(f, S) = Sum(g, S)
<1> DEFINE T == {X \in SUBSET S : Sum(f, X) # Sum(g, X)}
<1>1. SUFFICES ASSUME T # {}  PROVE FALSE
  OBVIOUS
<1>2. PICK X \in T : \A Y \in T : Y \subseteq X => Y = X
  <2> HIDE DEF T
  <2>1. T \in SUBSET (SUBSET S)
    BY DEF T
  <2> QED  BY <1>1, <2>1, MinimalSubset
<1>3. X \in SUBSET S /\ IsFiniteSet(X) /\ Sum(f, X) # Sum(g, X)
  BY FS_Subset
<1>4. X # {}
  <2>1. Sum(f, {}) = 0 /\ Sum(g, {}) = 0
    BY FS_EmptySet, SumFollows
  <2> QED  BY <1>3, <2>1
<1> DEFINE p == Pick(X)
           Y == X \ {p}
<1>5. p \in S /\ Y \in SUBSET S /\ Y \subseteq X /\ Y # X
  BY <1>3, <1>4, Smaller
<1>6. Sum(f, Y) = Sum(g, Y)
  BY <1>2, <1>5
<1>7. Sum(f, X) = f[p] + Sum(f, Y) /\ Sum(g, X) = g[p] + Sum(g, Y)
  BY <1>3, <1>4, SumFollows
<1> HIDE DEF T, p, Y
<1> QED  BY <1>3, <1>5, <1>6, <1>7

\* The sum of two functions.
LEMMA SumOfTwo ==
  ASSUME NEW S, IsFiniteSet(S), NEW f, NEW g, NEW h,
         \A x \in S : f[x] \in Int /\ g[x] \in Int /\ h[x] = f[x] + g[x]
  PROVE  Sum(h, S) = Sum(f, S) + Sum(g, S)
<1> DEFINE T == {X \in SUBSET S : Sum(h, X) # Sum(f, X) + Sum(g, X)}
<1>1. SUFFICES ASSUME T # {}  PROVE FALSE
  OBVIOUS
<1>2. PICK X \in T : \A Y \in T : Y \subseteq X => Y = X
  <2> HIDE DEF T
  <2>1. T \in SUBSET (SUBSET S)
    BY DEF T
  <2> QED  BY <1>1, <2>1, MinimalSubset
<1>3. X \in SUBSET S /\ IsFiniteSet(X) /\ Sum(h, X) # Sum(f, X) + Sum(g, X)
  BY FS_Subset
<1>4. X # {}
  <2>1. Sum(f, {}) = 0 /\ Sum(g, {}) = 0 /\ Sum(h, {}) = 0
    BY FS_EmptySet, SumFollows
  <2> QED  BY <1>3, <2>1
<1> DEFINE p == Pick(X)
           Y == X \ {p}
<1>5. p \in S /\ Y \in SUBSET S /\ Y \subseteq X /\ Y # X /\ IsFiniteSet(Y)
  BY <1>3, <1>4, Smaller
<1>6. Sum(h, Y) = Sum(f, Y) + Sum(g, Y)
  BY <1>2, <1>5
<1>7. /\ Sum(f, X) = f[p] + Sum(f, Y) /\ Sum(g, X) = g[p] + Sum(g, Y)
      /\ Sum(h, X) = h[p] + Sum(h, Y)
  BY <1>3, <1>4, SumFollows
<1>8. Sum(f, Y) \in Int /\ Sum(g, Y) \in Int
  BY <1>5, SumType
<1> HIDE DEF T, p, Y
<1> QED  BY <1>3, <1>5, <1>6, <1>7, <1>8

\* The sum over two disjoint sets.
LEMMA SumOfUnion ==
  ASSUME NEW A, NEW B, IsFiniteSet(A), IsFiniteSet(B), A \cap B = {},
         NEW f, \A x \in A \cup B : f[x] \in Int
  PROVE  Sum(f, A \cup B) = Sum(f, A) + Sum(f, B)
<1> DEFINE T == {X \in SUBSET A : Sum(f, X \cup B) # Sum(f, X) + Sum(f, B)}
<1>1. SUFFICES ASSUME T # {}  PROVE FALSE
  OBVIOUS
<1>2. PICK X \in T : \A Y \in T : Y \subseteq X => Y = X
  <2> HIDE DEF T
  <2>1. T \in SUBSET (SUBSET A)
    BY DEF T
  <2> QED  BY <1>1, <2>1, MinimalSubset
<1>3. X \in SUBSET A /\ IsFiniteSet(X) /\ Sum(f, X \cup B) # Sum(f, X) + Sum(f, B)
  BY FS_Subset
<1>0. Sum(f, B) \in Int
  BY SumType
<1>4. X # {}
  <2>1. Sum(f, {}) = 0 /\ {} \cup B = B
    BY FS_EmptySet, SumFollows
  <2>2. Sum(f, {} \cup B) = Sum(f, {}) + Sum(f, B)
    BY <1>0, <2>1
  <2> QED  BY <1>3, <2>2
<1> DEFINE p == Pick(X)
           Y == X \ {p}
<1>5. p \in X /\ Y \in SUBSET A /\ Y \subseteq X /\ Y # X /\ IsFiniteSet(Y)
  BY <1>3, <1>4, Smaller
<1>6. Sum(f, Y \cup B) = Sum(f, Y) + Sum(f, B)
  BY <1>2, <1>5
<1>7. Sum(f, X) = f[p] + Sum(f, Y)
  BY <1>3, <1>4, SumFollows
<1> HIDE DEF p, Y
<1>8. Sum(f, X \cup B) = f[p] + Sum(f, Y \cup B)
  <2>1. IsFiniteSet(X \cup B) /\ p \in X \cup B /\ (X \cup B) \ {p} = Y \cup B
    BY <1>3, <1>5, FS_Union DEF Y
  <2>2. \A x \in X \cup B : f[x] \in Int
    BY <1>3
  <2> QED  BY <2>1, <2>2, SumRemove
<1>9. Sum(f, Y) \in Int /\ f[p] \in Int
  <2>1. \A x \in Y : f[x] \in Int
    BY <1>5
  <2> QED  BY <1>3, <1>5, <2>1, SumType
<1> HIDE DEF T
<1> QED  BY <1>0, <1>3, <1>6, <1>7, <1>8, <1>9

\* Values between 0 and 99 add up to 99 for each value above 0 at most.
LEMMA SumIsBounded ==
  ASSUME NEW S, IsFiniteSet(S), NEW f, \A x \in S : f[x] \in 0 .. 99
  PROVE  /\ Cardinality({x \in S : f[x] > 0}) \in Nat
         /\ Sum(f, S) \in 0 .. 99 * Cardinality({x \in S : f[x] > 0})
<1> DEFINE Above(X) == {x \in X : f[x] > 0}
           N(X) == Cardinality(Above(X))
           T == {X \in SUBSET S : ~(Sum(f, X) \in 0 .. 99 * N(X))}
<1>0. \A X \in SUBSET S : IsFiniteSet(X) /\ IsFiniteSet(Above(X)) /\ N(X) \in Nat
  BY FS_Subset, FS_CardinalityType
<1>1. SUFFICES ASSUME T # {}  PROVE FALSE
  BY <1>0
<1>2. PICK X \in T : \A Y \in T : Y \subseteq X => Y = X
  <2> HIDE DEF T
  <2>1. T \in SUBSET (SUBSET S)
    BY DEF T
  <2> QED  BY <1>1, <2>1, MinimalSubset
<1>3. X \in SUBSET S /\ IsFiniteSet(X) /\ ~(Sum(f, X) \in 0 .. 99 * N(X)) /\ N(X) \in Nat
  BY <1>0
<1>4. X # {}
  <2>1. Sum(f, {}) = 0
    BY FS_EmptySet, SumFollows
  <2> HIDE DEF N
  <2>2. 0 \in 0 .. 99 * N(X)
    BY <1>3
  <2> QED  BY <1>3, <2>1, <2>2
<1> DEFINE p == Pick(X)
           Y == X \ {p}
<1>5. p \in X /\ p \in S /\ Y \in SUBSET S /\ Y \subseteq X /\ Y # X /\ IsFiniteSet(Y)
  BY <1>3, <1>4, Smaller
<1>6. Sum(f, Y) \in 0 .. 99 * N(Y) /\ N(Y) \in Nat
  BY <1>0, <1>2, <1>5
<1>7. Sum(f, X) = f[p] + Sum(f, Y)
  BY <1>3, <1>4, SumFollows
<1> HIDE DEF p, Y
<1>8. N(X) = IF f[p] > 0 THEN N(Y) + 1 ELSE N(Y)
  <2>1. CASE f[p] > 0
    <3>1. Above(Y) = Above(X) \ {p} /\ p \in Above(X)
      BY <1>5, <2>1 DEF Y
    <3>2. IsFiniteSet(Above(X))
      BY <1>0, <1>3
    <3> HIDE DEF Above
    <3>3. N(Y) = N(X) - 1
      BY <3>1, <3>2, FS_RemoveElement
    <3> HIDE DEF N
    <3> QED  BY <1>3, <1>6, <2>1, <3>3
  <2>2. CASE ~(f[p] > 0)
    <3>1. Above(Y) = Above(X)
      BY <1>5, <2>2 DEF Y
    <3> QED  BY <2>2, <3>1
  <2> QED  BY <2>1, <2>2
<1>9. f[p] \in 0 .. 99
  BY <1>5
<1> HIDE DEF T, N
<1> QED  BY <1>3, <1>6, <1>7, <1>8, <1>9

\* Adding one to the values at A adds as many as there are in A.
LEMMA SumWithOnes ==
  ASSUME NEW S, IsFiniteSet(S), NEW A \in SUBSET S, NEW f, NEW g,
         \A x \in S : f[x] \in Int /\ g[x] = f[x] + (IF x \in A THEN 1 ELSE 0)
  PROVE  Cardinality(A) \in Nat /\ Sum(g, S) = Sum(f, S) + Cardinality(A)
<1> DEFINE N(X) == Cardinality(X \cap A)
           T == {X \in SUBSET S : Sum(g, X) # Sum(f, X) + N(X)}
<1>0. \A X \in SUBSET S : IsFiniteSet(X) /\ IsFiniteSet(X \cap A) /\ N(X) \in Nat
  BY FS_Subset, FS_CardinalityType
<1>a. S \cap A = A
  OBVIOUS
<1>1. SUFFICES ASSUME T # {}  PROVE FALSE
  <2>1. N(S) = Cardinality(A)
    BY <1>a
  <2> HIDE DEF N
  <2> QED  BY <1>0, <2>1
<1>2. PICK X \in T : \A Y \in T : Y \subseteq X => Y = X
  <2> HIDE DEF T
  <2>1. T \in SUBSET (SUBSET S)
    BY DEF T
  <2> QED  BY <1>1, <2>1, MinimalSubset
<1>3. X \in SUBSET S /\ IsFiniteSet(X) /\ Sum(g, X) # Sum(f, X) + N(X) /\ N(X) \in Nat
  BY <1>0
<1>4. X # {}
  <2>1. Sum(f, {}) = 0 /\ Sum(g, {}) = 0 /\ N({}) = 0
    <3>1. {} \cap A = {}
      OBVIOUS
    <3> QED  BY <3>1, FS_EmptySet, SumFollows
  <2> HIDE DEF N
  <2> QED  BY <1>3, <2>1
<1> DEFINE p == Pick(X)
           Y == X \ {p}
<1>5. p \in X /\ p \in S /\ Y \in SUBSET S /\ Y \subseteq X /\ Y # X /\ IsFiniteSet(Y)
  BY <1>3, <1>4, Smaller
<1>6. Sum(g, Y) = Sum(f, Y) + N(Y) /\ N(Y) \in Nat
  BY <1>0, <1>2, <1>5
<1>7. Sum(f, X) = f[p] + Sum(f, Y) /\ Sum(g, X) = g[p] + Sum(g, Y)
  BY <1>3, <1>4, SumFollows
<1>b. Sum(f, Y) \in Int
  BY <1>5, SumType
<1> HIDE DEF p, Y
<1>8. N(X) = IF p \in A THEN N(Y) + 1 ELSE N(Y)
  <2>1. CASE p \in A
    <3> DEFINE XA == X \cap A
    <3>1. Y \cap A = XA \ {p} /\ p \in XA
      BY <1>5, <2>1 DEF Y
    <3>2. IsFiniteSet(XA)
      BY <1>0, <1>3
    <3>3. N(Y) = Cardinality(XA \ {p})
      BY <3>1
    <3>4. N(X) = Cardinality(XA)
      OBVIOUS
    <3> HIDE DEF XA, N
    <3>5. Cardinality(XA \ {p}) = Cardinality(XA) - 1
      BY <3>1, <3>2, FS_RemoveElement
    <3> QED  BY <1>3, <1>6, <2>1, <3>3, <3>4, <3>5
  <2>2. CASE p \notin A
    <3>1. Y \cap A = X \cap A
      BY <1>5, <2>2 DEF Y
    <3> QED  BY <2>2, <3>1
  <2> QED  BY <2>1, <2>2
<1>9. f[p] \in Int /\ g[p] = f[p] + (IF p \in A THEN 1 ELSE 0)
  BY <1>5
<1> HIDE DEF T, N
<1> QED  BY <1>3, <1>6, <1>7, <1>8, <1>9, <1>b
\* A strict order of all the elements of S, and those ahead of one of them.
StrictlyOrders(Before, S) ==
  /\ \A s \in S : <<s, s>> \notin Before
  /\ \A s, t \in S : s # t => <<s, t>> \in Before \/ <<t, s>> \in Before
  /\ \A s, t, u \in S : <<s, t>> \in Before /\ <<t, u>> \in Before => <<s, u>> \in Before

\* The elements that an order places before t.
AheadOf(Before, S, t) == {s \in S : <<s, t>> \in Before}

\* The elements that fewer than k others are ahead of are k.
LEMMA FirstOfRanked ==
  ASSUME NEW S, IsFiniteSet(S), NEW Before, StrictlyOrders(Before, S),
         NEW k \in 0 .. Cardinality(S)
  PROVE  Cardinality({t \in S : Cardinality(AheadOf(Before, S, t)) < k}) = k
<1> DEFINE Ahead(t) == AheadOf(Before, S, t)
           n == Cardinality(S)
           Rank == [t \in S |-> Cardinality(Ahead(t))]
           First == {t \in S : Rank[t] < k}
<1>0. /\ \A s \in S : <<s, s>> \notin Before
      /\ \A s, t \in S : s # t => <<s, t>> \in Before \/ <<t, s>> \in Before
      /\ \A s, t, u \in S : <<s, t>> \in Before /\ <<t, u>> \in Before => <<s, u>> \in Before
  BY DEF StrictlyOrders
<1>1. \A t \in S : IsFiniteSet(Ahead(t)) /\ Rank[t] \in Nat
  BY FS_Subset, FS_CardinalityType DEF AheadOf
<1>2. n \in Nat
  BY FS_CardinalityType
<1>3. ASSUME NEW s \in S, NEW t \in S, <<s, t>> \in Before
      PROVE  Rank[s] < Rank[t]
  <2>1. Ahead(s) \in SUBSET Ahead(t) /\ s \in Ahead(t) /\ s \notin Ahead(s)
    BY <1>0, <1>3 DEF AheadOf
  <2>2. Ahead(s) # Ahead(t)
    BY <2>1, Zenon
  <2> HIDE DEF Ahead
  <2>3. Cardinality(Ahead(s)) <= Cardinality(Ahead(t)) /\ Cardinality(Ahead(s)) # Cardinality(Ahead(t))
    BY <1>1, <2>1, <2>2, FS_Subset
  <2> QED  BY <1>1, <2>3
<1>4. \A s, t \in S : Rank[s] = Rank[t] => s = t
  <2> SUFFICES ASSUME NEW s \in S, NEW t \in S, s # t  PROVE Rank[s] # Rank[t]
    OBVIOUS
  <2>1. Rank[s] \in Nat /\ Rank[t] \in Nat
    BY <1>1
  <2>2. Rank[s] < Rank[t] \/ Rank[t] < Rank[s]
    BY <1>0, <1>3
  <2> QED  BY <2>1, <2>2
<1>5. \A t \in S : Rank[t] \in 0 .. n - 1
  <2> SUFFICES ASSUME NEW t \in S  PROVE Rank[t] \in 0 .. n - 1
    OBVIOUS
  <2>1. Ahead(t) \in SUBSET S /\ Ahead(t) # S
    BY <1>0 DEF AheadOf
  <2> HIDE DEF Ahead
  <2>2. Cardinality(Ahead(t)) <= n /\ Cardinality(Ahead(t)) # n
    BY <2>1, FS_Subset
  <2>3. Rank[t] = Cardinality(Ahead(t)) /\ Rank[t] \in Nat
    BY <1>1
  <2> HIDE DEF Rank, n
  <2> QED  BY <1>2, <2>2, <2>3
<1> HIDE DEF Rank
<1>6. Rank \in Surjection(S, 0 .. n - 1)
  <2>1. IsFiniteSet(0 .. n - 1) /\ Cardinality(0 .. n - 1) = n
    <3> HIDE DEF n
    <3>1. 0 \in Int /\ n - 1 \in Int
      BY <1>2
    <3>2. IsFiniteSet(0 .. n - 1)
           /\ Cardinality(0 .. n - 1) = IF 0 > n - 1 THEN 0 ELSE (n - 1) - 0 + 1
      BY <3>1, FS_Interval
    <3> QED  BY <1>2, <3>2
  <2>2. Rank \in Injection(S, 0 .. n - 1)
    BY <1>4, <1>5 DEF Injection, IsInjective, Rank
  <2> QED  BY <2>1, <2>2, FS_Injection
<1>7. Rank \in [S -> 0 .. n - 1] /\ \A i \in 0 .. n - 1 : \E t \in S : Rank[t] = i
  BY <1>6 DEF Surjection
<1> DEFINE Low == [t \in First |-> Rank[t]]
<1>8. /\ Low \in Injection(First, 0 .. k - 1)
      /\ Low \in Surjection(First, 0 .. k - 1)
  <2>1. k \in Nat /\ k <= n
    BY <1>2
  <2>2. \A t \in First : t \in S /\ Rank[t] \in 0 .. k - 1 /\ Low[t] = Rank[t]
    BY <1>1, <1>5, <2>1
  <2>3. Low \in [First -> 0 .. k - 1]
    BY <2>2
  <2>4. \A i \in 0 .. k - 1 : \E t \in First : Low[t] = i
    <3> SUFFICES ASSUME NEW i \in 0 .. k - 1  PROVE \E t \in First : Low[t] = i
      OBVIOUS
    <3>1. i \in 0 .. n - 1 /\ i < k
      BY <1>2, <2>1
    <3>2. PICK t \in S : Rank[t] = i
      BY <1>7, <3>1
    <3> QED  BY <3>1, <3>2
  <2>5. \A s, t \in First : Low[s] = Low[t] => s = t
    BY <1>4, <2>2
  <2> HIDE DEF Low, First
  <2> QED  BY <2>3, <2>4, <2>5 DEF Surjection, Injection, IsInjective
<1>9. IsFiniteSet(0 .. k - 1) /\ Cardinality(0 .. k - 1) = k
  <2>1. k \in Nat
    BY <1>2
  <2> QED  BY <2>1, FS_Interval
<1>10. IsFiniteSet(First)
  BY FS_Subset
<1> HIDE DEF Low
<1>11. Cardinality(First) = k
  <2> HIDE DEF First
  <2> QED  BY <1>8, <1>9, <1>10, FS_Surjection
<1> QED  BY <1>11 DEF Rank
-----------------------------------------------------------------------------
\* The instance counts as this module does.
LEMMA LedgerCounts ==
  /\ \A S : Ledger!Cardinality(S) = Cardinality(S)
  /\ \A S : Ledger!IsFiniteSet(S) <=> IsFiniteSet(S)
BY DEF Ledger!Cardinality, Cardinality, Ledger!IsFiniteSet, IsFiniteSet

\* The fold of the model is the sum over the function's domain.
LEMMA SumOfFunction ==
  ASSUME NEW f
  PROVE  Ledger!SumFunction(f) = Sum(f, DOMAIN f)
BY DEF Ledger!SumFunction, Sum

\* 15% of an amount, rounded down, and what is left of it.
LEMMA Percent ==
  ASSUME NEW amount \in Nat
  PROVE  /\ Ledger!FloorFee(amount) \in Nat
         /\ Ledger!Remainder(amount) \in 0 .. 99
         /\ 100 * Ledger!FloorFee(amount) + Ledger!Remainder(amount) = 15 * amount
BY DEF Ledger!FloorFee, Ledger!Remainder

\* The fee rounded for the pool, against the shares rounded down.
LEMMA Hundredths ==
  ASSUME NEW P \in Nat, NEW F \in Int, NEW R \in Nat, NEW m \in Nat,
         100 * F + R = 15 * P, R <= 99 * m
  PROVE  /\ (P * 15 + 50) \div 100 \in Nat
         /\ 100 * ((P * 15 + 50) \div 100) - P * 15 \in -49 .. 50
         /\ ((P * 15 + 50) \div 100) - F \in 0 .. m
<1> DEFINE q == (P * 15 + 50) \div 100
           e == (P * 15 + 50) % 100
<1>1. q \in Int /\ e \in 0 .. 99 /\ P * 15 + 50 = 100 * q + e
  OBVIOUS
<1> HIDE DEF q, e
<1>2. q \in Nat /\ 100 * q - P * 15 \in -49 .. 50
  BY <1>1
<1>3. q - F \in 0 .. m
  BY <1>1
<1> QED  BY <1>2, <1>3 DEF q

\* The shares of a campaign's slots, however many and whatever their rewards.
LEMMA SharesFit ==
  ASSUME NEW r, NEW D \in SUBSET Nat, IsFiniteSet(D), r \in [D -> Nat]
  PROVE  /\ Ledger!Pool(r) = Sum(r, D) /\ Sum(r, D) \in Nat
         /\ Ledger!PlatformFee(r) \in Nat
         /\ 100 * Ledger!PlatformFee(r) - Ledger!Pool(r) * 15 \in -49 .. 50
         /\ Cardinality({s \in D : Ledger!Remainder(r[s]) > 0}) \in Nat
         /\ Ledger!CentsToAssign(r) \in 0 .. Cardinality({s \in D : Ledger!Remainder(r[s]) > 0})
         /\ Ledger!PlatformFee(r)
              = Sum([s \in D |-> Ledger!FloorFee(r[s])], D) + Ledger!CentsToAssign(r)
         /\ Sum([s \in D |-> Ledger!FloorFee(r[s])], D) \in Int
<1> DEFINE f == [s \in D |-> Ledger!FloorFee(r[s])]
           g == [s \in D |-> Ledger!Remainder(r[s])]
           some == {s \in D : g[s] > 0}
           m == Cardinality(some)
<1>1. \A s \in D : /\ f[s] \in Nat /\ g[s] \in 0 .. 99 /\ r[s] \in Nat
                   /\ 100 * f[s] + g[s] = 15 * r[s]
  BY Percent
<1>2. \A s \in D : f[s] \in Int /\ g[s] \in Int /\ r[s] \in Int /\ g[s] \in 0 .. 99
                   /\ 100 * f[s] + g[s] = 15 * r[s]
  BY <1>1
<1>3. some = {s \in D : Ledger!Remainder(r[s]) > 0}
  OBVIOUS
<1>4. DOMAIN r = D /\ DOMAIN f = D
  OBVIOUS
<1>5. Ledger!Pool(r) = Sum(r, D) /\ Ledger!SumFunction(f) = Sum(f, D)
  BY <1>4, SumOfFunction DEF Ledger!Pool
<1>6. Ledger!CentsToAssign(r) = Ledger!PlatformFee(r) - Sum(f, D)
  BY <1>4, <1>5 DEF Ledger!CentsToAssign
<1> HIDE DEF f, g
<1>7. 100 * Sum(f, D) + Sum(g, D) = 15 * Sum(r, D)
  <2>1. AreShares(f, g, r, D)
    BY <1>2 DEF AreShares
  <2> QED  BY <2>1, SumOfShares
<1>8. m \in Nat /\ Sum(g, D) \in 0 .. 99 * m
  BY <1>2, SumIsBounded
<1>9. Sum(f, D) \in Int /\ Sum(r, D) \in Int
  BY <1>2, SumType
<1>10. Sum(r, D) \in Nat
  BY <1>1, SumIsNatural
<1> DEFINE P == Sum(r, D)
           F == Sum(f, D)
           R == Sum(g, D)
<1>11. Ledger!PlatformFee(r) = (P * 15 + 50) \div 100
  BY <1>5 DEF Ledger!PlatformFee
<1> HIDE DEF m, P, F, R
<1>12. P \in Nat /\ F \in Int /\ R \in Nat /\ m \in Nat /\ 100 * F + R = 15 * P /\ R <= 99 * m
  BY <1>7, <1>8, <1>9, <1>10 DEF P, F, R
<1> DEFINE q == (P * 15 + 50) \div 100
<1>13. q \in Nat /\ 100 * q - P * 15 \in -49 .. 50 /\ q - F \in 0 .. m
  BY <1>12, Hundredths
<1>14. q = F + (q - F)
  BY <1>12, <1>13
<1> HIDE DEF q
<1>15. Ledger!PlatformFee(r) = q /\ Ledger!Pool(r) = P /\ Ledger!CentsToAssign(r) = q - F
  BY <1>5, <1>6, <1>11 DEF P, F, q
<1> QED
  BY <1>3, <1>5, <1>9, <1>12, <1>13, <1>14, <1>15 DEF m, P, F, f

\* The slots that are rounded up are as many as the units to assign, and none of
\* them has a share without remainder.
LEMMA RoundedUpFits ==
  ASSUME NEW r, NEW D \in SUBSET Nat, IsFiniteSet(D), r \in [D -> Nat]
  PROVE  /\ Ledger!RoundedUp(r) \in SUBSET D
         /\ Cardinality(Ledger!RoundedUp(r)) = Ledger!CentsToAssign(r)
         /\ \A t \in Ledger!RoundedUp(r) : Ledger!Remainder(r[t]) > 0
         /\ \A s \in Ledger!RoundedUp(r) : \A t \in D \ Ledger!RoundedUp(r) :
              Ledger!Remainder(r[s]) >= Ledger!Remainder(r[t])
<1> DEFINE rem(s) == Ledger!Remainder(r[s])
           k == Ledger!CentsToAssign(r)
           some == {s \in D : rem(s) > 0}
           Ahead(t) == {s \in D : Ledger!RankedBefore(r, s, t)}
           Before == {ss \in D \X D : Ledger!RankedBefore(r, ss[1], ss[2])}
<1>1. \A s \in D : rem(s) \in 0 .. 99 /\ s \in Nat
  BY Percent
<1>2. \A s, t \in D : Ledger!RankedBefore(r, s, t) <=> rem(s) > rem(t) \/ (rem(s) = rem(t) /\ s < t)
  BY DEF Ledger!RankedBefore
<1>3. Cardinality(some) \in Nat /\ k \in 0 .. Cardinality(some)
  BY SharesFit
<1>4. IsFiniteSet(some) /\ Cardinality(some) <= Cardinality(D) /\ Cardinality(D) \in Nat
  BY FS_Subset, FS_CardinalityType
<1>5. k \in 0 .. Cardinality(D)
  BY <1>3, <1>4
<1>6. Ledger!RoundedUp(r) = {t \in D : Cardinality(Ahead(t)) < k}
  BY LedgerCounts DEF Ledger!RoundedUp
<1> HIDE DEF rem, k
<1>7. \A s, t \in D : <<s, t>> \in Before <=> rem(s) > rem(t) \/ (rem(s) = rem(t) /\ s < t)
  BY <1>2
<1>8. \A t \in D : Ahead(t) = AheadOf(Before, D, t)
  BY DEF AheadOf
<1> HIDE DEF Before
<1>9. StrictlyOrders(Before, D)
  <2>1. ASSUME NEW s \in D  PROVE <<s, s>> \notin Before
    BY <1>1, <1>7
  <2>2. ASSUME NEW s \in D, NEW t \in D, s # t
        PROVE  <<s, t>> \in Before \/ <<t, s>> \in Before
    <3>1. rem(s) \in 0 .. 99 /\ rem(t) \in 0 .. 99 /\ s \in Nat /\ t \in Nat
      BY <1>1
    <3> QED  BY <1>7, <2>2, <3>1
  <2>3. ASSUME NEW s \in D, NEW t \in D, NEW u \in D, <<s, t>> \in Before, <<t, u>> \in Before
        PROVE  <<s, u>> \in Before
    <3>1. /\ rem(s) \in 0 .. 99 /\ rem(t) \in 0 .. 99 /\ rem(u) \in 0 .. 99
          /\ s \in Nat /\ t \in Nat /\ u \in Nat
      BY <1>1
    <3>2. /\ rem(s) > rem(t) \/ (rem(s) = rem(t) /\ s < t)
          /\ rem(t) > rem(u) \/ (rem(t) = rem(u) /\ t < u)
      BY <1>7, <2>3
    <3> DEFINE x == rem(s)
               y == rem(t)
               z == rem(u)
    <3>3. x > z \/ (x = z /\ s < u)
      <4> HIDE DEF x, y, z
      <4>1. x \in 0 .. 99 /\ y \in 0 .. 99 /\ z \in 0 .. 99
        BY <3>1 DEF x, y, z
      <4>2. (x > y \/ (x = y /\ s < t)) /\ (y > z \/ (y = z /\ t < u))
        BY <3>2 DEF x, y, z
      <4> QED  BY <3>1, <4>1, <4>2
    <3> QED  BY <1>7, <3>3
  <2> QED  BY <2>1, <2>2, <2>3 DEF StrictlyOrders
<1>10. Cardinality({t \in D : Cardinality(AheadOf(Before, D, t)) < k}) = k
  BY <1>5, <1>9, FirstOfRanked
<1>11. {t \in D : Cardinality(AheadOf(Before, D, t)) < k} = Ledger!RoundedUp(r)
  BY <1>6, <1>8
<1>12. \A t \in D : IsFiniteSet(Ahead(t)) /\ Cardinality(Ahead(t)) \in Nat
  BY FS_Subset, FS_CardinalityType
<1>13. ASSUME NEW t \in Ledger!RoundedUp(r)  PROVE rem(t) > 0
  <2> SUFFICES ASSUME ~(rem(t) > 0)  PROVE FALSE
    OBVIOUS
  <2>1. t \in D /\ Cardinality(Ahead(t)) < k
    BY <1>6
  <2>2. rem(t) = 0
    BY <1>1, <2>1
  <2>3. some \in SUBSET Ahead(t)
    BY <1>2, <2>1, <2>2 DEF rem
  <2> HIDE DEF some, Ahead
  <2>4. Cardinality(some) <= Cardinality(Ahead(t))
    BY <1>12, <2>1, <2>3, FS_Subset
  <2> QED  BY <1>3, <1>12, <2>1, <2>4
<1>14. ASSUME NEW s \in Ledger!RoundedUp(r), NEW t \in D \ Ledger!RoundedUp(r)
       PROVE  rem(s) >= rem(t)
  <2> SUFFICES ASSUME ~(rem(s) >= rem(t))  PROVE FALSE
    OBVIOUS
  <2>1. s \in D /\ Cardinality(Ahead(s)) < k /\ ~(Cardinality(Ahead(t)) < k)
    BY <1>6
  <2>2. rem(s) < rem(t) /\ rem(s) \in 0 .. 99 /\ rem(t) \in 0 .. 99
    BY <1>1, <2>1
  <2>3. ASSUME NEW x \in Ahead(t)  PROVE x \in Ahead(s)
    <3>1. x \in D /\ rem(x) \in 0 .. 99 /\ (rem(x) > rem(t) \/ (rem(x) = rem(t) /\ x < t))
      BY <1>1, <1>2
    <3>2. rem(x) > rem(s)
      BY <2>2, <3>1
    <3> QED  BY <1>2, <2>1, <3>1, <3>2
  <2>4. Ahead(t) \in SUBSET Ahead(s)
    BY <2>3
  <2> HIDE DEF Ahead
  <2>5. Cardinality(Ahead(t)) <= Cardinality(Ahead(s))
    BY <1>12, <2>1, <2>4, FS_Subset
  <2> QED  BY <1>3, <1>12, <2>1, <2>5
<1> QED
  BY <1>6, <1>10, <1>11, <1>13, <1>14 DEF rem, k

\* The split of the fee, slot by slot and in all.
LEMMA FeeIsSplit ==
  ASSUME NEW r, NEW D \in SUBSET Nat, IsFiniteSet(D), r \in [D -> Nat]
  PROVE  LET a == Ledger!AllocateFifteenPercentFee(r) IN
         /\ a \in [D -> Nat]
         /\ Sum(a, D) = Ledger!PlatformFee(r)
         /\ \A s \in D : a[s] * 100 - r[s] * 15 \in -99 .. 99
         /\ \A s, t \in D : a[s] * 100 > r[s] * 15 /\ ~(a[t] * 100 > r[t] * 15) =>
              Ledger!Remainder(r[s]) >= Ledger!Remainder(r[t])
<1> DEFINE a == Ledger!AllocateFifteenPercentFee(r)
           U == Ledger!RoundedUp(r)
           f == [s \in D |-> Ledger!FloorFee(r[s])]
           rem(s) == Ledger!Remainder(r[s])
<1>1. a = [s \in D |-> f[s] + (IF s \in U THEN 1 ELSE 0)]
  BY DEF Ledger!AllocateFifteenPercentFee
<1>2. U \in SUBSET D /\ (\A s \in U : rem(s) > 0)
      /\ (\A s \in U : \A t \in D \ U : rem(s) >= rem(t))
  BY RoundedUpFits
<1>3. \A s \in D : /\ f[s] \in Nat /\ rem(s) \in 0 .. 99 /\ r[s] \in Nat
                   /\ 100 * f[s] + rem(s) = 15 * r[s]
  BY Percent
<1>4. Sum(f, D) \in Int /\ Ledger!PlatformFee(r) = Sum(f, D) + Cardinality(U)
  BY SharesFit, RoundedUpFits
<1> HIDE DEF a, U, f, rem
<1>5. a \in [D -> Nat] /\ \A s \in D : a[s] = f[s] + (IF s \in U THEN 1 ELSE 0)
  BY <1>1, <1>3
<1>6. Sum(a, D) = Sum(f, D) + Cardinality(U)
  <2>1. \A s \in D : f[s] \in Int /\ a[s] = f[s] + (IF s \in U THEN 1 ELSE 0)
    BY <1>3, <1>5
  <2> QED  BY <1>2, <2>1, SumWithOnes
<1>7. ASSUME NEW s \in D
      PROVE  /\ a[s] * 100 - r[s] * 15 \in -99 .. 99
             /\ a[s] * 100 > r[s] * 15 <=> s \in U
  <2> DEFINE as == a[s]
             fs == f[s]
             rs == r[s]
             ms == rem(s)
  <2>1. fs \in Nat /\ ms \in 0 .. 99 /\ rs \in Nat /\ 100 * fs + ms = 15 * rs
    BY <1>3
  <2>2. as = fs + (IF s \in U THEN 1 ELSE 0)
    BY <1>5
  <2>3. s \in U => ms > 0
    BY <1>2
  <2> HIDE DEF as, fs, rs, ms
  <2>4. as * 100 - rs * 15 \in -99 .. 99 /\ (as * 100 > rs * 15 <=> s \in U)
    <3>1. CASE s \in U
      BY <2>1, <2>2, <2>3, <3>1
    <3>2. CASE s \notin U
      BY <2>1, <2>2, <3>2
    <3> QED  BY <3>1, <3>2
  <2> QED  BY <2>4 DEF as, rs
<1>8. \A s, t \in D : a[s] * 100 > r[s] * 15 /\ ~(a[t] * 100 > r[t] * 15) => rem(s) >= rem(t)
  BY <1>2, <1>7
<1> QED
  BY <1>4, <1>5, <1>6, <1>7, <1>8 DEF a, rem

\* One more value, by whichever functions the values are given.
LEMMA SumInsert ==
  ASSUME NEW S, IsFiniteSet(S), NEW x, x \notin S, NEW f, NEW g,
         \A y \in S : f[y] \in Int /\ g[y] = f[y], g[x] \in Int
  PROVE  Sum(g, S \cup {x}) = g[x] + Sum(f, S)
<1>1. IsFiniteSet(S \cup {x}) /\ (S \cup {x}) \ {x} = S
  BY FS_AddElement
<1>2. \A y \in S \cup {x} : g[y] \in Int
  OBVIOUS
<1>3. Sum(g, S \cup {x}) = g[x] + Sum(g, S)
  BY <1>1, <1>2, SumRemove
<1>4. Sum(g, S) = Sum(f, S)
  BY SumSame
<1> QED  BY <1>3, <1>4

\* The sum over one element.
LEMMA SumOfOne ==
  ASSUME NEW x, NEW f, f[x] \in Int
  PROVE  Sum(f, {x}) = f[x]
<1>1. Sum(f, {} \cup {x}) = f[x] + Sum(f, {})
  BY FS_EmptySet, SumInsert
<1>2. Sum(f, {}) = 0 /\ {} \cup {x} = {x}
  BY FS_EmptySet, SumFollows
<1> QED  BY <1>1, <1>2

-----------------------------------------------------------------------------
(* What a transaction leaves on an account.                                *)
Moved(t, acc) == Ledger!Credited(t, acc) - Ledger!Debited(t, acc)

\* The credits of a transaction to one account.
OnAccount(t, acc) == {credit \in t.credits : credit.account = acc}

\* What a transaction credits to an account is a sum over its credits.
LEMMA CreditedIsSum ==
  ASSUME NEW t, NEW acc
  PROVE  Ledger!Credited(t, acc)
           = Sum([credit \in OnAccount(t, acc) |-> credit.amount], OnAccount(t, acc))
BY SumOfFunction DEF Ledger!Credited, OnAccount

\* A transaction with one credit.
LEMMA OneCredit ==
  ASSUME NEW t, NEW a, NEW n \in Int, t.credits = {Ledger!Credit(a, n)}
  PROVE  \A acc : Ledger!Credited(t, acc) = IF acc = a THEN n ELSE 0
<1> SUFFICES ASSUME NEW acc
             PROVE  Ledger!Credited(t, acc) = IF acc = a THEN n ELSE 0
  OBVIOUS
<1> DEFINE S == OnAccount(t, acc)
           f == [credit \in S |-> credit.amount]
           x == Ledger!Credit(a, n)
<1>1. x.account = a /\ x.amount = n
  BY DEF Ledger!Credit
<1>2. Ledger!Credited(t, acc) = Sum(f, S)
  BY CreditedIsSum
<1>3. CASE acc = a
  <2>1. S = {x}
    BY <1>1, <1>3 DEF OnAccount
  <2>2. f[x] = n
    BY <1>1, <2>1
  <2> HIDE DEF f, S, x
  <2> QED  BY <1>2, <1>3, <2>1, <2>2, SumOfOne
<1>4. CASE acc # a
  <2>1. S = {}
    BY <1>1, <1>4 DEF OnAccount
  <2> HIDE DEF f, S
  <2> QED  BY <1>2, <1>4, <2>1, FS_EmptySet, SumFollows
<1> QED  BY <1>3, <1>4

\* A transaction with two, to different accounts.
LEMMA TwoCredits ==
  ASSUME NEW t, NEW a, NEW b, a # b, NEW n \in Int, NEW m \in Int,
         t.credits = {Ledger!Credit(a, n), Ledger!Credit(b, m)}
  PROVE  \A acc : Ledger!Credited(t, acc)
                        = IF acc = a THEN n ELSE IF acc = b THEN m ELSE 0
<1> SUFFICES ASSUME NEW acc
             PROVE  Ledger!Credited(t, acc)
                      = IF acc = a THEN n ELSE IF acc = b THEN m ELSE 0
  OBVIOUS
<1> DEFINE S == OnAccount(t, acc)
           f == [credit \in S |-> credit.amount]
           x == Ledger!Credit(a, n)
           y == Ledger!Credit(b, m)
<1>1. x.account = a /\ x.amount = n /\ y.account = b /\ y.amount = m
  BY DEF Ledger!Credit
<1>2. Ledger!Credited(t, acc) = Sum(f, S)
  BY CreditedIsSum
<1>3. CASE acc = a
  <2>1. S = {x}
    BY <1>1, <1>3 DEF OnAccount
  <2>2. f[x] = n
    BY <1>1, <2>1
  <2> HIDE DEF f, S, x
  <2> QED  BY <1>2, <1>3, <2>1, <2>2, SumOfOne
<1>4. CASE acc = b
  <2>1. S = {y}
    BY <1>1, <1>4 DEF OnAccount
  <2>2. f[y] = m
    BY <1>1, <2>1
  <2> HIDE DEF f, S, y
  <2> QED  BY <1>2, <1>4, <2>1, <2>2, SumOfOne
<1>5. CASE acc # a /\ acc # b
  <2>1. S = {}
    BY <1>1, <1>5 DEF OnAccount
  <2> HIDE DEF f, S
  <2> QED  BY <1>2, <1>5, <2>1, FS_EmptySet, SumFollows
<1> QED  BY <1>3, <1>4, <1>5

\* A balance is the sum of what the transactions move.
LEMMA BalanceIsSum ==
  ASSUME NEW S, NEW acc
  PROVE  Ledger!Balance(S, acc) = Sum([t \in S |-> Moved(t, acc)], S)
BY SumOfFunction DEF Ledger!Balance, Moved

\* One more transaction moves a balance by what it leaves.
LEMMA BalanceGrows ==
  ASSUME NEW S, IsFiniteSet(S), NEW x, x \notin S, NEW acc,
         \A t \in S \cup {x} : Moved(t, acc) \in Int
  PROVE  /\ Ledger!Balance(S, acc) \in Int
         /\ Ledger!Balance(S \cup {x}, acc) = Ledger!Balance(S, acc) + Moved(x, acc)
<1> DEFINE f == [t \in S |-> Moved(t, acc)]
           g == [t \in S \cup {x} |-> Moved(t, acc)]
<1>1. \A t \in S : f[t] \in Int /\ g[t] = f[t]
  OBVIOUS
<1>2. g[x] = Moved(x, acc) /\ g[x] \in Int
  OBVIOUS
<1>3. Ledger!Balance(S, acc) = Sum(f, S)
      /\ Ledger!Balance(S \cup {x}, acc) = Sum(g, S \cup {x})
  BY BalanceIsSum
<1> HIDE DEF f, g
<1>4. Sum(g, S \cup {x}) = g[x] + Sum(f, S)
  BY <1>1, <1>2, SumInsert
<1>5. Sum(f, S) \in Int
  BY <1>1, SumType
<1> QED  BY <1>2, <1>3, <1>4, <1>5

-----------------------------------------------------------------------------
(* The fee of a funded campaign.                                           *)
LEMMA RewardsOfCampaign ==
  ASSUME reward \in [Slots -> Rewards], NEW c \in Campaigns
  PROVE  /\ Ledger!SlotsOf(c) \in SUBSET Nat /\ IsFiniteSet(Ledger!SlotsOf(c))
         /\ Ledger!SlotsOf(c) \in SUBSET Slots
         /\ Ledger!RewardsOf(c) \in [Ledger!SlotsOf(c) -> Nat]
         /\ \A s \in Ledger!SlotsOf(c) : Ledger!RewardsOf(c)[s] = reward[s] /\ CampaignOf[s] = c
<1>1. IsFiniteSet(Slots) /\ Slots \in SUBSET Nat /\ Rewards \in SUBSET Nat
  BY SlotsAreAssumed, LedgerCounts DEF Ledger!SlotsAssumption
<1>2. Ledger!SlotsOf(c) \in SUBSET Slots
  BY DEF Ledger!SlotsOf
<1> QED  BY <1>1, <1>2, FS_Subset DEF Ledger!RewardsOf, Ledger!SlotsOf

\* The same in a state of the ledger.
LEMMA SlotsOfCampaign ==
  ASSUME Ledger!TypeOK, NEW c \in Campaigns
  PROVE  /\ Ledger!SlotsOf(c) \in SUBSET Nat /\ IsFiniteSet(Ledger!SlotsOf(c))
         /\ Ledger!SlotsOf(c) \in SUBSET Slots
         /\ Ledger!RewardsOf(c) \in [Ledger!SlotsOf(c) -> Nat]
         /\ \A s \in Ledger!SlotsOf(c) : Ledger!RewardsOf(c)[s] = reward[s] /\ CampaignOf[s] = c
BY RewardsOfCampaign DEF Ledger!TypeOK

\* The property of the fee follows from the type and from how it was funded.
LEMMA FeeIsReconciled ==
  ASSUME Ledger!TypeOK, Ledger!FundingComesFirst
  PROVE  Ledger!FeeIsAllocated
<1>1. ASSUME NEW c \in Campaigns  PROVE Ledger!IsReconcilable(c)
  <2> DEFINE r == Ledger!RewardsOf(c)
             D == Ledger!SlotsOf(c)
             some == {s \in D : Ledger!Remainder(r[s]) > 0}
  <2>1. D \in SUBSET Nat /\ IsFiniteSet(D) /\ r \in [D -> Nat]
    BY SlotsOfCampaign
  <2>2. Cardinality(some) \in Nat /\ Ledger!CentsToAssign(r) \in 0 .. Cardinality(some)
    <3> HIDE DEF r, D
    <3> QED  BY <2>1, SharesFit
  <2>3. Cardinality(some) <= Cardinality(D) /\ Cardinality(D) \in Nat
    <3>1. some \in SUBSET D
      OBVIOUS
    <3> HIDE DEF some, D
    <3> QED  BY <2>1, <3>1, FS_Subset, FS_CardinalityType
  <2> HIDE DEF some
  <2>4. Ledger!CentsToAssign(r) \in 0 .. Cardinality(D)
    BY <2>2, <2>3
  <2> QED  BY <2>4, LedgerCounts DEF Ledger!IsReconcilable
<1>2. ASSUME NEW c \in Ledger!Funded
      PROVE  LET slots == Ledger!SlotsOf(c)
                 fees  == Ledger!FeesEarned(slots)
                 RoundsUp(s) == fee[s] * 100 > reward[s] * 15
             IN
             /\ fees = declaredFee[c]
             /\ fees * 100 - Ledger!Pool(Ledger!RewardsOf(c)) * 15 \in -49 .. 50
             /\ \A s \in slots : fee[s] * 100 - reward[s] * 15 \in -99 .. 99
             /\ \A s, t \in slots :
                  RoundsUp(s) /\ ~RoundsUp(t) =>
                    Ledger!Remainder(reward[s]) >= Ledger!Remainder(reward[t])
  <2> DEFINE r == Ledger!RewardsOf(c)
             D == Ledger!SlotsOf(c)
             a == Ledger!AllocateFifteenPercentFee(r)
             f == [s \in D |-> fee[s]]
  <2>0. c \in Campaigns
    BY DEF Ledger!Funded
  <2>1. D \in SUBSET Nat /\ IsFiniteSet(D) /\ r \in [D -> Nat]
    BY <2>0, SlotsOfCampaign
  <2>2. \A s \in D : r[s] = reward[s]
    BY <2>0, SlotsOfCampaign
  <2>3. declaredFee[c] = Ledger!PlatformFee(r) /\ \A s \in D : fee[s] = a[s] /\ fee[s] > 0
    BY DEF Ledger!FundingComesFirst, Ledger!FeeIsDisclosedFee
  <2>4. Ledger!FeesEarned(D) = Sum(f, D)
    BY SumOfFunction DEF Ledger!FeesEarned
  <2>5. Sum(f, D) = Sum(a, D)
    <3>1. \A s \in D : f[s] = a[s]
      BY <2>3
    <3> HIDE DEF f, a, D
    <3> QED  BY <2>1, <3>1, SumSame
  <2>6. /\ Sum(a, D) = Ledger!PlatformFee(r)
        /\ \A s \in D : a[s] * 100 - r[s] * 15 \in -99 .. 99
        /\ \A s, t \in D : a[s] * 100 > r[s] * 15 /\ ~(a[t] * 100 > r[t] * 15) =>
             Ledger!Remainder(r[s]) >= Ledger!Remainder(r[t])
    <3> HIDE DEF r, D
    <3> QED  BY <2>1, FeeIsSplit
  <2>7. /\ 100 * Ledger!PlatformFee(r) - Ledger!Pool(r) * 15 \in -49 .. 50
        /\ Ledger!PlatformFee(r) \in Nat
    <3> HIDE DEF r, D
    <3> QED  BY <2>1, SharesFit
  <2>8. Ledger!FeesEarned(D) = declaredFee[c] /\ Ledger!FeesEarned(D) = Ledger!PlatformFee(r)
    BY <2>3, <2>4, <2>5, <2>6
  <2>9. Ledger!FeesEarned(D) * 100 - Ledger!Pool(r) * 15 \in -49 .. 50
    <3> HIDE DEF D, r
    <3> QED  BY <2>7, <2>8
  <2>10. \A s \in D : fee[s] * 100 - reward[s] * 15 \in -99 .. 99
    BY <2>2, <2>3, <2>6
  <2>11. \A s, t \in D :
           fee[s] * 100 > reward[s] * 15 /\ ~(fee[t] * 100 > reward[t] * 15) =>
             Ledger!Remainder(reward[s]) >= Ledger!Remainder(reward[t])
    BY <2>2, <2>3, <2>6
  <2> QED  BY <2>8, <2>9, <2>10, <2>11
<1> QED  BY <1>1, <1>2 DEF Ledger!FeeIsAllocated

-----------------------------------------------------------------------------
(* What each kind of transaction moves.                                    *)
LEMMA FundingMoves ==
  ASSUME Ledger!TypeOK, NEW c \in Campaigns, NEW p
  PROVE  /\ Ledger!TotalDue(c) \in Nat
         /\ \A acc : Moved(Ledger!FundingBy(c, p), acc)
              = IF acc = Ledger!Funds(c) THEN Ledger!TotalDue(c)
                ELSE IF acc = Ledger!Clearing THEN - Ledger!TotalDue(c) ELSE 0
<1> DEFINE n == Ledger!TotalDue(c)
           t == Ledger!FundingBy(c, p)
<1>1. n \in Nat
  <2> DEFINE r == Ledger!RewardsOf(c)
             D == Ledger!SlotsOf(c)
  <2>1. D \in SUBSET Nat /\ IsFiniteSet(D) /\ r \in [D -> Nat]
    BY SlotsOfCampaign
  <2>2. Ledger!Pool(r) \in Nat
    <3> HIDE DEF r, D
    <3> QED  BY <2>1, SharesFit
  <2>3. declaredFee[c] \in Nat
    BY DEF Ledger!TypeOK
  <2> QED  BY <2>2, <2>3 DEF Ledger!TotalDue
<1>2. t.credits = {Ledger!Credit(Ledger!Funds(c), n)} /\ t.debit = Ledger!Clearing /\ t.total = n
  BY DEF Ledger!FundingBy, Ledger!Transaction
<1>3. Ledger!Funds(c) # Ledger!Clearing
  BY DEF Ledger!Funds, Ledger!Clearing
<1> HIDE DEF n, t
<1>4. n \in Int
  BY <1>1
<1>5. \A acc : Ledger!Credited(t, acc) = IF acc = Ledger!Funds(c) THEN n ELSE 0
  BY <1>2, <1>4, OneCredit
<1>6. ASSUME NEW acc
      PROVE  Moved(t, acc) = IF acc = Ledger!Funds(c) THEN n
                                 ELSE IF acc = Ledger!Clearing THEN - n ELSE 0
  <2>1. Ledger!Debited(t, acc) = IF acc = Ledger!Clearing THEN n ELSE 0
    BY <1>2 DEF Ledger!Debited
  <2>2. Ledger!Credited(t, acc) = IF acc = Ledger!Funds(c) THEN n ELSE 0
    BY <1>5
  <2> QED  BY <1>1, <1>3, <2>1, <2>2 DEF Moved
<1> QED  BY <1>1, <1>6 DEF n, t

\* The posting of a closed mission: to the creator and the platform, or back.
LEMMA PostingMoves ==
  ASSUME Ledger!TypeOK, NEW s \in Slots, intent[s] # Ledger!NoIntent
  PROVE  LET c == CampaignOf[s]
             u == intent[s].creator
         IN
         /\ reward[s] \in Nat /\ fee[s] \in Nat /\ c \in Campaigns /\ u \in Creators
         /\ Ledger!TotalMinor(s) = reward[s] + fee[s]
         /\ BusinessOf[c] \in Businesses
         /\ intent[s].action \in {"creator_payable_full", "business_refund_full"}
         /\ intent[s].action = "creator_payable_full" =>
              \A acc : Moved(Ledger!Posting(s), acc)
                = IF acc = Ledger!Payable(u) THEN reward[s]
                  ELSE IF acc = Ledger!FeeRevenue THEN fee[s]
                  ELSE IF acc = Ledger!Funds(c) THEN - (reward[s] + fee[s]) ELSE 0
         /\ intent[s].action = "business_refund_full" =>
              \A acc : Moved(Ledger!Posting(s), acc)
                = IF acc = Ledger!Refunds(BusinessOf[c]) THEN reward[s] + fee[s]
                  ELSE IF acc = Ledger!Funds(c) THEN - (reward[s] + fee[s]) ELSE 0
<1> DEFINE c == CampaignOf[s]
           u == intent[s].creator
           b == BusinessOf[c]
           n == reward[s]
           m == fee[s]
           t == Ledger!Posting(s)
<1>1. n \in Nat /\ m \in Nat
  <2>1. Rewards \in SUBSET Nat
    BY SlotsAreAssumed DEF Ledger!SlotsAssumption
  <2> QED  BY <2>1 DEF Ledger!TypeOK
<1>2. c \in Campaigns /\ b \in Businesses
  BY SlotsAreAssumed DEF Ledger!SlotsAssumption
<1>3. intent[s] \in Ledger!Closed
  BY DEF Ledger!TypeOK
<1>4. u \in Creators /\ intent[s].action \in {"creator_payable_full", "business_refund_full"}
  BY <1>3 DEF Ledger!Closed
<1>5. Ledger!TotalMinor(s) = n + m
  BY DEF Ledger!TotalMinor
<1>6. t.debit = Ledger!Funds(c) /\ t.total = n + m
  BY <1>5 DEF Ledger!Posting, Ledger!Transaction
<1>7. /\ Ledger!Funds(c) # Ledger!FeeRevenue /\ Ledger!Funds(c) # Ledger!Payable(u)
      /\ Ledger!Funds(c) # Ledger!Refunds(b) /\ Ledger!Payable(u) # Ledger!FeeRevenue
  BY DEF Ledger!Funds, Ledger!FeeRevenue, Ledger!Payable, Ledger!Refunds
<1>8. intent[s].action = "creator_payable_full" =>
        t.credits = {Ledger!Credit(Ledger!Payable(u), n), Ledger!Credit(Ledger!FeeRevenue, m)}
  BY DEF Ledger!Posting, Ledger!Transaction, Ledger!SlotCredits
<1>9. intent[s].action = "business_refund_full" =>
        t.credits = {Ledger!Credit(Ledger!Refunds(b), n + m)}
  BY <1>5 DEF Ledger!Posting, Ledger!Transaction, Ledger!SlotRefund
<1> HIDE DEF c, u, b, n, m, t
<1>10. \A acc : Ledger!Debited(t, acc) = IF acc = Ledger!Funds(c) THEN n + m ELSE 0
  BY <1>6 DEF Ledger!Debited
<1>11. n \in Int /\ m \in Int /\ n + m \in Int
  BY <1>1
<1>12. ASSUME intent[s].action = "creator_payable_full", NEW acc
       PROVE  Moved(t, acc)
                = IF acc = Ledger!Payable(u) THEN n
                  ELSE IF acc = Ledger!FeeRevenue THEN m
                  ELSE IF acc = Ledger!Funds(c) THEN - (n + m) ELSE 0
  <2>1. Ledger!Credited(t, acc) = IF acc = Ledger!Payable(u) THEN n
                                      ELSE IF acc = Ledger!FeeRevenue THEN m ELSE 0
    BY <1>7, <1>8, <1>11, <1>12, TwoCredits
  <2>2. Ledger!Debited(t, acc) = IF acc = Ledger!Funds(c) THEN n + m ELSE 0
    BY <1>10
  <2> QED  BY <1>7, <1>11, <2>1, <2>2 DEF Moved
<1>13. ASSUME intent[s].action = "business_refund_full", NEW acc
       PROVE  Moved(t, acc)
                = IF acc = Ledger!Refunds(b) THEN n + m
                  ELSE IF acc = Ledger!Funds(c) THEN - (n + m) ELSE 0
  <2>1. Ledger!Credited(t, acc) = IF acc = Ledger!Refunds(b) THEN n + m ELSE 0
    BY <1>9, <1>11, <1>13, OneCredit
  <2>2. Ledger!Debited(t, acc) = IF acc = Ledger!Funds(c) THEN n + m ELSE 0
    BY <1>10
  <2> QED  BY <1>7, <1>11, <2>1, <2>2 DEF Moved
<1> QED  BY <1>1, <1>2, <1>4, <1>5, <1>12, <1>13 DEF c, u, b, n, m, t

\* An adjustment moves an integer.
LEMMA AdjustmentMoves ==
  ASSUME NEW id, NEW debit, NEW credit, NEW amount \in Int, NEW acc
  PROVE  Moved(Ledger!Adjustment(id, debit, credit, amount), acc) \in Int
<1> DEFINE t == Ledger!Adjustment(id, debit, credit, amount)
<1>1. t.credits = {Ledger!Credit(credit, amount)} /\ t.debit = debit /\ t.total = amount
  BY DEF Ledger!Adjustment, Ledger!Transaction
<1> HIDE DEF t
<1>2. Ledger!Credited(t, acc) = IF acc = credit THEN amount ELSE 0
  BY <1>1, OneCredit
<1>3. Ledger!Debited(t, acc) = IF acc = debit THEN amount ELSE 0
  BY <1>1 DEF Ledger!Debited
<1> QED  BY <1>2, <1>3 DEF Moved, t

\* So does every transaction of the journal.
LEMMA MovesAreCounted ==
  ASSUME Ledger!TypeOK, Ledger!JournalIsTold, NEW t \in journal, NEW acc
  PROVE  Moved(t, acc) \in Int
<1>1. CASE \E c \in Ledger!Funded : t = Ledger!Funding(c)
  <2>1. PICK c \in Ledger!Funded : t = Ledger!Funding(c)
    BY <1>1
  <2>2. c \in Campaigns
    BY DEF Ledger!Funded
  <2> QED  BY <2>1, <2>2, FundingMoves DEF Ledger!Funding
<1>2. CASE \E s \in Slots : Ledger!IsPosted(s) /\ t = Ledger!Posting(s)
  <2>1. PICK s \in Slots : Ledger!IsPosted(s) /\ t = Ledger!Posting(s)
    BY <1>2
  <2>2. intent[s] # Ledger!NoIntent
    BY <2>1 DEF Ledger!IsPosted
  <2>3. reward[s] \in Int /\ fee[s] \in Int /\ reward[s] + fee[s] \in Int /\ - (reward[s] + fee[s]) \in Int
    BY <2>2, PostingMoves
  <2>4. CASE intent[s].action = "creator_payable_full"
    BY <2>1, <2>2, <2>3, <2>4, PostingMoves
  <2>5. CASE intent[s].action = "business_refund_full"
    BY <2>1, <2>2, <2>3, <2>5, PostingMoves
  <2> QED  BY <2>2, <2>4, <2>5, PostingMoves
<1>3. CASE \E id \in Adjustments, debit, credit \in Ledger!Account, amount \in Amounts :
             t = Ledger!Adjustment(id, debit, credit, amount)
  <2>1. Amounts \in SUBSET Int
    BY SlotsAreAssumed DEF Ledger!SlotsAssumption
  <2> QED  BY <1>3, <2>1, AdjustmentMoves
<1> QED  BY <1>1, <1>2, <1>3 DEF Ledger!JournalIsTold

-----------------------------------------------------------------------------
(* What the missions say that an account holds.                            *)
Earned   == Ledger!Posted("creator_payable_full")
Refunded == Ledger!Posted("business_refund_full")
PaidFor  == {s \in Slots : CampaignOf[s] \in Ledger!Funded}

UnsettledOf(c)  == (PaidFor \cap Ledger!SlotsOf(c)) \ (Earned \cup Refunded)
RefundedTo(b)   == {s \in Refunded : BusinessOf[CampaignOf[s]] = b}
EarnedBy(u)     == {s \in Earned : intent[s].creator = u}

\* There are five kinds of accounts.
LEMMA KindsOfAccounts ==
  /\ \A acc \in Ledger!Account :
       \/ acc = Ledger!Clearing
       \/ acc = Ledger!FeeRevenue
       \/ \E c \in Campaigns : acc = Ledger!Funds(c)
       \/ \E b \in Businesses : acc = Ledger!Refunds(b)
       \/ \E u \in Creators : acc = Ledger!Payable(u)
  /\ Ledger!Clearing \in Ledger!Account /\ Ledger!FeeRevenue \in Ledger!Account
  /\ \A c \in Campaigns : Ledger!Funds(c) \in Ledger!Account
  /\ \A b \in Businesses : Ledger!Refunds(b) \in Ledger!Account
  /\ \A u \in Creators : Ledger!Payable(u) \in Ledger!Account
BY DEF Ledger!Account, Ledger!Clearing, Ledger!FeeRevenue, Ledger!Funds, Ledger!Refunds, Ledger!Payable

\* Sums over sets of slots, by the rewards and fees of a state.
Owed(rewards, fees, S) == Sum([s \in S |-> rewards[s] + fees[s]], S)
Values(amounts, S)     == Sum([s \in S |-> amounts[s]], S)

\* What is expected of each kind.
LEMMA ExpectedOfEach ==
  /\ Ledger!Expected(Ledger!Clearing) = - Owed(reward, fee, PaidFor)
  /\ Ledger!Expected(Ledger!FeeRevenue) = Values(fee, Earned)
  /\ \A c : Ledger!Expected(Ledger!Funds(c)) = Owed(reward, fee, UnsettledOf(c))
  /\ \A b : Ledger!Expected(Ledger!Refunds(b)) = Owed(reward, fee, RefundedTo(b))
  /\ \A u : Ledger!Expected(Ledger!Payable(u)) = Values(reward, EarnedBy(u))
<1>0. \A S : /\ Ledger!TotalsOwed(S) = Owed(reward, fee, S)
             /\ Ledger!FeesEarned(S) = Values(fee, S)
             /\ Ledger!RewardsPaid(S) = Values(reward, S)
  BY SumOfFunction DEF Ledger!TotalsOwed, Ledger!TotalMinor, Ledger!FeesEarned,
     Ledger!RewardsPaid, Owed, Values
<1>1. Ledger!Expected(Ledger!Clearing) = - Ledger!TotalsOwed(PaidFor)
  BY DEF Ledger!Expected, Ledger!Clearing, PaidFor
<1>2. Ledger!Expected(Ledger!FeeRevenue) = Ledger!FeesEarned(Earned)
  BY DEF Ledger!Expected, Ledger!FeeRevenue, Earned
<1>3. ASSUME NEW c
      PROVE  Ledger!Expected(Ledger!Funds(c)) = Ledger!TotalsOwed(UnsettledOf(c))
  BY DEF Ledger!Expected, Ledger!Funds, Earned, Refunded, PaidFor, UnsettledOf
<1>4. ASSUME NEW b
      PROVE  Ledger!Expected(Ledger!Refunds(b)) = Ledger!TotalsOwed(RefundedTo(b))
  BY DEF Ledger!Expected, Ledger!Refunds, Refunded, RefundedTo
<1>5. ASSUME NEW u
      PROVE  Ledger!Expected(Ledger!Payable(u)) = Ledger!RewardsPaid(EarnedBy(u))
  BY DEF Ledger!Expected, Ledger!Payable, Earned, EarnedBy
<1> QED  BY <1>0, <1>1, <1>2, <1>3, <1>4, <1>5

\* The same after a step.
LEMMA ExpectedAfter ==
  /\ Ledger!Expected(Ledger!Clearing)' = - Owed(reward', fee', PaidFor')
  /\ Ledger!Expected(Ledger!FeeRevenue)' = Values(fee', Earned')
  /\ \A c : Ledger!Expected(Ledger!Funds(c))' = Owed(reward', fee', UnsettledOf(c)')
  /\ \A b : Ledger!Expected(Ledger!Refunds(b))' = Owed(reward', fee', RefundedTo(b)')
  /\ \A u : Ledger!Expected(Ledger!Payable(u))' = Values(reward', EarnedBy(u)')
<1> DEFINE due(S) == Ledger!SumFunction([s \in S |-> reward'[s] + fee'[s]])
           feesOf(S) == Ledger!SumFunction([s \in S |-> fee'[s]])
           rewardsOf(S) == Ledger!SumFunction([s \in S |-> reward'[s]])
<1>0. \A S : /\ due(S) = Owed(reward', fee', S)
             /\ feesOf(S) = Values(fee', S)
             /\ rewardsOf(S) = Values(reward', S)
  BY SumOfFunction DEF Owed, Values
<1>1. Ledger!Expected(Ledger!Clearing)' = - due(PaidFor')
  BY DEF Ledger!Expected, Ledger!Clearing, PaidFor, Ledger!TotalsOwed, Ledger!TotalMinor
<1>2. Ledger!Expected(Ledger!FeeRevenue)' = feesOf(Earned')
  BY DEF Ledger!Expected, Ledger!FeeRevenue, Earned, Ledger!FeesEarned
<1>3. ASSUME NEW c
      PROVE  Ledger!Expected(Ledger!Funds(c))' = due(UnsettledOf(c)')
  BY DEF Ledger!Expected, Ledger!Funds, Earned, Refunded, PaidFor, UnsettledOf, Ledger!TotalsOwed,
     Ledger!TotalMinor
<1>4. ASSUME NEW b
      PROVE  Ledger!Expected(Ledger!Refunds(b))' = due(RefundedTo(b)')
  BY DEF Ledger!Expected, Ledger!Refunds, Refunded, RefundedTo, Ledger!TotalsOwed,
     Ledger!TotalMinor
<1>5. ASSUME NEW u
      PROVE  Ledger!Expected(Ledger!Payable(u))' = rewardsOf(EarnedBy(u)')
  BY DEF Ledger!Expected, Ledger!Payable, Earned, EarnedBy, Ledger!RewardsPaid
<1> HIDE DEF due, feesOf, rewardsOf
<1> QED  BY <1>0, <1>1, <1>2, <1>3, <1>4, <1>5

\* Any function that agrees on a set gives its sum of rewards and fees.
LEMMA OwedIsSum ==
  ASSUME NEW S, IsFiniteSet(S), NEW f, NEW rewards, NEW fees,
         \A s \in S : f[s] = rewards[s] + fees[s]
  PROVE  Owed(rewards, fees, S) = Sum(f, S)
<1> DEFINE g == [s \in S |-> rewards[s] + fees[s]]
<1>1. \A s \in S : g[s] = f[s]
  OBVIOUS
<1> HIDE DEF g
<1>2. Sum(g, S) = Sum(f, S)
  BY <1>1, SumSame
<1> QED  BY <1>2 DEF Owed, g

\* Or of one of them.
LEMMA ValuesAreSum ==
  ASSUME NEW S, IsFiniteSet(S), NEW f, NEW amounts, \A s \in S : f[s] = amounts[s]
  PROVE  Values(amounts, S) = Sum(f, S)
<1> DEFINE g == [s \in S |-> amounts[s]]
<1>1. \A s \in S : g[s] = f[s]
  OBVIOUS
<1> HIDE DEF g
<1>2. Sum(g, S) = Sum(f, S)
  BY <1>1, SumSame
<1> QED  BY <1>2 DEF Values, g

\* The sets of slots are finite and the sums are integers.
LEMMA SlotSetsAreFinite ==
  /\ IsFiniteSet(Slots)
  /\ \A S \in SUBSET Slots : IsFiniteSet(S)
  /\ Earned \in SUBSET Slots /\ Refunded \in SUBSET Slots /\ PaidFor \in SUBSET Slots
  /\ \A c : UnsettledOf(c) \in SUBSET Slots
  /\ \A b : RefundedTo(b) \in SUBSET Slots
  /\ \A u : EarnedBy(u) \in SUBSET Slots
<1>1. IsFiniteSet(Slots)
  BY SlotsAreAssumed, LedgerCounts DEF Ledger!SlotsAssumption
<1>2. \A S \in SUBSET Slots : IsFiniteSet(S)
  BY <1>1, FS_Subset
<1>3. Earned \in SUBSET Slots /\ Refunded \in SUBSET Slots /\ PaidFor \in SUBSET Slots
  BY DEF Earned, Refunded, PaidFor, Ledger!Posted
<1> QED  BY <1>1, <1>2, <1>3 DEF UnsettledOf, RefundedTo, EarnedBy

\* A function of all slots gives the sums of a state.
LEMMA SumsOfSlots ==
  ASSUME Ledger!TypeOK
  PROVE  /\ \A S \in SUBSET Slots :
              /\ Owed(reward, fee, S) = Sum([s \in Slots |-> reward[s] + fee[s]], S)
              /\ Values(fee, S) = Sum(fee, S)
              /\ Values(reward, S) = Sum(reward, S)
              /\ Owed(reward, fee, S) \in Int /\ Values(fee, S) \in Int
              /\ Values(reward, S) \in Int
         /\ \A s \in Slots : reward[s] \in Nat /\ fee[s] \in Nat
<1> DEFINE f == [s \in Slots |-> reward[s] + fee[s]]
<1>1. \A s \in Slots : reward[s] \in Nat /\ fee[s] \in Nat
  <2>1. Rewards \in SUBSET Nat
    BY SlotsAreAssumed DEF Ledger!SlotsAssumption
  <2> QED  BY <2>1 DEF Ledger!TypeOK
<1>2. ASSUME NEW S \in SUBSET Slots
      PROVE  /\ Owed(reward, fee, S) = Sum(f, S)
             /\ Values(fee, S) = Sum(fee, S)
             /\ Values(reward, S) = Sum(reward, S)
             /\ Owed(reward, fee, S) \in Int /\ Values(fee, S) \in Int
             /\ Values(reward, S) \in Int
  <2>1. IsFiniteSet(S)
    BY SlotSetsAreFinite
  <2>2. \A s \in S : /\ f[s] = reward[s] + fee[s] /\ f[s] \in Int
                     /\ reward[s] \in Int /\ fee[s] \in Int
    BY <1>1
  <2> HIDE DEF f
  <2>3. Owed(reward, fee, S) = Sum(f, S)
    BY <2>1, <2>2, OwedIsSum
  <2>4. Values(fee, S) = Sum(fee, S) /\ Values(reward, S) = Sum(reward, S)
    BY <2>1, ValuesAreSum
  <2>5. Sum(f, S) \in Int /\ Sum(fee, S) \in Int /\ Sum(reward, S) \in Int
    BY <2>1, <2>2, SumType
  <2> QED  BY <2>3, <2>4, <2>5
<1> QED  BY <1>1, <1>2

\* What is expected of an account is an integer.
LEMMA ExpectedIsCounted ==
  ASSUME Ledger!TypeOK, NEW acc \in Ledger!Account
  PROVE  Ledger!Expected(acc) \in Int
<1>1. Ledger!Expected(Ledger!Clearing) \in Int
  <2>1. Owed(reward, fee, PaidFor) \in Int
    BY SumsOfSlots, SlotSetsAreFinite
  <2>2. \A n \in Int : - n \in Int
    OBVIOUS
  <2> QED  BY <2>1, <2>2, ExpectedOfEach
<1>2. Ledger!Expected(Ledger!FeeRevenue) \in Int
  BY ExpectedOfEach, SumsOfSlots, SlotSetsAreFinite
<1>3. \A c : Ledger!Expected(Ledger!Funds(c)) \in Int
  BY ExpectedOfEach, SumsOfSlots, SlotSetsAreFinite
<1>4. \A b : Ledger!Expected(Ledger!Refunds(b)) \in Int
  BY ExpectedOfEach, SumsOfSlots, SlotSetsAreFinite
<1>5. \A u : Ledger!Expected(Ledger!Payable(u)) \in Int
  BY ExpectedOfEach, SumsOfSlots, SlotSetsAreFinite
<1> QED  BY <1>1, <1>2, <1>3, <1>4, <1>5, KindsOfAccounts

-----------------------------------------------------------------------------
(* A step moves what is expected of an account by what its transaction     *)
(* leaves there.                                                           *)
LEMMA AccountsDiffer ==
  /\ Ledger!Clearing # Ledger!FeeRevenue
  /\ \A c : Ledger!Funds(c) # Ledger!Clearing /\ Ledger!Funds(c) # Ledger!FeeRevenue
  /\ \A b : Ledger!Refunds(b) # Ledger!Clearing /\ Ledger!Refunds(b) # Ledger!FeeRevenue
  /\ \A u : Ledger!Payable(u) # Ledger!Clearing /\ Ledger!Payable(u) # Ledger!FeeRevenue
  /\ \A c, b : Ledger!Funds(c) # Ledger!Refunds(b)
  /\ \A c, u : Ledger!Funds(c) # Ledger!Payable(u)
  /\ \A b, u : Ledger!Refunds(b) # Ledger!Payable(u)
  /\ \A c, d : Ledger!Funds(c) = Ledger!Funds(d) => c = d
  /\ \A b, d : Ledger!Refunds(b) = Ledger!Refunds(d) => b = d
  /\ \A u, v : Ledger!Payable(u) = Ledger!Payable(v) => u = v
BY DEF Ledger!Clearing, Ledger!FeeRevenue, Ledger!Funds, Ledger!Refunds, Ledger!Payable

\* A sum over slots grows by the slot that joins them.
LEMMA OneMoreSlot ==
  ASSUME Ledger!TypeOK, NEW S \in SUBSET Slots, NEW x \in Slots \ S
  PROVE  /\ Owed(reward, fee, S \cup {x}) = Owed(reward, fee, S) + (reward[x] + fee[x])
         /\ Values(fee, S \cup {x}) = Values(fee, S) + fee[x]
         /\ Values(reward, S \cup {x}) = Values(reward, S) + reward[x]
<1> DEFINE f == [s \in Slots |-> reward[s] + fee[s]]
<1>1. S \cup {x} \in SUBSET Slots /\ IsFiniteSet(S)
  BY SlotSetsAreFinite
<1>2. \A s \in Slots : /\ reward[s] \in Int /\ fee[s] \in Int /\ f[s] \in Int
                       /\ f[s] = reward[s] + fee[s]
  BY SumsOfSlots
<1>3. /\ Owed(reward, fee, S) = Sum(f, S) /\ Owed(reward, fee, S \cup {x}) = Sum(f, S \cup {x})
      /\ Values(fee, S) = Sum(fee, S) /\ Values(fee, S \cup {x}) = Sum(fee, S \cup {x})
      /\ Values(reward, S) = Sum(reward, S)
      /\ Values(reward, S \cup {x}) = Sum(reward, S \cup {x})
      /\ Owed(reward, fee, S) \in Int /\ Values(fee, S) \in Int /\ Values(reward, S) \in Int
  BY <1>1, SumsOfSlots
<1> HIDE DEF f
<1>4. Sum(f, S \cup {x}) = f[x] + Sum(f, S)
  BY <1>1, <1>2, SumInsert
<1>5. Sum(fee, S \cup {x}) = fee[x] + Sum(fee, S)
  BY <1>1, <1>2, SumInsert
<1>6. Sum(reward, S \cup {x}) = reward[x] + Sum(reward, S)
  BY <1>1, <1>2, SumInsert
<1> QED  BY <1>2, <1>3, <1>4, <1>5, <1>6

\* The rewards and the allocated fees of a campaign are what was due for it.
LEMMA FundingIsDue ==
  ASSUME Ledger!TypeOK, NEW c \in Campaigns, Ledger!FeeIsDisclosedFee(c), NEW fees,
         \A s \in Ledger!SlotsOf(c) :
           fees[s] = Ledger!AllocateFifteenPercentFee(Ledger!RewardsOf(c))[s]
  PROVE  Owed(reward, fees, Ledger!SlotsOf(c)) = Ledger!TotalDue(c)
<1> DEFINE D == Ledger!SlotsOf(c)
           r == Ledger!RewardsOf(c)
           a == Ledger!AllocateFifteenPercentFee(r)
           h == [s \in D |-> reward[s] + fees[s]]
<1>1. D \in SUBSET Nat /\ IsFiniteSet(D) /\ r \in [D -> Nat] /\ \A s \in D : r[s] = reward[s]
  BY SlotsOfCampaign
<1>2. \A s \in D : fees[s] = a[s]
  OBVIOUS
<1>3. declaredFee[c] = Ledger!PlatformFee(r)
  BY DEF Ledger!FeeIsDisclosedFee
<1>4. \A s \in D : h[s] = r[s] + a[s]
  BY <1>1, <1>2
<1>5. Owed(reward, fees, D) = Sum(h, D) /\ Ledger!TotalDue(c) = Ledger!Pool(r) + declaredFee[c]
  BY DEF Owed, Ledger!TotalDue
<1> HIDE DEF D, r, h
<1>6. a \in [D -> Nat] /\ Sum(a, D) = Ledger!PlatformFee(r)
  BY <1>1, FeeIsSplit
<1>7. Ledger!Pool(r) = Sum(r, D)
  BY <1>1, SharesFit
<1>8. Sum(h, D) = Sum(r, D) + Sum(a, D)
  <2> HIDE DEF a
  <2>1. \A s \in D : r[s] \in Int /\ a[s] \in Int /\ h[s] = r[s] + a[s]
    BY <1>1, <1>4, <1>6
  <2> QED  BY <1>1, <2>1, SumOfTwo
<1> QED  BY <1>3, <1>5, <1>6, <1>7, <1>8 DEF D, r, h

\* A payment makes its campaign a funded one and leaves the others.
LEMMA FundedAfter ==
  ASSUME Ledger!TypeOK, NEW c \in Campaigns, NEW p \in Payments,
         payment' = [payment EXCEPT ![c] = p]
  PROVE  /\ Ledger!Funded' = Ledger!Funded \cup {c}
         /\ payment'[c] = p /\ \A d \in Campaigns \ {c} : payment'[d] = payment[d]
<1>1. p # NoPayment
  BY SlotsAreAssumed DEF Ledger!SlotsAssumption
<1> QED  BY <1>1 DEF Ledger!TypeOK, Ledger!Funded

\* Funding: the money comes from outside and waits with the campaign.
LEMMA FundingIsExpected ==
  ASSUME Ledger!TypeOK, Ledger!FundingComesFirst, NEW c \in Campaigns, NEW p \in Payments,
         Ledger!RecordCampaignFunding(c, p), NEW acc \in Ledger!Account
  PROVE  Ledger!Expected(acc)' = Ledger!Expected(acc) + Moved(Ledger!FundingBy(c, p), acc)
<1> DEFINE D == Ledger!SlotsOf(c)
           n == Ledger!TotalDue(c)
<1>1. /\ c \notin Ledger!Funded /\ Ledger!Funded' = Ledger!Funded \cup {c} /\ reward' = reward /\ intent' = intent
      /\ fee' = [s \in Slots |-> IF s \in D THEN Ledger!AllocateFifteenPercentFee(Ledger!RewardsOf(c))[s]
                                            ELSE fee[s]]
      /\ Ledger!FeeIsDisclosedFee(c)
  BY FundedAfter DEF Ledger!RecordCampaignFunding, Ledger!contract
<1>2. D \in SUBSET Slots /\ \A s \in Slots : s \in D <=> CampaignOf[s] = c
  BY DEF Ledger!SlotsOf
<1>3. /\ \A s \in D : fee'[s] = Ledger!AllocateFifteenPercentFee(Ledger!RewardsOf(c))[s]
      /\ \A s \in Slots \ D : fee'[s] = fee[s]
  BY <1>1, <1>2
<1>4. Owed(reward, fee', D) = n
  BY <1>1, <1>3, FundingIsDue
<1>5. /\ PaidFor' = PaidFor \cup D /\ PaidFor \cap D = {}
      /\ Earned' = Earned /\ Refunded' = Refunded
      /\ \A b : RefundedTo(b)' = RefundedTo(b)
      /\ \A u : EarnedBy(u)' = EarnedBy(u)
  BY <1>1, <1>2 DEF PaidFor, Earned, Refunded, Ledger!Posted, RefundedTo, EarnedBy
<1>6. Earned \in SUBSET PaidFor /\ Refunded \in SUBSET PaidFor /\ PaidFor \in SUBSET (Slots \ D)
  BY <1>5 DEF Earned, Refunded, PaidFor, Ledger!Posted, Ledger!FundingComesFirst
<1>7. UnsettledOf(c) = {} /\ UnsettledOf(c)' = D
  BY <1>2, <1>5, <1>6 DEF UnsettledOf, Ledger!SlotsOf
<1>8. \A d : d # c => UnsettledOf(d)' = UnsettledOf(d)
  BY <1>2, <1>5 DEF UnsettledOf, Ledger!SlotsOf
<1>9. \A d : UnsettledOf(d) \in SUBSET PaidFor
  BY DEF UnsettledOf
<1>10. \A S \in SUBSET (Slots \ D) : /\ Owed(reward, fee', S) = Owed(reward, fee, S)
                                     /\ Values(fee', S) = Values(fee, S)
  <2> SUFFICES ASSUME NEW S \in SUBSET (Slots \ D)
               PROVE  /\ [s \in S |-> reward[s] + fee'[s]] = [s \in S |-> reward[s] + fee[s]]
                      /\ [s \in S |-> fee'[s]] = [s \in S |-> fee[s]]
    BY DEF Owed, Values
  <2> QED  BY <1>3
<1>11. Ledger!Expected(acc) \in Int /\ n \in Nat
  BY ExpectedIsCounted, FundingMoves
<1>12. Moved(Ledger!FundingBy(c, p), acc)
         = IF acc = Ledger!Funds(c) THEN n ELSE IF acc = Ledger!Clearing THEN - n ELSE 0
  BY FundingMoves
<1>13. \A d : Owed(reward, fee', UnsettledOf(d)) = Owed(reward, fee, UnsettledOf(d))
  BY <1>6, <1>9, <1>10
<1> HIDE DEF D, n
<1>14. CASE acc = Ledger!Clearing
  <2>1. Owed(reward, fee', PaidFor \cup D) = Owed(reward, fee', PaidFor) + Owed(reward, fee', D)
    <3> DEFINE f == [s \in Slots |-> reward[s] + fee'[s]]
    <3>1. IsFiniteSet(PaidFor) /\ IsFiniteSet(D) /\ IsFiniteSet(PaidFor \cup D)
      BY <1>2, <1>6, SlotSetsAreFinite, FS_Union
    <3>2. \A s \in PaidFor \cup D : f[s] = reward[s] + fee'[s]
      BY <1>2, <1>6
    <3>3. \A s \in PaidFor \cup D : f[s] \in Int
      <4>1. fee' \in [Slots -> Nat]
        <5>1. D \in SUBSET Nat /\ IsFiniteSet(D) /\ Ledger!RewardsOf(c) \in [D -> Nat]
          BY SlotsOfCampaign DEF D
        <5>2. Ledger!AllocateFifteenPercentFee(Ledger!RewardsOf(c)) \in [D -> Nat]
          BY <5>1, FeeIsSplit
        <5> QED  BY <1>1, <5>2 DEF Ledger!TypeOK
      <4> QED  BY <1>2, <1>6, <4>1, SumsOfSlots
    <3> HIDE DEF f
    <3>4. /\ Owed(reward, fee', PaidFor) = Sum(f, PaidFor)
          /\ Owed(reward, fee', D) = Sum(f, D)
          /\ Owed(reward, fee', PaidFor \cup D) = Sum(f, PaidFor \cup D)
      BY <3>1, <3>2, OwedIsSum
    <3>5. Sum(f, PaidFor \cup D) = Sum(f, PaidFor) + Sum(f, D)
      BY <1>5, <3>1, <3>3, SumOfUnion
    <3> QED  BY <3>4, <3>5
  <2>2. Owed(reward, fee', PaidFor) = Owed(reward, fee, PaidFor)
    BY <1>6, <1>10
  <2>3. Owed(reward, fee, PaidFor) \in Int
    BY SumsOfSlots, SlotSetsAreFinite
  <2>4. Ledger!Expected(Ledger!Clearing)' = - (Owed(reward, fee, PaidFor) + n)
    BY <1>1, <1>4, <1>5, <2>1, <2>2, ExpectedAfter
  <2>5. Ledger!Expected(Ledger!Clearing) = - Owed(reward, fee, PaidFor)
    BY ExpectedOfEach
  <2>6. Moved(Ledger!FundingBy(c, p), Ledger!Clearing) = - n
    BY <1>12, <1>14, AccountsDiffer
  <2> DEFINE x == Owed(reward, fee, PaidFor)
  <2> HIDE DEF x
  <2>7. - (x + n) = - x + - n
    BY <1>11, <2>3 DEF x
  <2> QED  BY <1>14, <2>4, <2>5, <2>6, <2>7 DEF x
<1>15. CASE acc = Ledger!FeeRevenue
  <2>1. Ledger!Expected(acc)' = Values(fee', Earned)
    BY <1>5, <1>15, ExpectedAfter
  <2>2. Values(fee', Earned) = Values(fee, Earned)
    BY <1>6, <1>10
  <2>3. Ledger!Expected(acc) = Values(fee, Earned)
    BY <1>15, ExpectedOfEach
  <2>4. Moved(Ledger!FundingBy(c, p), acc) = 0
    BY <1>12, <1>15, AccountsDiffer
  <2> QED  BY <1>11, <2>1, <2>2, <2>3, <2>4
<1>16. ASSUME NEW d \in Campaigns, acc = Ledger!Funds(d)
       PROVE  Ledger!Expected(acc)' = Ledger!Expected(acc) + Moved(Ledger!FundingBy(c, p), acc)
  <2>1. /\ Ledger!Expected(acc)' = Owed(reward, fee', UnsettledOf(d)')
        /\ Ledger!Expected(acc) = Owed(reward, fee, UnsettledOf(d))
    BY <1>1, <1>16, ExpectedAfter, ExpectedOfEach
  <2>2. CASE d = c
    <3>1. Ledger!Expected(acc)' = n
      BY <1>4, <1>7, <2>1, <2>2
    <3>2. Ledger!Expected(acc) = 0
      <4>1. Owed(reward, fee, {}) = 0
        <5>1. Sum([s \in {} |-> reward[s] + fee[s]], {}) = 0
          BY FS_EmptySet, SumFollows
        <5> QED  BY <5>1 DEF Owed
      <4> QED  BY <1>7, <2>1, <2>2, <4>1
    <3>3. Moved(Ledger!FundingBy(c, p), acc) = n
      BY <1>12, <1>16, <2>2
    <3> QED  BY <1>11, <3>1, <3>2, <3>3
  <2>3. CASE d # c
    <3>1. Ledger!Expected(acc)' = Ledger!Expected(acc)
      BY <1>8, <1>13, <2>1, <2>3
    <3>2. Moved(Ledger!FundingBy(c, p), acc) = 0
      BY <1>12, <1>16, <2>3, AccountsDiffer
    <3> QED  BY <1>11, <3>1, <3>2
  <2> QED  BY <2>2, <2>3
<1>17. ASSUME NEW b \in Businesses, acc = Ledger!Refunds(b)
       PROVE  Ledger!Expected(acc)' = Ledger!Expected(acc) + Moved(Ledger!FundingBy(c, p), acc)
  <2>1. /\ Ledger!Expected(acc)' = Owed(reward, fee', RefundedTo(b))
        /\ Ledger!Expected(acc) = Owed(reward, fee, RefundedTo(b))
    BY <1>1, <1>5, <1>17, ExpectedAfter, ExpectedOfEach
  <2>2. RefundedTo(b) \in SUBSET (Slots \ D)
    BY <1>6 DEF RefundedTo
  <2>3. Moved(Ledger!FundingBy(c, p), acc) = 0
    BY <1>12, <1>17, AccountsDiffer
  <2> QED  BY <1>10, <1>11, <2>1, <2>2, <2>3
<1>18. ASSUME NEW u \in Creators, acc = Ledger!Payable(u)
       PROVE  Ledger!Expected(acc)' = Ledger!Expected(acc) + Moved(Ledger!FundingBy(c, p), acc)
  <2>1. /\ Ledger!Expected(acc)' = Values(reward, EarnedBy(u))
        /\ Ledger!Expected(acc) = Values(reward, EarnedBy(u))
    BY <1>1, <1>5, <1>18, ExpectedAfter, ExpectedOfEach
  <2>2. Moved(Ledger!FundingBy(c, p), acc) = 0
    BY <1>12, <1>18, AccountsDiffer
  <2> QED  BY <1>11, <2>1, <2>2
<1> QED  BY <1>14, <1>15, <1>16, <1>17, <1>18, KindsOfAccounts

\* Posting: the money of the slot leaves the campaign for where it is earned.
LEMMA PostingIsExpected ==
  ASSUME Ledger!TypeOK, Ledger!FundingComesFirst, NEW s \in Slots,
         Ledger!ConsumeFinancialActionIntent(s), NEW acc \in Ledger!Account
  PROVE  Ledger!Expected(acc)' = Ledger!Expected(acc) + Moved(Ledger!Posting(s), acc)
<1> DEFINE c == CampaignOf[s]
           u == intent[s].creator
           b == BusinessOf[c]
           paid == intent[s].action = "creator_payable_full"
           n == reward[s] + fee[s]
<1>1. /\ intent[s] # Ledger!NoIntent /\ ~intent[s].posted
      /\ payment' = payment /\ Ledger!Funded' = Ledger!Funded /\ reward' = reward /\ fee' = fee
      /\ intent' = [intent EXCEPT ![s].posted = TRUE]
  BY DEF Ledger!ConsumeFinancialActionIntent, Ledger!IsPending, Ledger!contract, Ledger!Funded
<1>2. intent[s] \in Ledger!Closed
  BY <1>1 DEF Ledger!TypeOK
<1>3. \A t \in Slots : /\ (intent'[t] # Ledger!NoIntent) <=> (intent[t] # Ledger!NoIntent)
                       /\ t # s => intent'[t] = intent[t]
                       /\ intent'[s].posted /\ intent'[s].action = intent[s].action
                       /\ intent'[s].creator = intent[s].creator
  <2>1. intent'[s] = [action |-> intent[s].action, creator |-> intent[s].creator, posted |-> TRUE]
    BY <1>1, <1>2 DEF Ledger!TypeOK, Ledger!Closed
  <2>2. \A t \in Slots \ {s} : intent'[t] = intent[t]
    BY <1>1 DEF Ledger!TypeOK
  <2>3. intent'[s] # Ledger!NoIntent
    BY <2>1 DEF Ledger!NoIntent
  <2> QED  BY <1>1, <2>1, <2>2, <2>3
<1>4. /\ reward[s] \in Nat /\ fee[s] \in Nat /\ c \in Campaigns /\ b \in Businesses /\ u \in Creators
      /\ intent[s].action \in {"creator_payable_full", "business_refund_full"}
      /\ paid => \A a : Moved(Ledger!Posting(s), a)
                   = IF a = Ledger!Payable(u) THEN reward[s]
                     ELSE IF a = Ledger!FeeRevenue THEN fee[s]
                     ELSE IF a = Ledger!Funds(c) THEN - n ELSE 0
      /\ ~paid => \A a : Moved(Ledger!Posting(s), a)
                    = IF a = Ledger!Refunds(b) THEN n
                      ELSE IF a = Ledger!Funds(c) THEN - n ELSE 0
  BY <1>1, PostingMoves
<1>5. PaidFor' = PaidFor /\ s \in PaidFor /\ s \notin Earned /\ s \notin Refunded
  BY <1>1 DEF PaidFor, Ledger!FundingComesFirst, Earned, Refunded, Ledger!Posted
<1>6. /\ Earned' = IF paid THEN Earned \cup {s} ELSE Earned
      /\ Refunded' = IF paid THEN Refunded ELSE Refunded \cup {s}
  BY <1>1, <1>3, <1>4 DEF Earned, Refunded, Ledger!Posted
<1>7. s \in UnsettledOf(c) /\ UnsettledOf(c)' = UnsettledOf(c) \ {s}
  BY <1>5, <1>6 DEF UnsettledOf, Ledger!SlotsOf
<1>8. \A d : d # c => UnsettledOf(d)' = UnsettledOf(d)
  BY <1>5, <1>6 DEF UnsettledOf, Ledger!SlotsOf
<1>9. \A v : EarnedBy(v)' = IF paid /\ v = u THEN EarnedBy(v) \cup {s} ELSE EarnedBy(v)
  BY <1>3, <1>5, <1>6, SlotSetsAreFinite DEF EarnedBy
<1>10. \A d : RefundedTo(d)' = IF ~paid /\ d = b THEN RefundedTo(d) \cup {s} ELSE RefundedTo(d)
  BY <1>6 DEF RefundedTo
<1>11. /\ Ledger!Expected(acc) \in Int /\ n \in Nat
       /\ s \notin Earned /\ \A v : s \notin EarnedBy(v)
       /\ \A d : s \notin RefundedTo(d)
  BY <1>4, <1>5, ExpectedIsCounted DEF EarnedBy, RefundedTo
<1>12. /\ PaidFor \in SUBSET Slots /\ Earned \in SUBSET Slots
       /\ \A d : UnsettledOf(d) \in SUBSET Slots /\ RefundedTo(d) \in SUBSET Slots
                 /\ EarnedBy(d) \in SUBSET Slots
  BY SlotSetsAreFinite
<1> HIDE DEF n, paid, u, c, b
<1>13. CASE acc = Ledger!Clearing
  <2>1. Ledger!Expected(acc)' = Ledger!Expected(acc)
    BY <1>1, <1>5, <1>13, ExpectedAfter, ExpectedOfEach
  <2>2. Moved(Ledger!Posting(s), acc) = 0
    BY <1>4, <1>13, AccountsDiffer
  <2> QED  BY <1>11, <2>1, <2>2
<1>14. CASE acc = Ledger!FeeRevenue
  <2>1. /\ Ledger!Expected(acc)' = Values(fee, Earned')
        /\ Ledger!Expected(acc) = Values(fee, Earned)
    BY <1>1, <1>14, ExpectedAfter, ExpectedOfEach
  <2>2. CASE paid
    <3>1. Values(fee, Earned \cup {s}) = Values(fee, Earned) + fee[s]
      BY <1>5, <1>12, OneMoreSlot
    <3>2. Moved(Ledger!Posting(s), acc) = fee[s]
      BY <1>4, <1>14, <2>2, AccountsDiffer
    <3> QED  BY <1>6, <2>1, <2>2, <3>1, <3>2
  <2>3. CASE ~paid
    <3>1. Ledger!Expected(acc)' = Ledger!Expected(acc)
      BY <1>6, <2>1, <2>3
    <3>2. Moved(Ledger!Posting(s), acc) = 0
      BY <1>4, <1>14, <2>3, AccountsDiffer
    <3> QED  BY <1>11, <3>1, <3>2
  <2> QED  BY <2>2, <2>3
<1>15. ASSUME NEW d \in Campaigns, acc = Ledger!Funds(d)
       PROVE  Ledger!Expected(acc)' = Ledger!Expected(acc) + Moved(Ledger!Posting(s), acc)
  <2>1. /\ Ledger!Expected(acc)' = Owed(reward, fee, UnsettledOf(d)')
        /\ Ledger!Expected(acc) = Owed(reward, fee, UnsettledOf(d))
    BY <1>1, <1>15, ExpectedAfter, ExpectedOfEach
  <2>2. CASE d = c
    <3> DEFINE S == UnsettledOf(c) \ {s}
               x == Owed(reward, fee, S)
    <3>1. S \in SUBSET Slots /\ s \in Slots \ S /\ S \cup {s} = UnsettledOf(c)
      BY <1>7, <1>12
    <3>2. x \in Int
      BY <3>1, SumsOfSlots
    <3>3. Owed(reward, fee, S \cup {s}) = x + n
      <4> HIDE DEF S
      <4> QED  BY <3>1, OneMoreSlot DEF n
    <3>4. Ledger!Expected(acc)' = x /\ Ledger!Expected(acc) = x + n
      BY <1>7, <2>1, <2>2, <3>1, <3>3
    <3>5. Moved(Ledger!Posting(s), acc) = - n
      BY <1>4, <1>15, <2>2, AccountsDiffer
    <3> HIDE DEF x
    <3> QED  BY <1>11, <3>2, <3>4, <3>5
  <2>3. CASE d # c
    <3>1. Ledger!Expected(acc)' = Ledger!Expected(acc)
      BY <1>8, <2>1, <2>3
    <3>2. Moved(Ledger!Posting(s), acc) = 0
      BY <1>4, <1>15, <2>3, AccountsDiffer
    <3> QED  BY <1>11, <3>1, <3>2
  <2> QED  BY <2>2, <2>3
<1>16. ASSUME NEW d \in Businesses, acc = Ledger!Refunds(d)
       PROVE  Ledger!Expected(acc)' = Ledger!Expected(acc) + Moved(Ledger!Posting(s), acc)
  <2>1. /\ Ledger!Expected(acc)' = Owed(reward, fee, RefundedTo(d)')
        /\ Ledger!Expected(acc) = Owed(reward, fee, RefundedTo(d))
    BY <1>1, <1>16, ExpectedAfter, ExpectedOfEach
  <2>2. CASE ~paid /\ d = b
    <3>1. Owed(reward, fee, RefundedTo(d) \cup {s}) = Owed(reward, fee, RefundedTo(d)) + n
      BY <1>11, <1>12, OneMoreSlot DEF n
    <3>2. Moved(Ledger!Posting(s), acc) = n
      BY <1>4, <1>16, <2>2, AccountsDiffer
    <3> QED  BY <1>10, <2>1, <2>2, <3>1, <3>2
  <2>3. CASE ~(~paid /\ d = b)
    <3>1. Ledger!Expected(acc)' = Ledger!Expected(acc)
      BY <1>10, <2>1, <2>3
    <3>2. Moved(Ledger!Posting(s), acc) = 0
      BY <1>4, <1>16, <2>3, AccountsDiffer
    <3> QED  BY <1>11, <3>1, <3>2
  <2> QED  BY <2>2, <2>3
<1>17. ASSUME NEW v \in Creators, acc = Ledger!Payable(v)
       PROVE  Ledger!Expected(acc)' = Ledger!Expected(acc) + Moved(Ledger!Posting(s), acc)
  <2>1. /\ Ledger!Expected(acc)' = Values(reward, EarnedBy(v)')
        /\ Ledger!Expected(acc) = Values(reward, EarnedBy(v))
    BY <1>1, <1>17, ExpectedAfter, ExpectedOfEach
  <2>2. CASE paid /\ v = u
    <3>1. Values(reward, EarnedBy(v) \cup {s}) = Values(reward, EarnedBy(v)) + reward[s]
      BY <1>11, <1>12, OneMoreSlot
    <3>2. Moved(Ledger!Posting(s), acc) = reward[s]
      BY <1>4, <1>17, <2>2, AccountsDiffer
    <3> QED  BY <1>9, <2>1, <2>2, <3>1, <3>2
  <2>3. CASE ~(paid /\ v = u)
    <3>1. Ledger!Expected(acc)' = Ledger!Expected(acc)
      BY <1>9, <2>1, <2>3
    <3>2. Moved(Ledger!Posting(s), acc) = 0
      BY <1>4, <1>17, <2>3, AccountsDiffer
    <3> QED  BY <1>11, <3>1, <3>2
  <2> QED  BY <2>2, <2>3
<1> QED  BY <1>13, <1>14, <1>15, <1>16, <1>17, KindsOfAccounts

\* Closing a mission posts nothing yet.
LEMMA ClosingIsExpected ==
  ASSUME Ledger!TypeOK, NEW s \in Slots, NEW u \in Creators,
         NEW action \in {"creator_payable_full", "business_refund_full"},
         Ledger!CloseMission(s, u, action), NEW acc \in Ledger!Account
  PROVE  Ledger!Expected(acc)' = Ledger!Expected(acc)
<1>1. /\ intent[s] = Ledger!NoIntent
      /\ payment' = payment /\ Ledger!Funded' = Ledger!Funded /\ reward' = reward /\ fee' = fee
      /\ intent' = [intent EXCEPT ![s] = [action |-> action, creator |-> u, posted |-> FALSE]]
  BY DEF Ledger!CloseMission, Ledger!contract, Ledger!Funded
<1>2. /\ ~intent'[s].posted
      /\ \A t \in Slots \ {s} : intent'[t] = intent[t]
  BY <1>1 DEF Ledger!TypeOK
<1>3. PaidFor' = PaidFor /\ Earned' = Earned /\ Refunded' = Refunded /\ s \notin Earned
  BY <1>1, <1>2 DEF PaidFor, Earned, Refunded, Ledger!Posted
<1>4. /\ \A c : UnsettledOf(c)' = UnsettledOf(c)
      /\ \A b : RefundedTo(b)' = RefundedTo(b)
      /\ \A v : EarnedBy(v)' = EarnedBy(v)
  BY <1>2, <1>3, SlotSetsAreFinite DEF UnsettledOf, Ledger!SlotsOf, RefundedTo, EarnedBy
<1> QED  BY <1>1, <1>3, <1>4, ExpectedAfter, ExpectedOfEach, KindsOfAccounts

\* Nor does a step that leaves the missions as they are.
LEMMA RestIsExpected ==
  ASSUME Ledger!TypeOK, UNCHANGED <<reward, fee, payment, intent>>, NEW acc \in Ledger!Account
  PROVE  Ledger!Expected(acc)' = Ledger!Expected(acc)
<1>1. PaidFor' = PaidFor /\ Earned' = Earned /\ Refunded' = Refunded
  BY DEF PaidFor, Earned, Refunded, Ledger!Posted, Ledger!Funded
<1>2. /\ \A c : UnsettledOf(c)' = UnsettledOf(c)
      /\ \A b : RefundedTo(b)' = RefundedTo(b)
      /\ \A v : EarnedBy(v)' = EarnedBy(v)
  BY <1>1 DEF UnsettledOf, Ledger!SlotsOf, RefundedTo, EarnedBy
<1> QED  BY <1>1, <1>2, ExpectedAfter, ExpectedOfEach, KindsOfAccounts

-----------------------------------------------------------------------------
(* The journal grows by one transaction at a time.                         *)
Adjusted == {t \in journal : Ledger!IsAdjustment(t)}

\* The source of a transaction tells its kind.
LEMMA Sources ==
  /\ \A c, p : /\ Ledger!FundingBy(c, p).source = <<"provider_funding", p.event>>
               /\ ~Ledger!IsAdjustment(Ledger!FundingBy(c, p))
  /\ \A s : /\ Ledger!Posting(s).source = <<"financial_action_intent", s>>
            /\ ~Ledger!IsAdjustment(Ledger!Posting(s))
  /\ \A id, debit, credit, amount :
       /\ Ledger!Adjustment(id, debit, credit, amount).source = <<"finance_adjustment", id>>
       /\ Ledger!IsAdjustment(Ledger!Adjustment(id, debit, credit, amount))
BY DEF Ledger!FundingBy, Ledger!Posting, Ledger!Adjustment, Ledger!Transaction, Ledger!IsAdjustment

\* The balances after one more transaction, all and of the adjustments.
LEMMA BalancesMove ==
  ASSUME Ledger!TypeOK, Ledger!JournalIsTold, NEW t, t \notin journal,
         NEW acc, Moved(t, acc) \in Int, journal' = journal \cup {t}
  PROVE  /\ Ledger!Balance(journal, acc) \in Int
         /\ Ledger!Balance(journal', acc) = Ledger!Balance(journal, acc) + Moved(t, acc)
         /\ Ledger!Balance(Adjusted, acc) \in Int
         /\ Ledger!IsAdjustment(t) =>
              Ledger!Balance(Adjusted', acc) = Ledger!Balance(Adjusted, acc) + Moved(t, acc)
         /\ ~Ledger!IsAdjustment(t) => Adjusted' = Adjusted
<1>1. IsFiniteSet(journal) /\ Adjusted \in SUBSET journal /\ IsFiniteSet(Adjusted)
  <2>1. IsFiniteSet(journal)
    BY LedgerCounts DEF Ledger!JournalIsTold
  <2> QED  BY <2>1, FS_Subset DEF Adjusted
<1>2. \A u \in journal \cup {t} : Moved(u, acc) \in Int
  BY MovesAreCounted
<1>3. /\ Ledger!Balance(journal, acc) \in Int
      /\ Ledger!Balance(journal \cup {t}, acc)
           = Ledger!Balance(journal, acc) + Moved(t, acc)
  BY <1>1, <1>2, BalanceGrows
<1>4. t \notin Adjusted /\ \A u \in Adjusted \cup {t} : Moved(u, acc) \in Int
  BY <1>1, <1>2
<1>5. /\ Ledger!Balance(Adjusted, acc) \in Int
      /\ Ledger!Balance(Adjusted \cup {t}, acc)
           = Ledger!Balance(Adjusted, acc) + Moved(t, acc)
  BY <1>1, <1>4, BalanceGrows
<1>6. /\ Ledger!IsAdjustment(t) => Adjusted' = Adjusted \cup {t}
      /\ ~Ledger!IsAdjustment(t) => Adjusted' = Adjusted
  BY DEF Adjusted, Ledger!IsAdjustment
<1> QED  BY <1>3, <1>5, <1>6

\* A transaction the database accepts by itself.
IsSound(t) ==
  /\ t.debit \in Ledger!Account /\ t.total \in Nat \ {0}
  /\ \A credit \in t.credits : credit.account \in Ledger!Account /\ credit.amount \in Nat \ {0}

\* The journal's part of the type invariant, transaction by transaction.
LEMMA JournalIsSound ==
  ( /\ Ledger!LedgerAccounts \subseteq Ledger!Account
    /\ \A t \in journal : /\ t.total \in Nat \ {0}
                          /\ \A credit \in t.credits : credit.amount \in Nat \ {0} )
    <=> \A t \in journal : IsSound(t)
<1>1. Ledger!LedgerAccounts \subseteq Ledger!Account
        <=> \A t \in journal : /\ t.debit \in Ledger!Account
                               /\ \A credit \in t.credits : credit.account \in Ledger!Account
  BY DEF Ledger!LedgerAccounts
<1> QED  BY <1>1 DEF IsSound

\* A funding of a fee above nothing is sound.
LEMMA FundingIsSound ==
  ASSUME Ledger!TypeOK, NEW c \in Campaigns, NEW p, declaredFee[c] > 0
  PROVE  IsSound(Ledger!FundingBy(c, p))
<1>1. Ledger!TotalDue(c) \in Nat \ {0}
  <2> DEFINE r == Ledger!RewardsOf(c)
             D == Ledger!SlotsOf(c)
  <2>1. D \in SUBSET Nat /\ IsFiniteSet(D) /\ r \in [D -> Nat]
    BY SlotsOfCampaign
  <2>2. Ledger!Pool(r) \in Nat
    <3> HIDE DEF r, D
    <3> QED  BY <2>1, SharesFit
  <2>3. declaredFee[c] \in Nat
    BY DEF Ledger!TypeOK
  <2> QED  BY <2>2, <2>3 DEF Ledger!TotalDue
<1> QED  BY <1>1, KindsOfAccounts DEF IsSound, Ledger!FundingBy, Ledger!Transaction, Ledger!Credit

\* A posting for a slot with a fee is sound.
LEMMA PostingIsSound ==
  ASSUME Ledger!TypeOK, NEW s \in Slots, intent[s] # Ledger!NoIntent, fee[s] > 0
  PROVE  IsSound(Ledger!Posting(s))
<1>1. /\ reward[s] \in Nat \ {0} /\ fee[s] \in Nat \ {0}
      /\ Ledger!TotalMinor(s) = reward[s] + fee[s]
      /\ CampaignOf[s] \in Campaigns /\ BusinessOf[CampaignOf[s]] \in Businesses
      /\ intent[s].creator \in Creators
  <2>1. Rewards \in SUBSET (Nat \ {0})
    BY SlotsAreAssumed DEF Ledger!SlotsAssumption
  <2> QED  BY <2>1, PostingMoves DEF Ledger!TypeOK
<1>2. Ledger!TotalMinor(s) \in Nat \ {0}
  BY <1>1
<1>3. \A credit \in Ledger!SlotCredits(s) : /\ credit.account \in Ledger!Account
                                            /\ credit.amount \in Nat \ {0}
  BY <1>1, KindsOfAccounts DEF Ledger!SlotCredits, Ledger!Credit
<1>4. \A credit \in Ledger!SlotRefund(s) : /\ credit.account \in Ledger!Account
                                           /\ credit.amount \in Nat \ {0}
  BY <1>1, <1>2, KindsOfAccounts DEF Ledger!SlotRefund, Ledger!Credit
<1>5. /\ Ledger!Posting(s).debit \in Ledger!Account
      /\ Ledger!Posting(s).total = Ledger!TotalMinor(s)
      /\ Ledger!Posting(s).credits \in {Ledger!SlotCredits(s), Ledger!SlotRefund(s)}
  BY <1>1, KindsOfAccounts DEF Ledger!Posting, Ledger!Transaction
<1> QED  BY <1>2, <1>3, <1>4, <1>5 DEF IsSound

\* So is an adjustment between accounts of the ledger.
LEMMA AdjustmentIsSound ==
  ASSUME NEW id, NEW debit \in Ledger!Account, NEW credit \in Ledger!Account,
         NEW amount \in Amounts
  PROVE  IsSound(Ledger!Adjustment(id, debit, credit, amount))
<1>1. amount \in Nat \ {0}
  BY SlotsAreAssumed DEF Ledger!SlotsAssumption
<1> QED  BY <1>1 DEF IsSound, Ledger!Adjustment, Ledger!Transaction, Ledger!Credit

\* The transactions of the rows that a step leaves as they are.
LEMMA FundingStays ==
  ASSUME reward' = reward, declaredFee' = declaredFee
  PROVE  /\ \A c : Ledger!Funding(c)' = Ledger!FundingBy(c, payment'[c])
         /\ \A c : payment'[c] = payment[c] => Ledger!Funding(c)' = Ledger!Funding(c)
BY DEF Ledger!Funding, Ledger!FundingBy, Ledger!Transaction, Ledger!TotalDue,
   Ledger!RewardsOf, Ledger!SlotsOf, Ledger!Credit, Ledger!Clearing, Ledger!Funds

\* And of a posted intent.
LEMMA PostingStays ==
  ASSUME NEW s, reward'[s] = reward[s], fee'[s] = fee[s],
         intent'[s].action = intent[s].action, intent'[s].creator = intent[s].creator
  PROVE  Ledger!Posting(s)' = Ledger!Posting(s)
<1>1. Ledger!TotalMinor(s)' = Ledger!TotalMinor(s)
  BY DEF Ledger!TotalMinor
<1>2. Ledger!SlotCredits(s)' = Ledger!SlotCredits(s)
  BY DEF Ledger!SlotCredits, Ledger!Credit, Ledger!Payable, Ledger!FeeRevenue
<1>3. Ledger!SlotRefund(s)' = Ledger!SlotRefund(s)
  BY <1>1 DEF Ledger!SlotRefund, Ledger!Credit, Ledger!Refunds
<1> QED  BY <1>1, <1>2, <1>3 DEF Ledger!Posting, Ledger!Transaction, Ledger!Funds

-----------------------------------------------------------------------------
(* The inductive invariant, step by step.                                  *)
LEMMA NothingIsOwed ==
  /\ Owed(reward, fee, {}) = 0 /\ Values(fee, {}) = 0 /\ Values(reward, {}) = 0
  /\ \A acc : Ledger!Balance({}, acc) = 0
<1>1. \A f : Sum(f, {}) = 0
  BY FS_EmptySet, SumFollows
<1> QED  BY <1>1, BalanceIsSum DEF Owed, Values

\* An empty journal explains that nothing is held.
LEMMA LedgerBegins == Ledger!Init => Ledger!InductiveInvariant
<1> SUFFICES ASSUME Ledger!Init  PROVE Ledger!InductiveInvariant
  OBVIOUS
<1>1. /\ reward \in [Slots -> Rewards] /\ payment = [c \in Campaigns |-> NoPayment] /\ fee = [s \in Slots |-> 0]
      /\ intent = [s \in Slots |-> Ledger!NoIntent] /\ journal = {}
      /\ \E extra \in {0, 1} :
           declaredFee = [c \in Campaigns |-> Ledger!PlatformFee(Ledger!RewardsOf(c)) + extra]
      /\ Ledger!Funded = {}
  BY DEF Ledger!Init, Ledger!Funded
<1>2. declaredFee \in [Campaigns -> Nat]
  <2>1. ASSUME NEW c \in Campaigns  PROVE Ledger!PlatformFee(Ledger!RewardsOf(c)) \in Nat
    <3> DEFINE r == Ledger!RewardsOf(c)
               D == Ledger!SlotsOf(c)
    <3>1. D \in SUBSET Nat /\ IsFiniteSet(D) /\ r \in [D -> Nat]
      BY <1>1, RewardsOfCampaign
    <3> HIDE DEF r, D
    <3>2. Ledger!PlatformFee(r) \in Nat
      BY <3>1, SharesFit
    <3> QED  BY <3>2 DEF r
  <2>2. \A n \in Nat, extra \in {0, 1} : n + extra \in Nat
    OBVIOUS
  <2> QED  BY <1>1, <2>1, <2>2
<1>3. Ledger!TypeOK
  <2>1. \A t \in journal : IsSound(t)
    BY <1>1
  <2>2. fee \in [Slots -> Nat] /\ intent \in [Slots -> Ledger!Closed \cup {Ledger!NoIntent}]
    BY <1>1
  <2>3. payment \in [Campaigns -> Payments \cup {NoPayment}]
    BY <1>1
  <2> QED  BY <1>1, <1>2, <2>1, <2>2, <2>3, JournalIsSound DEF Ledger!TypeOK
<1>4. Ledger!FundingComesFirst
  BY <1>1 DEF Ledger!FundingComesFirst
<1>5. Ledger!JournalIsTold
  <2>1. Ledger!IsFiniteSet(journal)
    BY <1>1, FS_EmptySet, LedgerCounts
  <2> QED  BY <1>1, <2>1 DEF Ledger!JournalIsTold, Ledger!IsPosted
<1>6. Ledger!BalancesExplained
  <2>1. PaidFor = {} /\ Earned = {} /\ Refunded = {}
    BY <1>1 DEF PaidFor, Earned, Refunded, Ledger!Posted
  <2>2. /\ \A c : UnsettledOf(c) = {}
        /\ \A b : RefundedTo(b) = {}
        /\ \A u : EarnedBy(u) = {}
    BY <2>1 DEF UnsettledOf, RefundedTo, EarnedBy
  <2>3. \A acc \in Ledger!Account : Ledger!Expected(acc) = 0
    <3>1. Ledger!Expected(Ledger!Clearing) = 0
      BY <2>1, NothingIsOwed, ExpectedOfEach
    <3> QED  BY <2>1, <2>2, <3>1, NothingIsOwed, ExpectedOfEach, KindsOfAccounts
  <2>4. journal = {} /\ {t \in journal : Ledger!IsAdjustment(t)} = {}
    BY <1>1
  <2> QED  BY <2>3, <2>4, NothingIsOwed DEF Ledger!BalancesExplained
<1> QED  BY <1>3, <1>4, <1>5, <1>6 DEF Ledger!InductiveInvariant

\* A transaction that moves the accounts as the missions say.
LEMMA BalancesStayExplained ==
  ASSUME Ledger!InductiveInvariant, NEW t, t \notin journal, ~Ledger!IsAdjustment(t),
         journal' = journal \cup {t}, \A acc : Moved(t, acc) \in Int,
         \A acc \in Ledger!Account :
           Ledger!Expected(acc)' = Ledger!Expected(acc) + Moved(t, acc)
  PROVE  Ledger!BalancesExplained'
<1>1. Ledger!TypeOK /\ Ledger!FundingComesFirst /\ Ledger!JournalIsTold /\ Ledger!BalancesExplained
  BY DEF Ledger!InductiveInvariant
<1>2. SUFFICES ASSUME NEW acc \in Ledger!Account
               PROVE  Ledger!Balance(journal', acc)
                        = Ledger!Expected(acc)' + Ledger!Balance(Adjusted', acc)
  BY DEF Ledger!BalancesExplained, Adjusted, Ledger!IsAdjustment
<1>3. /\ Ledger!Balance(journal', acc) = Ledger!Balance(journal, acc) + Moved(t, acc)
      /\ Ledger!Balance(Adjusted, acc) \in Int /\ Adjusted' = Adjusted
  BY <1>1, BalancesMove
<1>4. Ledger!Balance(journal, acc) = Ledger!Expected(acc) + Ledger!Balance(Adjusted, acc)
  BY <1>1 DEF Ledger!BalancesExplained, Adjusted
<1>5. Ledger!Expected(acc)' = Ledger!Expected(acc) + Moved(t, acc)
  OBVIOUS
<1> DEFINE x == Ledger!Expected(acc)
           y == Ledger!Balance(Adjusted, acc)
           m == Moved(t, acc)
<1>6. x \in Int /\ y \in Int /\ m \in Int
  BY <1>1, <1>3, ExpectedIsCounted
<1>7. /\ Ledger!Balance(journal', acc) = (x + y) + m
      /\ Ledger!Expected(acc)' = x + m /\ Ledger!Balance(Adjusted', acc) = y
  BY <1>3, <1>4, <1>5
<1> HIDE DEF x, y, m
<1> QED  BY <1>6, <1>7

\* Recording a campaign's funding.
LEMMA FundingKeepsBalances ==
  ASSUME Ledger!InductiveInvariant, NEW c \in Campaigns, NEW p \in Payments,
         Ledger!RecordCampaignFunding(c, p)
  PROVE  Ledger!BalancesExplained'
<1> DEFINE t == Ledger!FundingBy(c, p)
<1>0. Ledger!TypeOK /\ Ledger!FundingComesFirst
  BY DEF Ledger!InductiveInvariant
<1>1. journal' = journal \cup {t} /\ t \notin journal
  BY DEF Ledger!RecordCampaignFunding, Ledger!IsNew
<1>2. t \notin journal /\ ~Ledger!IsAdjustment(t)
  BY <1>1, Sources
<1>3. \A acc : Moved(t, acc) \in Int
  <2>1. \A n \in Nat : n \in Int /\ - n \in Int
    OBVIOUS
  <2> QED  BY <1>0, <2>1, FundingMoves
<1>4. \A acc \in Ledger!Account :
        Ledger!Expected(acc)' = Ledger!Expected(acc) + Moved(t, acc)
  BY <1>0, FundingIsExpected
<1> HIDE DEF t
<1> QED  BY <1>1, <1>2, <1>3, <1>4, BalancesStayExplained

\* Consuming an intent.
LEMMA PostingKeepsBalances ==
  ASSUME Ledger!InductiveInvariant, NEW s \in Slots, Ledger!ConsumeFinancialActionIntent(s)
  PROVE  Ledger!BalancesExplained'
<1> DEFINE t == Ledger!Posting(s)
<1>0. Ledger!TypeOK /\ Ledger!FundingComesFirst
  BY DEF Ledger!InductiveInvariant
<1>1. /\ journal' = journal \cup {t} /\ t \notin journal
      /\ intent[s] # Ledger!NoIntent
  BY DEF Ledger!ConsumeFinancialActionIntent, Ledger!IsPending, Ledger!IsNew
<1>2. t \notin journal /\ ~Ledger!IsAdjustment(t)
  BY <1>1, Sources
<1>3. \A acc : Moved(t, acc) \in Int
  <2>1. /\ reward[s] \in Int /\ fee[s] \in Int /\ reward[s] + fee[s] \in Int
        /\ - (reward[s] + fee[s]) \in Int
    BY <1>0, <1>1, PostingMoves
  <2>2. CASE intent[s].action = "creator_payable_full"
    BY <1>0, <1>1, <2>1, <2>2, PostingMoves
  <2>3. CASE intent[s].action = "business_refund_full"
    BY <1>0, <1>1, <2>1, <2>3, PostingMoves
  <2> QED  BY <1>0, <1>1, <2>2, <2>3, PostingMoves
<1>4. \A acc \in Ledger!Account :
        Ledger!Expected(acc)' = Ledger!Expected(acc) + Moved(t, acc)
  BY <1>0, PostingIsExpected
<1> HIDE DEF t
<1> QED  BY <1>1, <1>2, <1>3, <1>4, BalancesStayExplained

\* An adjustment moves both sides of the equation.
LEMMA AdjustmentKeepsBalances ==
  ASSUME Ledger!InductiveInvariant, NEW id \in Adjustments, NEW debit \in Ledger!Account,
         NEW credit \in Ledger!Account, NEW amount \in Amounts,
         Ledger!PostFinanceAdjustment(id, debit, credit, amount)
  PROVE  Ledger!BalancesExplained'
<1> DEFINE t == Ledger!Adjustment(id, debit, credit, amount)
<1>0. Ledger!TypeOK /\ Ledger!FundingComesFirst /\ Ledger!JournalIsTold /\ Ledger!BalancesExplained
  BY DEF Ledger!InductiveInvariant
<1>1. /\ journal' = journal \cup {t} /\ UNCHANGED <<reward, fee, payment, intent>>
      /\ t \notin journal
  BY DEF Ledger!PostFinanceAdjustment, Ledger!IsNew, Ledger!contract
<1>2. t \notin journal /\ Ledger!IsAdjustment(t)
  BY <1>1, Sources
<1>3. \A acc : Moved(t, acc) \in Int
  <2>1. amount \in Int
    BY SlotsAreAssumed DEF Ledger!SlotsAssumption
  <2> QED  BY <2>1, AdjustmentMoves
<1>4. SUFFICES ASSUME NEW acc \in Ledger!Account
               PROVE  Ledger!Balance(journal', acc)
                        = Ledger!Expected(acc)' + Ledger!Balance(Adjusted', acc)
  BY DEF Ledger!BalancesExplained, Adjusted, Ledger!IsAdjustment
<1>5. /\ Ledger!Balance(journal', acc) = Ledger!Balance(journal, acc) + Moved(t, acc)
      /\ Ledger!Balance(Adjusted, acc) \in Int
      /\ Ledger!Balance(Adjusted', acc) = Ledger!Balance(Adjusted, acc) + Moved(t, acc)
  <2> HIDE DEF t
  <2> QED  BY <1>0, <1>1, <1>2, <1>3, BalancesMove
<1>6. Ledger!Expected(acc)' = Ledger!Expected(acc)
  BY <1>0, <1>1, RestIsExpected
<1>7. Ledger!Balance(journal, acc) = Ledger!Expected(acc) + Ledger!Balance(Adjusted, acc)
  BY <1>0 DEF Ledger!BalancesExplained, Adjusted
<1>8. Ledger!Expected(acc) \in Int
  BY <1>0, ExpectedIsCounted
<1> DEFINE x == Ledger!Expected(acc)
           y == Ledger!Balance(Adjusted, acc)
           m == Moved(t, acc)
<1>9. x \in Int /\ y \in Int /\ m \in Int
  BY <1>3, <1>5, <1>8
<1>10. Ledger!Balance(journal', acc) = (x + y) + m
  BY <1>5, <1>7
<1>11. Ledger!Expected(acc)' = x /\ Ledger!Balance(Adjusted', acc) = y + m
  BY <1>5, <1>6
<1> HIDE DEF x, y, m
<1> QED  BY <1>9, <1>10, <1>11

\* Closing a mission moves nothing.
LEMMA ClosingKeepsBalances ==
  ASSUME Ledger!InductiveInvariant, NEW s \in Slots, NEW u \in Creators,
         NEW action \in {"creator_payable_full", "business_refund_full"},
         Ledger!CloseMission(s, u, action)
  PROVE  Ledger!BalancesExplained'
<1>1. journal' = journal
  BY DEF Ledger!CloseMission
<1>2. \A acc \in Ledger!Account : Ledger!Expected(acc)' = Ledger!Expected(acc)
  BY ClosingIsExpected DEF Ledger!InductiveInvariant
<1>3. Ledger!BalancesExplained
  BY DEF Ledger!InductiveInvariant
<1> SUFFICES ASSUME NEW acc \in Ledger!Account
             PROVE  Ledger!Balance(journal', acc)
                      = Ledger!Expected(acc)' + Ledger!Balance(Adjusted', acc)
  BY DEF Ledger!BalancesExplained, Adjusted, Ledger!IsAdjustment
<1>4. Ledger!Balance(journal, acc) = Ledger!Expected(acc) + Ledger!Balance(Adjusted, acc)
  BY <1>3 DEF Ledger!BalancesExplained, Adjusted
<1>5. Adjusted' = Adjusted
  BY <1>1 DEF Adjusted, Ledger!IsAdjustment
<1> QED  BY <1>1, <1>2, <1>4, <1>5

\* The rest of the invariant: what a funding leaves.
LEMMA FundingKeepsRows ==
  ASSUME Ledger!InductiveInvariant, NEW c \in Campaigns, NEW p \in Payments,
         Ledger!RecordCampaignFunding(c, p)
  PROVE  Ledger!TypeOK' /\ Ledger!FundingComesFirst' /\ Ledger!JournalIsTold'
<1> DEFINE D == Ledger!SlotsOf(c)
           a == Ledger!AllocateFifteenPercentFee(Ledger!RewardsOf(c))
<1>0. Ledger!TypeOK /\ Ledger!FundingComesFirst /\ Ledger!JournalIsTold
  BY DEF Ledger!InductiveInvariant
<1>1. /\ c \notin Ledger!Funded /\ Ledger!Funded' = Ledger!Funded \cup {c}
      /\ reward' = reward /\ declaredFee' = declaredFee /\ intent' = intent
      /\ fee' = [s \in Slots |-> IF s \in D THEN a[s] ELSE fee[s]]
      /\ journal' = journal \cup {Ledger!FundingBy(c, p)}
      /\ Ledger!FeeIsDisclosedFee(c) /\ declaredFee[c] > 0
      /\ \A s \in D : a[s] > 0
      /\ payment' = [payment EXCEPT ![c] = p]
      /\ payment'[c] = p /\ \A d \in Campaigns \ {c} : payment'[d] = payment[d]
      /\ \A t \in journal : t.source # Ledger!FundingBy(c, p).source
  BY <1>0, FundedAfter
  DEF Ledger!RecordCampaignFunding, Ledger!contract, Ledger!AmountsArePositive, Ledger!IsNew
<1>2. D \in SUBSET Slots /\ \A s \in Slots : s \in D <=> CampaignOf[s] = c
  BY DEF Ledger!SlotsOf
<1>3. /\ \A s \in D : fee'[s] = a[s]
      /\ \A s \in Slots \ D : fee'[s] = fee[s]
  BY <1>1, <1>2
<1>4. fee' \in [Slots -> Nat]
  <2>1. D \in SUBSET Nat /\ IsFiniteSet(D) /\ Ledger!RewardsOf(c) \in [D -> Nat]
    BY <1>0, SlotsOfCampaign
  <2>2. a \in [D -> Nat]
    BY <2>1, FeeIsSplit
  <2> QED  BY <1>0, <1>1, <2>2 DEF Ledger!TypeOK
<1>5. Ledger!TypeOK'
  <2>1. \A t \in journal' : IsSound(t)
    BY <1>0, <1>1, FundingIsSound, JournalIsSound DEF Ledger!TypeOK
  <2>2. /\ Ledger!LedgerAccounts' \subseteq Ledger!Account'
        /\ \A t \in journal' : /\ t.total \in Nat \ {0}
                               /\ \A credit \in t.credits : credit.amount \in Nat \ {0}
    BY <2>1 DEF IsSound, Ledger!LedgerAccounts, Ledger!Account
  <2>3. /\ reward' \in [Slots -> Rewards] /\ declaredFee' \in [Campaigns -> Nat]
        /\ payment' \in [Campaigns -> Payments \cup {NoPayment}]
        /\ intent' \in [Slots -> Ledger!Closed \cup {Ledger!NoIntent}]
    BY <1>0, <1>1 DEF Ledger!TypeOK
  <2> QED  BY <1>4, <2>2, <2>3 DEF Ledger!TypeOK, Ledger!Closed, Ledger!NoIntent
<1>6. Ledger!FundingComesFirst'
  <2>1. \A d : Ledger!RewardsOf(d)' = Ledger!RewardsOf(d) /\ Ledger!SlotsOf(d)' = Ledger!SlotsOf(d)
    BY <1>1 DEF Ledger!RewardsOf, Ledger!SlotsOf
  <2>2. \A d : Ledger!FeeIsDisclosedFee(d)' <=> Ledger!FeeIsDisclosedFee(d)
    BY <1>1, <2>1 DEF Ledger!FeeIsDisclosedFee
  <2>3. \A s \in Slots : intent'[s] # Ledger!NoIntent => CampaignOf[s] \in Ledger!Funded'
    BY <1>0, <1>1 DEF Ledger!FundingComesFirst
  <2>4. ASSUME NEW d \in Ledger!Funded'
        PROVE  /\ Ledger!FeeIsDisclosedFee(d)' /\ declaredFee'[d] > 0
               /\ \A s \in Ledger!SlotsOf(d) :
                    /\ fee'[s] = Ledger!AllocateFifteenPercentFee(Ledger!RewardsOf(d))[s]
                    /\ fee'[s] > 0
    <3>1. CASE d = c
      BY <1>1, <1>3, <2>2, <3>1
    <3>2. CASE d # c
      <4>1. d \in Ledger!Funded
        BY <1>1, <3>2
      <4>2. \A s \in Ledger!SlotsOf(d) : fee'[s] = fee[s]
        BY <1>2, <1>3, <3>2 DEF Ledger!SlotsOf
      <4> QED  BY <1>0, <1>1, <2>2, <4>1, <4>2 DEF Ledger!FundingComesFirst
    <3> QED  BY <3>1, <3>2
  <2>5. \A s \in Slots : CampaignOf[s] \notin Ledger!Funded' => fee'[s] = 0
    BY <1>0, <1>1, <1>2, <1>3 DEF Ledger!FundingComesFirst
  <2>6. \A d \in Ledger!Funded' : \A s \in Ledger!SlotsOf(d)' :
          /\ fee'[s] = (Ledger!AllocateFifteenPercentFee(Ledger!RewardsOf(d)))'[s]
          /\ fee'[s] > 0
    <3>1. \A d : (Ledger!AllocateFifteenPercentFee(Ledger!RewardsOf(d)))'
                   = Ledger!AllocateFifteenPercentFee(Ledger!RewardsOf(d))
      BY <2>1
    <3> QED  BY <2>1, <2>4, <3>1
  <2> HIDE DEF D, a
  <2> QED  BY <2>3, <2>4, <2>5, <2>6 DEF Ledger!FundingComesFirst, Ledger!NoIntent
<1>7. Ledger!JournalIsTold'
  <2>1. /\ Ledger!Funding(c)' = Ledger!FundingBy(c, p)
        /\ \A d \in Ledger!Funded : Ledger!Funding(d)' = Ledger!Funding(d)
    BY <1>1, FundingStays DEF Ledger!Funded
  <2>2. \A s \in Slots : Ledger!IsPosted(s)' <=> Ledger!IsPosted(s)
    BY <1>1 DEF Ledger!IsPosted, Ledger!NoIntent
  <2>3. ASSUME NEW s \in Slots, Ledger!IsPosted(s)  PROVE Ledger!Posting(s)' = Ledger!Posting(s)
    <3>1. CampaignOf[s] # c
      BY <1>0, <1>1, <2>3 DEF Ledger!FundingComesFirst, Ledger!IsPosted
    <3>2. fee'[s] = fee[s]
      BY <1>2, <1>3, <3>1
    <3> QED  BY <1>1, <3>2, PostingStays
  <2>4. Ledger!IsFiniteSet(journal')
    <3>1. IsFiniteSet(journal)
      BY <1>0, LedgerCounts DEF Ledger!JournalIsTold
    <3> QED  BY <1>1, <3>1, FS_AddElement, LedgerCounts
  <2>5. ASSUME NEW t \in journal'
        PROVE  \/ \E d \in Ledger!Funded' : t = Ledger!Funding(d)'
               \/ \E s \in Slots : Ledger!IsPosted(s)' /\ t = Ledger!Posting(s)'
               \/ \E id \in Adjustments, debit, credit \in Ledger!Account, amount \in Amounts :
                    t = Ledger!Adjustment(id, debit, credit, amount)
    <3>1. CASE t = Ledger!FundingBy(c, p)
      BY <1>1, <2>1, <3>1
    <3>2. CASE t \in journal
      BY <1>0, <1>1, <2>1, <2>2, <2>3, <3>2 DEF Ledger!JournalIsTold
    <3> QED  BY <1>1, <3>1, <3>2
  <2>6. \A d \in Ledger!Funded' : Ledger!Funding(d)' \in journal'
    BY <1>0, <1>1, <2>1 DEF Ledger!JournalIsTold
  <2>7. \A s \in Slots : Ledger!IsPosted(s)' => Ledger!Posting(s)' \in journal'
    BY <1>0, <1>1, <2>2, <2>3 DEF Ledger!JournalIsTold
  <2>8. \A t, u \in journal' : t.source = u.source => t = u
    BY <1>0, <1>1 DEF Ledger!JournalIsTold
  <2> HIDE DEF D, a
  <2> QED  BY <2>4, <2>5, <2>6, <2>7, <2>8 DEF Ledger!JournalIsTold, Ledger!Account,
              Ledger!Adjustment, Ledger!Transaction, Ledger!Credit
<1> QED  BY <1>5, <1>6, <1>7

\* What a posting leaves.
LEMMA PostingKeepsRows ==
  ASSUME Ledger!InductiveInvariant, NEW s \in Slots, Ledger!ConsumeFinancialActionIntent(s)
  PROVE  Ledger!TypeOK' /\ Ledger!FundingComesFirst' /\ Ledger!JournalIsTold'
<1>0. Ledger!TypeOK /\ Ledger!FundingComesFirst /\ Ledger!JournalIsTold
  BY DEF Ledger!InductiveInvariant
<1>1. /\ intent[s] # Ledger!NoIntent /\ ~intent[s].posted
      /\ payment' = payment /\ Ledger!Funded' = Ledger!Funded /\ reward' = reward /\ declaredFee' = declaredFee /\ fee' = fee
      /\ intent' = [intent EXCEPT ![s].posted = TRUE]
      /\ journal' = journal \cup {Ledger!Posting(s)}
      /\ \A t \in journal : t.source # Ledger!Posting(s).source
  BY DEF Ledger!IsNew, Ledger!ConsumeFinancialActionIntent, Ledger!IsPending, Ledger!contract, Ledger!Funded
<1>2. intent[s] \in Ledger!Closed
  BY <1>0, <1>1 DEF Ledger!TypeOK
<1>3. intent'[s] = [action |-> intent[s].action, creator |-> intent[s].creator, posted |-> TRUE]
  BY <1>0, <1>1, <1>2 DEF Ledger!TypeOK, Ledger!Closed
<1>4. \A t \in Slots \ {s} : intent'[t] = intent[t]
  BY <1>0, <1>1 DEF Ledger!TypeOK
<1>5. /\ intent'[s] # Ledger!NoIntent /\ intent'[s].posted
      /\ intent'[s].action = intent[s].action /\ intent'[s].creator = intent[s].creator
  BY <1>3 DEF Ledger!NoIntent
<1>6. \A t \in Slots : (intent'[t] # Ledger!NoIntent) <=> (intent[t] # Ledger!NoIntent)
  BY <1>1, <1>4, <1>5
<1>7. Ledger!TypeOK'
  <2>1. fee[s] > 0
    BY <1>0, <1>1 DEF Ledger!FundingComesFirst, Ledger!SlotsOf
  <2>2. \A t \in journal' : IsSound(t)
    BY <1>0, <1>1, <2>1, PostingIsSound, JournalIsSound DEF Ledger!TypeOK
  <2>3. /\ Ledger!LedgerAccounts' \subseteq Ledger!Account'
        /\ \A t \in journal' : /\ t.total \in Nat \ {0}
                               /\ \A credit \in t.credits : credit.amount \in Nat \ {0}
    BY <2>2 DEF IsSound, Ledger!LedgerAccounts, Ledger!Account
  <2>4. intent' \in [Slots -> Ledger!Closed \cup {Ledger!NoIntent}]
    <3>1. intent'[s] \in Ledger!Closed
      BY <1>2, <1>3 DEF Ledger!Closed
    <3> QED  BY <1>0, <1>1, <3>1 DEF Ledger!TypeOK
  <2>5. /\ reward' \in [Slots -> Rewards] /\ declaredFee' \in [Campaigns -> Nat]
        /\ payment' \in [Campaigns -> Payments \cup {NoPayment}] /\ fee' \in [Slots -> Nat]
    BY <1>0, <1>1 DEF Ledger!TypeOK
  <2> QED  BY <2>3, <2>4, <2>5 DEF Ledger!TypeOK, Ledger!Closed, Ledger!NoIntent
<1>8. Ledger!FundingComesFirst'
  BY <1>0, <1>1, <1>6 DEF Ledger!FundingComesFirst, Ledger!NoIntent, Ledger!FeeIsDisclosedFee,
     Ledger!RewardsOf, Ledger!SlotsOf
<1>9. Ledger!JournalIsTold'
  <2>1. \A d : Ledger!Funding(d)' = Ledger!Funding(d)
    BY <1>1, FundingStays
  <2>2. \A t \in Slots : Ledger!IsPosted(t)' <=> (Ledger!IsPosted(t) \/ t = s)
    BY <1>1, <1>4, <1>5 DEF Ledger!IsPosted, Ledger!NoIntent
  <2>3. \A t \in Slots : Ledger!Posting(t)' = Ledger!Posting(t)
    <3>1. \A t \in Slots : /\ intent'[t].action = intent[t].action
                           /\ intent'[t].creator = intent[t].creator
      BY <1>4, <1>5
    <3> QED  BY <1>1, <3>1, PostingStays
  <2>4. Ledger!IsFiniteSet(journal')
    <3>1. IsFiniteSet(journal)
      BY <1>0, LedgerCounts DEF Ledger!JournalIsTold
    <3> QED  BY <1>1, <3>1, FS_AddElement, LedgerCounts
  <2>5. ASSUME NEW t \in journal'
        PROVE  \/ \E d \in Ledger!Funded' : t = Ledger!Funding(d)'
               \/ \E x \in Slots : Ledger!IsPosted(x)' /\ t = Ledger!Posting(x)'
               \/ \E id \in Adjustments, debit, credit \in Ledger!Account, amount \in Amounts :
                    t = Ledger!Adjustment(id, debit, credit, amount)
    <3>1. CASE t = Ledger!Posting(s)
      BY <2>2, <2>3, <3>1
    <3>2. CASE t \in journal
      BY <1>0, <1>1, <2>1, <2>2, <2>3, <3>2 DEF Ledger!JournalIsTold
    <3> QED  BY <1>1, <3>1, <3>2
  <2>6. \A d \in Ledger!Funded' : Ledger!Funding(d)' \in journal'
    BY <1>0, <1>1, <2>1 DEF Ledger!JournalIsTold
  <2>7. \A t \in Slots : Ledger!IsPosted(t)' => Ledger!Posting(t)' \in journal'
    BY <1>0, <1>1, <2>2, <2>3 DEF Ledger!JournalIsTold
  <2>8. \A t, u \in journal' : t.source = u.source => t = u
    BY <1>0, <1>1 DEF Ledger!JournalIsTold
  <2> QED  BY <2>4, <2>5, <2>6, <2>7, <2>8 DEF Ledger!JournalIsTold, Ledger!Account,
              Ledger!Adjustment, Ledger!Transaction, Ledger!Credit
<1> QED  BY <1>7, <1>8, <1>9

\* What closing a mission leaves.
LEMMA ClosingKeepsRows ==
  ASSUME Ledger!InductiveInvariant, NEW s \in Slots, NEW u \in Creators,
         NEW action \in {"creator_payable_full", "business_refund_full"},
         Ledger!CloseMission(s, u, action)
  PROVE  Ledger!TypeOK' /\ Ledger!FundingComesFirst' /\ Ledger!JournalIsTold'
<1>0. Ledger!TypeOK /\ Ledger!FundingComesFirst /\ Ledger!JournalIsTold
  BY DEF Ledger!InductiveInvariant
<1>1. /\ intent[s] = Ledger!NoIntent /\ CampaignOf[s] \in Ledger!Funded
      /\ payment' = payment /\ Ledger!Funded' = Ledger!Funded /\ reward' = reward /\ declaredFee' = declaredFee /\ fee' = fee
      /\ intent' = [intent EXCEPT ![s] = [action |-> action, creator |-> u, posted |-> FALSE]]
      /\ journal' = journal
  BY DEF Ledger!CloseMission, Ledger!contract, Ledger!Funded
<1>2. /\ intent'[s] = [action |-> action, creator |-> u, posted |-> FALSE]
      /\ \A t \in Slots \ {s} : intent'[t] = intent[t]
  BY <1>0, <1>1 DEF Ledger!TypeOK
<1>3. Ledger!TypeOK'
  <2>1. intent' \in [Slots -> Ledger!Closed \cup {Ledger!NoIntent}]
    <3>1. [action |-> action, creator |-> u, posted |-> FALSE] \in Ledger!Closed
      BY DEF Ledger!Closed
    <3> QED  BY <1>0, <1>1, <3>1 DEF Ledger!TypeOK
  <2>2. /\ reward' \in [Slots -> Rewards] /\ declaredFee' \in [Campaigns -> Nat]
        /\ payment' \in [Campaigns -> Payments \cup {NoPayment}] /\ fee' \in [Slots -> Nat]
        /\ Ledger!LedgerAccounts' \subseteq Ledger!Account'
        /\ \A t \in journal' : /\ t.total \in Nat \ {0}
                               /\ \A credit \in t.credits : credit.amount \in Nat \ {0}
    BY <1>0, <1>1 DEF Ledger!TypeOK, Ledger!LedgerAccounts, Ledger!Account
  <2> QED  BY <2>1, <2>2 DEF Ledger!TypeOK, Ledger!Closed, Ledger!NoIntent
<1>4. Ledger!FundingComesFirst'
  BY <1>0, <1>1, <1>2 DEF Ledger!FundingComesFirst, Ledger!NoIntent, Ledger!FeeIsDisclosedFee,
     Ledger!RewardsOf, Ledger!SlotsOf
<1>5. Ledger!JournalIsTold'
  <2>1. \A d : Ledger!Funding(d)' = Ledger!Funding(d)
    BY <1>1, FundingStays
  <2>2. \A t \in Slots : /\ Ledger!IsPosted(t)' <=> Ledger!IsPosted(t)
                         /\ Ledger!IsPosted(t) => t # s
    BY <1>1, <1>2 DEF Ledger!IsPosted, Ledger!NoIntent
  <2>3. \A t \in Slots : Ledger!IsPosted(t) => Ledger!Posting(t)' = Ledger!Posting(t)
    BY <1>1, <1>2, <2>2, PostingStays
  <2> QED  BY <1>0, <1>1, <2>1, <2>2, <2>3 DEF Ledger!JournalIsTold, Ledger!Account,
              Ledger!Adjustment, Ledger!Transaction, Ledger!Credit
<1> QED  BY <1>3, <1>4, <1>5

\* What an adjustment leaves.
LEMMA AdjustmentKeepsRows ==
  ASSUME Ledger!InductiveInvariant, NEW id \in Adjustments, NEW debit \in Ledger!Account,
         NEW credit \in Ledger!Account, NEW amount \in Amounts,
         Ledger!PostFinanceAdjustment(id, debit, credit, amount)
  PROVE  Ledger!TypeOK' /\ Ledger!FundingComesFirst' /\ Ledger!JournalIsTold'
<1> DEFINE new == Ledger!Adjustment(id, debit, credit, amount)
<1>0. Ledger!TypeOK /\ Ledger!FundingComesFirst /\ Ledger!JournalIsTold
  BY DEF Ledger!InductiveInvariant
<1>1. /\ payment' = payment /\ Ledger!Funded' = Ledger!Funded /\ reward' = reward /\ declaredFee' = declaredFee /\ fee' = fee
      /\ intent' = intent /\ journal' = journal \cup {new}
      /\ \A t \in journal : t.source # new.source
  BY DEF Ledger!PostFinanceAdjustment, Ledger!IsNew, Ledger!contract, Ledger!Funded
<1>2. Ledger!TypeOK'
  <2>1. \A t \in journal' : IsSound(t)
    BY <1>0, <1>1, AdjustmentIsSound, JournalIsSound DEF Ledger!TypeOK
  <2>2. /\ Ledger!LedgerAccounts' \subseteq Ledger!Account'
        /\ \A t \in journal' : /\ t.total \in Nat \ {0}
                               /\ \A credit_1 \in t.credits : credit_1.amount \in Nat \ {0}
    BY <2>1 DEF IsSound, Ledger!LedgerAccounts, Ledger!Account
  <2>3. /\ reward' \in [Slots -> Rewards] /\ declaredFee' \in [Campaigns -> Nat]
        /\ payment' \in [Campaigns -> Payments \cup {NoPayment}] /\ fee' \in [Slots -> Nat]
        /\ intent' \in [Slots -> Ledger!Closed \cup {Ledger!NoIntent}]
    BY <1>0, <1>1 DEF Ledger!TypeOK
  <2> HIDE DEF new
  <2> QED  BY <2>2, <2>3 DEF Ledger!TypeOK, Ledger!Closed, Ledger!NoIntent
<1>3. Ledger!FundingComesFirst'
  BY <1>0, <1>1 DEF Ledger!FundingComesFirst, Ledger!NoIntent, Ledger!FeeIsDisclosedFee,
     Ledger!RewardsOf, Ledger!SlotsOf
<1>4. Ledger!JournalIsTold'
  <2>1. \A d : Ledger!Funding(d)' = Ledger!Funding(d)
    BY <1>1, FundingStays
  <2>2. \A t \in Slots : /\ Ledger!IsPosted(t)' <=> Ledger!IsPosted(t)
                         /\ Ledger!Posting(t)' = Ledger!Posting(t)
    BY <1>1, PostingStays DEF Ledger!IsPosted, Ledger!NoIntent
  <2>3. Ledger!IsFiniteSet(journal')
    <3>1. IsFiniteSet(journal)
      BY <1>0, LedgerCounts DEF Ledger!JournalIsTold
    <3> QED  BY <1>1, <3>1, FS_AddElement, LedgerCounts
  <2>4. ASSUME NEW t \in journal'
        PROVE  \/ \E d \in Ledger!Funded' : t = Ledger!Funding(d)'
               \/ \E x \in Slots : Ledger!IsPosted(x)' /\ t = Ledger!Posting(x)'
               \/ \E i \in Adjustments, from, to \in Ledger!Account, n \in Amounts :
                    t = Ledger!Adjustment(i, from, to, n)
    <3>1. CASE t = new
      BY <3>1
    <3>2. CASE t \in journal
      BY <1>0, <1>1, <2>1, <2>2, <3>2 DEF Ledger!JournalIsTold
    <3> QED  BY <1>1, <3>1, <3>2
  <2>5. \A d \in Ledger!Funded' : Ledger!Funding(d)' \in journal'
    BY <1>0, <1>1, <2>1 DEF Ledger!JournalIsTold
  <2>6. \A t \in Slots : Ledger!IsPosted(t)' => Ledger!Posting(t)' \in journal'
    BY <1>0, <1>1, <2>2 DEF Ledger!JournalIsTold
  <2>7. \A t, u \in journal' : t.source = u.source => t = u
    <3> HIDE DEF new
    <3> QED  BY <1>0, <1>1 DEF Ledger!JournalIsTold
  <2> HIDE DEF new
  <2> QED  BY <2>3, <2>4, <2>5, <2>6, <2>7 DEF Ledger!JournalIsTold, Ledger!Account,
              Ledger!Adjustment, Ledger!Transaction, Ledger!Credit
<1> QED  BY <1>2, <1>3, <1>4

-----------------------------------------------------------------------------
(* A step of the ledger.                                                   *)
LEMMA LedgerStep ==
  ASSUME Ledger!InductiveInvariant, Ledger!Next
  PROVE  Ledger!InductiveInvariant'
<1>0. Ledger!TypeOK
  BY DEF Ledger!InductiveInvariant
<1>1. ASSUME NEW c \in Campaigns, NEW p \in Payments, Ledger!RecordCampaignFunding(c, p)
      PROVE  Ledger!InductiveInvariant'
  BY <1>1, FundingKeepsRows, FundingKeepsBalances DEF Ledger!InductiveInvariant
<1>2. ASSUME NEW s \in Slots, NEW u \in Creators,
             NEW action \in {"creator_payable_full", "business_refund_full"},
             Ledger!CloseMission(s, u, action)
      PROVE  Ledger!InductiveInvariant'
  BY <1>2, ClosingKeepsRows, ClosingKeepsBalances DEF Ledger!InductiveInvariant
<1>3. ASSUME NEW s \in Slots, Ledger!ConsumeFinancialActionIntent(s)
      PROVE  Ledger!InductiveInvariant'
  BY <1>3, PostingKeepsRows, PostingKeepsBalances DEF Ledger!InductiveInvariant
<1>4. ASSUME NEW id \in Adjustments, NEW debit \in Ledger!LedgerAccounts,
             NEW credit \in Ledger!LedgerAccounts, NEW amount \in Amounts,
             Ledger!PostFinanceAdjustment(id, debit, credit, amount)
      PROVE  Ledger!InductiveInvariant'
  <2>1. debit \in Ledger!Account /\ credit \in Ledger!Account
    BY <1>0 DEF Ledger!TypeOK
  <2> QED  BY <1>4, <2>1, AdjustmentKeepsRows, AdjustmentKeepsBalances
              DEF Ledger!InductiveInvariant
<1>5. QED  BY <1>1, <1>2, <1>3, <1>4 DEF Ledger!Next

\* A step of something else.
LEMMA LedgerRests ==
  ASSUME Ledger!InductiveInvariant, UNCHANGED Ledger!vars
  PROVE  Ledger!InductiveInvariant'
<1>1. /\ reward' = reward /\ declaredFee' = declaredFee /\ payment' = payment /\ Ledger!Funded' = Ledger!Funded /\ fee' = fee
      /\ intent' = intent /\ journal' = journal
  BY DEF Ledger!vars, Ledger!contract, Ledger!Funded
<1>0. Ledger!TypeOK /\ Ledger!FundingComesFirst /\ Ledger!JournalIsTold /\ Ledger!BalancesExplained
  BY DEF Ledger!InductiveInvariant
<1>2. Ledger!TypeOK'
  BY <1>0, <1>1 DEF Ledger!TypeOK, Ledger!LedgerAccounts, Ledger!Account, Ledger!Closed,
     Ledger!NoIntent
<1>3. Ledger!FundingComesFirst'
  BY <1>0, <1>1 DEF Ledger!FundingComesFirst, Ledger!NoIntent, Ledger!FeeIsDisclosedFee,
     Ledger!RewardsOf, Ledger!SlotsOf
<1>4. Ledger!JournalIsTold'
  <2>1. \A d : Ledger!Funding(d)' = Ledger!Funding(d)
    BY <1>1, FundingStays
  <2>2. \A t \in Slots : /\ Ledger!IsPosted(t)' <=> Ledger!IsPosted(t)
                         /\ Ledger!Posting(t)' = Ledger!Posting(t)
    BY <1>1, PostingStays DEF Ledger!IsPosted, Ledger!NoIntent
  <2> QED  BY <1>0, <1>1, <2>1, <2>2 DEF Ledger!JournalIsTold, Ledger!Account,
              Ledger!Adjustment, Ledger!Transaction, Ledger!Credit
<1>5. Ledger!BalancesExplained'
  <2>1. \A acc \in Ledger!Account : Ledger!Expected(acc)' = Ledger!Expected(acc)
    BY <1>0, <1>1, RestIsExpected
  <2> SUFFICES ASSUME NEW acc \in Ledger!Account
               PROVE  Ledger!Balance(journal', acc)
                        = Ledger!Expected(acc)' + Ledger!Balance(Adjusted', acc)
    BY DEF Ledger!BalancesExplained, Adjusted, Ledger!IsAdjustment
  <2>2. Ledger!Balance(journal, acc) = Ledger!Expected(acc) + Ledger!Balance(Adjusted, acc)
    BY <1>0 DEF Ledger!BalancesExplained, Adjusted
  <2>3. Adjusted' = Adjusted
    BY <1>1 DEF Adjusted, Ledger!IsAdjustment
  <2> QED  BY <1>1, <2>1, <2>2, <2>3
<1> QED  BY <1>2, <1>3, <1>4, <1>5 DEF Ledger!InductiveInvariant

-----------------------------------------------------------------------------
(* The ledger alone, and the ledger as the runs check it.                  *)
LEMMA PickedLedgerStep ==
  ASSUME Ledger!InductiveInvariant, [MCNext]_<<store, vars, ledgerRows>>
  PROVE  Ledger!InductiveInvariant'
<1>1. CASE Ledger!Next
  BY <1>1, LedgerStep
<1>2. CASE UNCHANGED Ledger!vars
  BY <1>2, LedgerRests
<1>3. Ledger!Next \/ UNCHANGED Ledger!vars
  BY DEF MCNext, Ledger!Next, ledgerRows, Ledger!vars, Ledger!contract
<1> QED  BY <1>1, <1>2, <1>3

\* The inductive invariant holds: the types, what comes before what, the journal
\* told by the other rows, and the balances.
THEOREM LedgerInvariance ==
  /\ Ledger!Spec => []Ledger!InductiveInvariant
  /\ MCSpec => []Ledger!InductiveInvariant
<1>1. Ledger!InductiveInvariant /\ [Ledger!Next]_(Ledger!vars) => Ledger!InductiveInvariant'
  BY LedgerStep, LedgerRests
<1>2. Ledger!InductiveInvariant /\ [MCNext]_<<store, vars, ledgerRows>>
        => Ledger!InductiveInvariant'
  BY PickedLedgerStep
<1>3. MCInit => Ledger!Init
  BY DEF MCInit
<1> QED  BY <1>1, <1>2, <1>3, LedgerBegins, PTL DEF MCSpec, Ledger!Spec

\* BalancesExplained of ledger-store.ts: apart from adjustments every account
\* holds exactly what the missions say, for any campaigns, slots and rewards.
THEOREM BalancesStayAccounted ==
  /\ Ledger!Spec => []BalancesExplained
  /\ MCSpec => []BalancesExplained
<1>1. Ledger!InductiveInvariant => BalancesExplained
  BY DEF Ledger!InductiveInvariant, BalancesExplained
<1> QED  BY <1>1, LedgerInvariance, PTL

\* FeeIsAllocated of allocateFifteenPercentFee: the fee is split over any number
\* of slots without loss, and is never irreconcilable.
THEOREM FeeStaysAllocated ==
  /\ Ledger!Spec => []FeeIsAllocated
  /\ MCSpec => []FeeIsAllocated
<1>1. Ledger!InductiveInvariant => FeeIsAllocated
  BY FeeIsReconciled DEF Ledger!InductiveInvariant, FeeIsAllocated
<1> QED  BY <1>1, LedgerInvariance, PTL

(* The run: a behaviour of either store is one of both specifications, so  *)
(* what is proved of each holds of the two together.                       *)
THEOREM StoresAreBoth == MCSpec => Spec /\ Ledger!Spec
<1>1. MCInit => Init /\ Ledger!Init
  BY DEF MCInit
<1>2. [MCNext]_<<store, vars, ledgerRows>> => [Next]_vars /\ [Ledger!Next]_(Ledger!vars)
  BY DEF MCNext, ledgerRows, Ledger!vars, Ledger!contract, Ledger!Next
<1> QED
  BY <1>1, <1>2, PTL DEF MCSpec, Spec, Ledger!Spec
==============================================================================
