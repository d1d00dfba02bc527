---------------------------- MODULE MobileSession ----------------------------
(***************************************************************************)
(* The session of one device (src/apps/mobile/lib): sign-in through the    *)
(* system browser, restoring at the start of the app, choosing a mode and  *)
(* a workspace, signing out.  They are asynchronous functions over shared  *)
(* state: at every await another of them may run, the app may be killed,   *)
(* and the browser may return a callback of an earlier attempt.  A write   *)
(* and what its function does right after it are one step.                 *)
(*                                                                         *)
(* The shipped runtime has no identity provider configured and ends every  *)
(* sign-in at once (auth-orchestration-runtime.ts:45); this is the         *)
(* orchestrator with one, as its tests run it.  SecureStore never fails.   *)
(***************************************************************************)
EXTENDS Naturals, FiniteSets

CONSTANTS
  MaxSignIns,   \* sign-ins that may begin (bound)
  Workspaces,   \* business workspaces
  Accesses      \* what the server may grant: workspaces, "creator", "venue_staff"

\* What the constants must be.
AccessAssumption ==
  /\ MaxSignIns \in Nat
  /\ \A access \in Accesses :
        access # {} /\ access \subseteq Workspaces \cup {"creator", "venue_staff"}

VARIABLES
  begun,        \* sign-ins begun; they number their states, codes and sessions
  transaction,  \* the pending OIDC transaction in protected storage (0: none)
  redeemed,     \* <<sign-in, code>>: codes the token endpoint was given
  signIn,       \* MobileAuthOrchestrator.signIn
  restore,      \* restoreAndRefreshMobileSession
  write,        \* the save of selectMode or chooseWorkspace under way (bound: one)
  signOut,      \* a signOut is between its call and the clearing of the storage
  stored,       \* the session in protected storage
  memory        \* the app's MobileAuthState

vars == <<begun, transaction, redeemed, signIn, restore, write, signOut, stored, memory>>

SignIns == 1 .. MaxSignIns
EmptySession == [id |-> 0, access |-> {}, mode |-> "creator", workspace |-> "none"]

(* availableModes.                                                         *)
Modes(access) ==
  (IF "creator" \in access THEN {"creator"} ELSE {})
    \cup (IF access \cap Workspaces # {} THEN {"business"} ELSE {})
    \cup (IF "venue_staff" \in access THEN {"venue_staff"} ELSE {})

FirstMode(access) ==
  CASE "creator"  \in Modes(access) -> "creator"
    [] "business" \in Modes(access) /\ "creator" \notin Modes(access) -> "business"
    [] OTHER -> "venue_staff"

Session == [id : {0} \cup SignIns, access : {{}} \cup Accesses,
            mode : {"creator", "business", "venue_staff"},
            workspace : Workspaces \cup {"none"}]

Phase == {"restoring", "anonymous", "expired", "blocked", "logout", "authenticated"}

State(phase) == [phase |-> phase, session |-> EmptySession]
SignedIn(s)  == [phase |-> "authenticated", session |-> s]

NoWrite  == [session |-> EmptySession, publish |-> FALSE]
NoSignIn == [pc |-> "idle", mode |-> "creator", code |-> 0, access |-> {}]

TypeOK ==
  /\ begun       \in 0 .. MaxSignIns
  /\ transaction \in 0 .. MaxSignIns
  /\ redeemed    \subseteq SignIns \X SignIns
  /\ signIn      \in [pc : {"idle", "prepare", "browser", "callback", "exchange",
                            "bootstrap", "save"},
                      mode : {"creator", "business"}, code : {0} \cup SignIns,
                      access : {{}} \cup Accesses]
  /\ restore     \in [pc : {"load", "refresh", "save", "drop", "done"}, session : Session]
  /\ write       \in [session : Session, publish : BOOLEAN]
  /\ signOut     \in BOOLEAN
  /\ stored      \in Session
  /\ memory      \in [phase : Phase, session : Session]

Init ==
  /\ begun = 0 /\ transaction = 0 /\ redeemed = {}
  /\ signIn  = NoSignIn
  /\ restore = [pc |-> "load", session |-> EmptySession]
  /\ write   = NoWrite
  /\ signOut = FALSE
  /\ stored  = EmptySession
  /\ memory  = State("restoring")

-----------------------------------------------------------------------------
(* signIn.  A second call while one is active is ignored.                  *)

EndSignIn == signIn' = NoSignIn

Proceed(pc) == signIn' = [signIn EXCEPT !.pc = pc]

BeginSignIn(mode) ==
  /\ signIn.pc = "idle"
  /\ begun < MaxSignIns
  /\ begun' = begun + 1
  /\ signIn' = [NoSignIn EXCEPT !.pc = "prepare", !.mode = mode]
  /\ UNCHANGED <<transaction, redeemed, restore, write, signOut,
                 stored, memory>>

\* createOidcAuthorizationRequest, and the save of its transaction.
SaveTransaction ==
  /\ signIn.pc = "prepare"
  /\ transaction' = begun
  /\ Proceed("browser")
  /\ UNCHANGED <<begun, redeemed, restore, write, signOut, stored, memory>>

\* The browser was closed or failed.
BrowserGivesUp ==
  /\ signIn.pc = "browser"
  /\ transaction' = 0
  /\ EndSignIn
  /\ UNCHANGED <<begun, redeemed, restore, write, signOut, stored, memory>>

\* The browser returns a callback, of this attempt or of an earlier one.
BrowserReturns(n) ==
  /\ signIn.pc = "browser"
  /\ n \in 1 .. begun
  /\ signIn' = [signIn EXCEPT !.pc = "callback", !.code = n]
  /\ UNCHANGED <<begun, transaction, redeemed, restore, write, signOut,
                 stored, memory>>

\* Mutant: takes the pending transaction, whatever state came back.
TakesPending(n) == transaction # 0

\* SerializedOidcStore.consume: the pending transaction, if it has this state.
Matches(n) == transaction = n

\* consumeOidcCallback.  A transaction past its ten minutes is consumed and
\* refused, as are a provider's error and a callback without a code.
ConsumeCallback ==
  /\ signIn.pc = "callback"
  /\ IF Matches(signIn.code)
       THEN transaction' = 0 /\ (Proceed("exchange") \/ EndSignIn)
       ELSE EndSignIn /\ UNCHANGED transaction
  /\ UNCHANGED <<begun, redeemed, restore, write, signOut, stored, memory>>

\* exchangeCode, and the nonce of the id token against the transaction's.
ExchangeCode ==
  /\ signIn.pc = "exchange"
  /\ redeemed' = redeemed \cup {<<begun, signIn.code>>}
  /\ Proceed("bootstrap") \/ EndSignIn
  /\ UNCHANGED <<begun, transaction, restore, write, signOut, stored, memory>>

\* The server opens the session asked for, with what the account may do now;
\* its answer may be lost or refused.
BootstrapSession ==
  /\ signIn.pc = "bootstrap"
  /\ \/ \E access \in Accesses : signIn' = [signIn EXCEPT !.pc = "save", !.access = access]
     \/ EndSignIn
  /\ UNCHANGED <<begun, transaction, redeemed, restore, write, signOut,
                 stored, memory>>

\* runtimeSession: the preferred mode and workspace, if they are granted.
RuntimeSession(id, access, mode, workspace) ==
  [id |-> id, access |-> access,
   mode |-> IF mode \in Modes(access) THEN mode ELSE FirstMode(access),
   workspace |->
     IF workspace \in access \cap Workspaces THEN workspace
     ELSE IF Cardinality(access \cap Workspaces) = 1
       THEN CHOOSE w \in Workspaces : w \in access
       ELSE "none"]

\* completeOidcMobileSession saves the session, beginSignIn shows it.
FinishSignIn ==
  /\ signIn.pc = "save"
  /\ LET s == RuntimeSession(begun, signIn.access, signIn.mode, "none")
     IN  stored' = s /\ memory' = SignedIn(s)
  /\ EndSignIn
  /\ UNCHANGED <<begun, transaction, redeemed, restore, write, signOut>>

-----------------------------------------------------------------------------
(* restoreAndRefreshMobileSession, once at the start of the app.           *)

RestoreEnds == restore' = [pc |-> "done", session |-> EmptySession]

RestoreLoad ==
  /\ restore.pc = "load"
  /\ IF stored = EmptySession
       THEN RestoreEnds /\ memory' = State("anonymous")
       ELSE /\ \E pc \in {"refresh", "drop"} :
                 restore' = [pc |-> pc, session |-> stored]
            /\ UNCHANGED memory
  /\ UNCHANGED <<begun, transaction, redeemed, signIn, write, signOut, stored>>

\* The token endpoint and the server refresh the session, or refuse to.
RestoreRefresh ==
  /\ restore.pc = "refresh"
  /\ LET s == restore.session IN
       \/ \E access \in Accesses :
            restore' = [pc |-> "save",
                        session |-> RuntimeSession(s.id, access, s.mode, s.workspace)]
       \/ restore' = [restore EXCEPT !.pc = "drop"]
  /\ UNCHANGED <<begun, transaction, redeemed, signIn, write, signOut,
                 stored, memory>>

RestoreSave ==
  /\ restore.pc = "save"
  /\ stored' = restore.session
  /\ memory' = SignedIn(restore.session)
  /\ RestoreEnds
  /\ UNCHANGED <<begun, transaction, redeemed, signIn, write, signOut>>

\* Expired, blocked, without a credential, or refused: storage is cleared.
RestoreDrop ==
  /\ restore.pc = "drop"
  /\ stored' = EmptySession
  /\ \E phase \in {"anonymous", "expired", "blocked"} : memory' = State(phase)
  /\ RestoreEnds
  /\ UNCHANGED <<begun, transaction, redeemed, signIn, write, signOut>>

-----------------------------------------------------------------------------
(* selectMode shows the mode and saves it, chooseWorkspace saves the       *)
(* workspace and shows it; both from the state they were called in.        *)

SelectMode(mode) ==
  /\ memory.phase = "authenticated"
  /\ mode \in Modes(memory.session.access)
  /\ write = NoWrite
  /\ LET s == [memory.session EXCEPT !.mode = mode] IN
       /\ memory' = SignedIn(s)
       /\ write' = [session |-> s, publish |-> FALSE]
  /\ UNCHANGED <<begun, transaction, redeemed, signIn, restore, signOut, stored>>

ChooseWorkspace(w) ==
  /\ memory.phase = "authenticated"
  /\ w \in memory.session.access
  /\ write = NoWrite
  /\ LET s == [memory.session EXCEPT !.mode = "business", !.workspace = w]
     IN  write' = [session |-> s, publish |-> TRUE]
  /\ UNCHANGED <<begun, transaction, redeemed, signIn, restore, signOut,
                 stored, memory>>

WriteLands ==
  /\ write # NoWrite
  /\ write' = NoWrite
  /\ stored' = write.session
  /\ memory' = IF write.publish THEN SignedIn(write.session) ELSE memory
  /\ UNCHANGED <<begun, transaction, redeemed, signIn, restore, signOut>>

-----------------------------------------------------------------------------
(* signOut.                                                                *)

\* apiAuthorizationContextForSession: who may speak to the API.
HasApiContext(s) ==
  \/ s.mode = "creator" /\ "creator" \in s.access
  \/ s.mode = "business" /\ s.workspace \in s.access

\* Without such a context the call throws before it revokes or clears anything.
BeginSignOut ==
  /\ ~signOut
  /\ IF memory.phase = "authenticated" /\ ~HasApiContext(memory.session)
       THEN memory' = State("logout") /\ UNCHANGED signOut
       ELSE signOut' = TRUE /\ UNCHANGED memory
  /\ UNCHANGED <<begun, transaction, redeemed, signIn, restore, write, stored>>

\* revokeSession has answered or failed, or there was no session to revoke.  A
\* revocation that failed throws, but not past the cache: it is cleared either way.
ClearSensitiveLocalState ==
  /\ signOut
  /\ stored'  = EmptySession
  /\ memory'  = State("logout")
  /\ signOut' = FALSE
  /\ UNCHANGED <<begun, transaction, redeemed, signIn, restore, write>>

-----------------------------------------------------------------------------
\* The app is killed at any point and started again; protected storage stays.
RestartApp ==
  /\ signIn' = NoSignIn
  /\ restore' = [pc |-> "load", session |-> EmptySession]
  /\ write' = NoWrite
  /\ signOut' = FALSE
  /\ memory' = State("restoring")
  /\ UNCHANGED <<begun, transaction, redeemed, stored>>

Next ==
  \/ \E mode \in {"creator", "business"} : BeginSignIn(mode)
  \/ SaveTransaction
  \/ BrowserGivesUp
  \/ \E n \in SignIns : BrowserReturns(n)
  \/ ConsumeCallback
  \/ ExchangeCode
  \/ BootstrapSession
  \/ FinishSignIn
  \/ RestoreLoad
  \/ RestoreRefresh
  \/ RestoreSave
  \/ RestoreDrop
  \/ \E mode \in {"creator", "business", "venue_staff"} : SelectMode(mode)
  \/ \E w \in Workspaces : ChooseWorkspace(w)
  \/ WriteLands
  \/ BeginSignOut
  \/ ClearSensitiveLocalState
  \/ RestartApp

Spec == Init /\ [][Next]_vars
-----------------------------------------------------------------------------
\* Every copy of a session the device holds or is about to store.
Held == {stored, memory.session, restore.session, write.session}

(* Whatever callback the browser returns, and however often the app is     *)
(* killed meanwhile: a sign-in redeems only the code of its own request,   *)
(* and a session is held only after its code was redeemed.                 *)
CodesAreOwn ==
  /\ \A r \in redeemed : r[1] = r[2]
  /\ \A s \in Held \ {EmptySession} : <<s.id, s.id>> \in redeemed

(* The mode and workspace selected are among what the server granted with  *)
(* the session they are selected in, though grants change between a        *)
(* selection, its save, the next start and the refresh.                    *)
SelectionIsGranted ==
  \A s \in Held \ {EmptySession} :
    /\ s.mode \in Modes(s.access)
    /\ s.workspace # "none" => s.workspace \in s.access

(* Both, for every sign-in, restore and selection of the device.           *)
DeviceAgrees == TypeOK /\ CodesAreOwn /\ SelectionIsGranted

(* How far the function that will next store a session has come.           *)
CallsProceed ==
  /\ signIn.pc # "idle" => begun # 0
  /\ signIn.pc \in {"browser", "callback"} => transaction = begun
  /\ signIn.pc = "callback" => signIn.code # 0
  /\ signIn.pc = "exchange" => signIn.code = begun
  /\ signIn.pc \in {"bootstrap", "save"} => <<begun, begun>> \in redeemed
  /\ signIn.pc = "save" => signIn.access # {}
  /\ restore.pc = "refresh" => restore.session # EmptySession

InductiveInvariant == DeviceAgrees /\ CallsProceed
=============================================================================
