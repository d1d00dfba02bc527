------------------------------ MODULE LocalPass -------------------------------
(***************************************************************************)
(* The Local Pass of one published campaign (local-pass-store.ts): one     *)
(* offer, the links of its creators, the codes by which customers prove    *)
(* their destination, and their claims, claim tokens, redemptions and      *)
(* reports of refusal.                                                     *)
(*                                                                         *)
(* The calls that lock several rows take them one by one, in the order of  *)
(* the code, and hold them until they commit; their writes are made there. *)
(* An insert also waits for the rows its foreign keys name while another   *)
(* call has them FOR UPDATE: a redemption's event for the link, a code for *)
(* its link and claim.  These are the last rows a call takes, so the       *)
(* shared locks it gets there hold nobody up.  The orders differ, so calls *)
(* may wait for each other in a circle, which the database breaks.  Rows   *)
(* are taken together where every circle between them is one customer's    *)
(* (claim and code, a redemption's codes and link, all that a report or a  *)
(* review locks): the call that would be aborted is not begun instead.     *)
(*                                                                         *)
(* Time is what has lapsed.  now() is the start of a transaction, so a     *)
(* call may use what has lapsed since; that is the same as its lapsing     *)
(* after the commit, because only an expiry sees the difference and it     *)
(* waits for the claim.                                                    *)
(*                                                                         *)
(* Left out: send limits and the end of the offer, which only refuse more; *)
(* the purge of customer data, months later; the issue of a link, because  *)
(* one that is not issued is one nobody uses; link opens, reports and the  *)
(* status page, which change nothing another call reads.                   *)
(***************************************************************************)
EXTENDS Integers, Sequences, FiniteSets

CONSTANTS
  Customers,   \* destinations
  Links,       \* the links of creators with a completed assignment
  Calls,       \* database connections that may serve a call
  Nobody,      \* no customer, no link, no code
  Quantity,    \* total_quantity
  Rotations,   \* bound of the model: tokens of a claim
  LiveCodes    \* bound of the model: codes of links that are live at a time

\* What the constants must be.
PassAssumption ==
  /\ Nobody \notin Customers \cup Links
  /\ {Quantity, Rotations, LiveCodes} \subseteq Nat \ {0}

VARIABLES
  offer,       \* local_pass_offers.status
  committed,   \* committed_quantity
  redeemed,    \* redeemed_quantity
  claim,       \* local_pass_claims.status of each customer, "none": no row
  source,      \* local_pass_claims.local_pass_link_id
  token,       \* local_pass_claim_tokens.status by claim and rotation
  code,        \* status of the live challenge of each target
  sentTo,      \* to whom the live code of a link was sent
  open,        \* claims with an open incident
  overdue,     \* active claims whose seven days are over
  stale,       \* active claims whose live token's five minutes are over
  call         \* what each connection is doing

stock  == <<offer, committed, redeemed>>
pass   == <<claim, source, token>>
codes  == <<code, sentTo>>
time   == <<overdue, stale>>
vars   == <<stock, pass, codes, open, time, call>>

(* The live code of a link is shared by all its customers; a customer's    *)
(* own codes are one for each purpose but the status page.                 *)
Purpose == {"recovery", "substitute_acceptance", "refusal_report"}

OwnTarget(c, purpose) == <<c, purpose>>
LinkTarget(l)         == <<l, "claim">>

Targets == (Customers \X Purpose) \cup (Links \X {"claim"})

\* Mutant: the codes of every customer.
TargetsOfAll(c) == Targets

TargetsOf(c) ==
  ({c} \X Purpose) \cup {LinkTarget(l) : l \in {k \in Links : sentTo[k] = c}}

-----------------------------------------------------------------------------
(* Rows and their locks.                                                   *)

(* The rows each kind of call locks, in its order.  What an issue locks    *)
(* first are its advisory locks and the code it supersedes.                *)
Path ==
  [claim   |-> <<"link", "code", "offer">>,
   recover |-> <<"claim and code", "tokens">>,
   redeem  |-> <<"token", "claim", "offer", "codes and link">>,
   expire  |-> <<"claim", "offer", "tokens", "codes">>,
   issue   |-> <<"old code", "named">>]

Idle == [op |-> "idle"]
Busy == {p \in Calls : call[p] # Idle}

Tokens(c, s) == {r \in 1 .. Rotations : token[c][r] = s}

OfferRow    == <<"offer">>
LinkRow(l)  == <<"link", l>>
ClaimRow(c) == <<"claim", c>>
CodeRow(t)  == <<"code", t>>

CodeRows(S)  == {CodeRow(t) : t \in {u \in S : code[u] # "none"}}
TokenRows(c) == {<<"token", c, r>> : r \in Tokens(c, "active")}

\* The link a call is about: of its code, or of the customer's claim.
LinkOf(x) ==
  IF \E l \in Links : x.target = LinkTarget(l) THEN x.target[1] ELSE source[x.customer]

Keys(x) == {<<"key", x.customer>>, <<"key", LinkOf(x)>>}

\* The claim that a code of the customer's own names.
ClaimNamed(x) ==
  {ClaimRow(x.customer) : purpose \in {u \in Purpose : x.target = OwnTarget(x.customer, u)}}

Rows(x, kind) ==
  LET c == x.customer IN
  CASE kind = "offer"            -> {OfferRow}
    [] kind = "link"             -> {LinkRow(LinkOf(x))}
    [] kind = "claim"            -> {ClaimRow(c)}
    [] kind = "code"             -> {CodeRow(x.target)}
    [] kind = "claim and code"   -> {ClaimRow(c), CodeRow(x.target)}
    [] kind \in {"token", "tokens"} -> TokenRows(c)
    [] kind = "codes"            -> CodeRows(TargetsOf(c))
    [] kind = "codes and link"   -> CodeRows(TargetsOf(c)) \cup {LinkRow(LinkOf(x))}
    [] kind = "old code"         -> CodeRows({x.target}) \cup Keys(x)
    [] kind = "named"            -> {LinkRow(LinkOf(x))} \cup ClaimNamed(x)

\* The rows of its steps so far.
Held(p) == UNION {Rows(call[p], Path[call[p].op][n]) : n \in 1 .. call[p].step}

IsFree(row) == \A p \in Busy : row \notin Held(p)

Wanted(p) == Rows(call[p], Path[call[p].op][call[p].step + 1])

Blocks(q, p) == q # p /\ Held(q) \cap Wanted(p) # {}

-----------------------------------------------------------------------------
(* What a call makes sure of once it has the rows of a step; a call that   *)
(* finds otherwise is refused.                                             *)

\* Mutant: redeems what is reported.
ClaimHoldsUnreviewed(x) ==
  /\ claim[x.customer] = "active"
  /\ x.op = "expire" <=> x.customer \in overdue

ClaimHolds(x) ==
  /\ claim[x.customer] = "active"
  /\ x.op = "expire" <=> x.customer \in overdue
  /\ x.op = "redeem" => x.customer \notin open

TokenHolds(x) == Tokens(x.customer, "active") # {} /\ x.customer \notin stale

(* The code of a link must be the one this customer was sent.              *)
CodeHolds(x) ==
  /\ x.target # Nobody /\ code[x.target] = "verified"
  /\ \A l \in Links : x.target = LinkTarget(l) => sentTo[l] = x.customer

(* A second claim of the customer fails on the unique index.               *)
OfferHolds(x) ==
  x.op = "claim" =>
    /\ offer = "active" /\ committed < Quantity
    /\ claim[x.customer] = "none"

(* An unapproved substitute needs the customer's code.                     *)
AcceptanceHolds(x) ==
  x.substitute => CodeHolds(x)

\* The bound of the model: codes are live together if sent before any claim.
CodeMayLive(t) ==
  Cardinality({u \in Targets : u = t \/ code[u] # "none"})
    <= IF \A c \in Customers : claim[c] = "none" THEN LiveCodes ELSE 1

Holds(x, kind) ==
  CASE kind = "token"          -> TokenHolds(x)
    [] kind = "claim"          -> ClaimHolds(x)
    [] kind = "claim and code" -> ClaimHolds(x) /\ CodeHolds(x)
    [] kind = "code"           -> CodeHolds(x)
    [] kind = "offer"          -> OfferHolds(x)
    [] kind = "codes and link" -> AcceptanceHolds(x)
    [] kind = "tokens"         -> x.op = "recover" => Rotations \notin Tokens(x.customer, "active")
    [] kind \in {"old code", "named"} -> CodeMayLive(x.target)
    [] OTHER                   -> TRUE

-----------------------------------------------------------------------------
(* What a call writes when it commits.                                     *)
Rest == <<stock, pass, codes, open, time>>

Consume(t) ==
  /\ code' = [code EXCEPT ![t] = "none"]
  /\ sentTo' = [l \in Links |-> IF t = LinkTarget(l) THEN Nobody ELSE sentTo[l]]

ClaimPass(x) ==
  LET c == x.customer IN
  /\ claim'     = [claim  EXCEPT ![c] = "active"]
  /\ source'    = [source EXCEPT ![c] = x.target[1]]
  /\ token'     = [token  EXCEPT ![c][1] = "active"]
  /\ committed' = committed + 1
  /\ Consume(x.target)
  /\ UNCHANGED <<offer, redeemed, open, time>>

\* Mutant: leaves the old token as it is.
AddToken(c) ==
  [r \in 1 .. Rotations |->
     IF r - 1 \in Tokens(c, "active") THEN "active" ELSE token[c][r]]

Rotated(c) ==
  [r \in 1 .. Rotations |->
     IF r \in Tokens(c, "active") THEN "revoked"
     ELSE IF r - 1 \in Tokens(c, "active") THEN "active" ELSE token[c][r]]

(* The new token lives five minutes or as long as the claim.               *)
RecoverActivePass(x) ==
  /\ token' = [token EXCEPT ![x.customer] = Rotated(x.customer)]
  /\ stale' = stale \ ({x.customer} \ overdue)
  /\ Consume(x.target)
  /\ UNCHANGED <<stock, claim, source, open, overdue>>

\* The live token of a claim that ends.
EndToken(c, s) ==
  token' = [token EXCEPT ![c] = [r \in 1 .. Rotations |->
              IF r \in Tokens(c, "active") THEN s ELSE token[c][r]]]

RedeemPass(x) ==
  LET c == x.customer IN
  /\ claim'    = [claim EXCEPT ![c] = "redeemed"]
  /\ EndToken(c, "consumed")
  /\ redeemed' = redeemed + 1
  /\ IF x.substitute THEN Consume(x.target) ELSE UNCHANGED codes
  /\ overdue' = overdue \ {c} /\ stale' = stale \ {c}
  /\ UNCHANGED <<offer, committed, source, open>>

ExpireClaim(x) ==
  LET c == x.customer IN
  /\ claim'     = [claim EXCEPT ![c] = "expired"]
  /\ EndToken(c, "expired")
  /\ committed' = committed - 1
  /\ overdue' = overdue \ {c} /\ stale' = stale \ {c}
  /\ UNCHANGED <<offer, redeemed, source, codes, open>>

Write(x) ==
  CASE x.op = "claim"   -> ClaimPass(x)
    [] x.op = "recover" -> RecoverActivePass(x)
    [] x.op = "redeem"  -> RedeemPass(x)
    [] x.op = "expire"  -> ExpireClaim(x)

-----------------------------------------------------------------------------
(* The calls that take their rows one by one.  A call that is refused its  *)
(* first row changes nothing and is not begun.                             *)
Begin(p, op, c, t, substitute) ==
  LET x == [op |-> op, step |-> 1, customer |-> c, target |-> t,
            substitute |-> substitute]
  IN
  /\ p \notin Busy
  /\ \A row \in Rows(x, Path[op][1]) : IsFree(row)
  /\ Holds(x, Path[op][1])
  /\ call' = [call EXCEPT ![p] = x]
  /\ UNCHANGED Rest

(* A new code supersedes the live one of its target, and waits for a call  *)
(* that is using that one.  What was true of the claim when the issue      *)
(* began is not looked at again.                                           *)
IssueCustomerChallenge(p, c) ==
  \/ \E l \in Links : offer # "configured" /\ Begin(p, "issue", c, LinkTarget(l), FALSE)
  \/ \E purpose \in Purpose :
       claim[c] = "active" /\ c \notin overdue
         /\ Begin(p, "issue", c, OwnTarget(c, purpose), FALSE)

BeginAny(p) ==
  \E c \in Customers :
     \/ \E l \in Links :
          sentTo[l] = c /\ Begin(p, "claim", c, LinkTarget(l), FALSE)
     \/ Begin(p, "recover", c, OwnTarget(c, "recovery"), FALSE)
     \/ Begin(p, "redeem", c, Nobody, FALSE)
     \/ code[OwnTarget(c, "substitute_acceptance")] # "none"
          /\ Begin(p, "redeem", c, OwnTarget(c, "substitute_acceptance"), TRUE)
     \/ Begin(p, "expire", c, Nobody, FALSE)
     \/ IssueCustomerChallenge(p, c)

End(p) == call' = [call EXCEPT ![p] = Idle]

Refuse(p) == End(p) /\ UNCHANGED Rest

(* A call that was going to use the code that is superseded has lost it.   *)
Send(p) ==
  LET t == call[p].target
      IsLost(q) == q \in Busy /\ call[q].op # "issue" /\ call[q].target = t
  IN
  /\ code' = [code EXCEPT ![t] = "pending"]
  /\ sentTo' = [l \in Links |-> IF t = LinkTarget(l) THEN call[p].customer ELSE sentTo[l]]
  /\ call' = [q \in Calls |-> IF q = p THEN Idle
                              ELSE IF IsLost(q) THEN [call[q] EXCEPT !.target = Nobody]
                              ELSE call[q]]
  /\ UNCHANGED <<stock, pass, open, time>>

Lock(p) == call' = [call EXCEPT ![p].step = @ + 1] /\ UNCHANGED Rest

(* A call goes on when nobody has the rows it wants.                       *)
Serve(p) ==
  /\ p \in Busy
  /\ \A q \in Busy : ~Blocks(q, p)
  /\ LET path == Path[call[p].op]
         next == call[p].step + 1
     IN
     IF ~Holds(call[p], path[next]) THEN Refuse(p)
     ELSE IF next < Len(path) THEN Lock(p)
     ELSE IF call[p].op = "issue" THEN Send(p)
     ELSE Write(call[p]) /\ End(p)

(* The database aborts one of the calls that wait in a circle; a process   *)
(* or a connection may be lost at any time.                                *)
Abort(p) == p \in Busy /\ Refuse(p)

-----------------------------------------------------------------------------
(* The calls that wait with no row in hand: one step each.                 *)
ChangeOfferStatus(from, to) ==
  /\ offer = from /\ IsFree(OfferRow)
  /\ offer' = to
  /\ UNCHANGED <<committed, redeemed, pass, codes, open, time, call>>

ActivateOffer     == ChangeOfferStatus("configured", "active")
PauseFutureClaims == ChangeOfferStatus("active", "claims_paused")

(* At most one incident of a claim is open: another report fails.  It      *)
(* names the offer, which an expiry updates but does not take FOR UPDATE.  *)
ReportFulfillmentProblem(c) ==
  LET t == OwnTarget(c, "refusal_report") IN
  /\ IsFree(ClaimRow(c)) /\ IsFree(CodeRow(t))
  /\ \A p \in Busy : OfferRow \in Held(p) => call[p].op = "expire"
  /\ claim[c] = "active" /\ c \notin overdue /\ c \notin open
  /\ code[t] = "verified" /\ Consume(t)
  /\ open' = open \cup {c}
  /\ UNCHANGED <<stock, pass, time, call>>

Dismiss(c) ==
  /\ c \in open
  /\ open' = open \ {c}
  /\ UNCHANGED <<stock, pass, codes, time, call>>

(* A confirmed failure pauses the business when it was intentional or not  *)
(* the first one of all its campaigns.                                     *)
Confirm(c, pauses) ==
  /\ c \in open
  /\ pauses /\ offer = "active" => IsFree(OfferRow)
  /\ open' = open \ {c}
  /\ offer' = IF pauses /\ offer = "active" THEN "claims_paused" ELSE offer
  /\ UNCHANGED <<committed, redeemed, pass, codes, time, call>>

VerifyCustomerChallenge(t) ==
  /\ code[t] = "pending" /\ IsFree(CodeRow(t))
  /\ code' = [code EXCEPT ![t] = "verified"]
  /\ UNCHANGED <<stock, pass, sentTo, open, time, call>>

(* Five minutes are over, or too many wrong codes were tried.              *)
CodeIsDead(t) ==
  /\ code[t] # "none" /\ IsFree(CodeRow(t))
  /\ Consume(t)
  /\ UNCHANGED <<stock, pass, open, time, call>>

(* A token does not outlive its claim.                                     *)
TokenLapses(c) ==
  /\ claim[c] = "active" /\ c \notin stale
  /\ stale' = stale \cup {c}
  /\ UNCHANGED <<stock, pass, codes, open, overdue, call>>

ClaimLapses(c) ==
  /\ claim[c] = "active" /\ c \notin overdue
  /\ overdue' = overdue \cup {c} /\ stale' = stale \cup {c}
  /\ UNCHANGED <<stock, pass, codes, open, call>>

-----------------------------------------------------------------------------
Init ==
  /\ offer = "configured" /\ committed = 0 /\ redeemed = 0
  /\ claim = [c \in Customers |-> "none"] /\ source = [c \in Customers |-> Nobody]
  /\ token = [c \in Customers |-> [r \in 1 .. Rotations |-> "none"]]
  /\ code = [t \in Targets |-> "none"] /\ sentTo = [l \in Links |-> Nobody]
  /\ open = {}
  /\ overdue = {} /\ stale = {} /\ call = [p \in Calls |-> Idle]

Next ==
  \/ \E p \in Calls : BeginAny(p) \/ Serve(p) \/ Abort(p)
  \/ ActivateOffer \/ PauseFutureClaims
  \/ \E c \in Customers : TokenLapses(c) \/ ClaimLapses(c)
  \/ \E c \in Customers :
       \/ ReportFulfillmentProblem(c) \/ Dismiss(c)
       \/ \E pauses \in BOOLEAN : Confirm(c, pauses)
  \/ \E t \in Targets : VerifyCustomerChallenge(t) \/ CodeIsDead(t)

Spec == Init /\ [][Next]_vars

-----------------------------------------------------------------------------
(* Properties.                                                             *)

(* Every row has declared values, and the counters of the offer stay       *)
(* within its quantity.                                                    *)
TypeOK ==
  /\ offer \in {"configured", "active", "claims_paused"}
  /\ committed \in 0 .. Quantity /\ redeemed \in 0 .. committed
  /\ claim \in [Customers -> {"none", "active", "redeemed", "expired"}]
  /\ source \in [Customers -> Links \cup {Nobody}]
  /\ token \in [Customers -> [1 .. Rotations ->
                   {"none", "active", "revoked", "consumed", "expired"}]]
  /\ code \in [Targets -> {"none", "pending", "verified"}]
  /\ sentTo \in [Links -> Customers \cup {Nobody}]
  /\ open \subseteq Customers
  /\ overdue \subseteq stale /\ stale \subseteq {c \in Customers : claim[c] = "active"}

(* Between two commits the rows agree: the offer's counters count the      *)
(* claims, an active claim has one live token, and it is the newest token  *)
(* of a claim that is consumed by its redemption or expires with it        *)
(* (claimPass, recoverActivePass, redeemPass and expireClaim each change   *)
(* three of these rows, under locks taken in different orders).            *)
TokensAgree ==
  LET ClaimsIn(s) == {c \in Customers : claim[c] = s} IN
  /\ committed = Cardinality(ClaimsIn("active") \cup ClaimsIn("redeemed"))
  /\ redeemed = Cardinality(ClaimsIn("redeemed"))
  /\ \A c \in Customers :
       LET issued == {r \in 1 .. Rotations : token[c][r] # "none"}
           last   == Cardinality(issued)
       IN
       /\ issued = 1 .. last
       /\ claim[c] = "none" <=> issued = {}
       /\ \A r \in 1 .. last - 1 : token[c][r] = "revoked"
       /\ last > 0 => token[c][last] = CASE claim[c] = "active"   -> "active"
                                          [] claim[c] = "redeemed" -> "consumed"
                                          [] claim[c] = "expired"  -> "expired"

(* The store keeps the promise: whatever calls run together, the first     *)
(* claim of a customer takes one unit and names one creator for good, it   *)
(* is honoured once or expires, and not while a refusal is under review.   *)
Promise == INSTANCE PassPromise WITH
  NoLink <- Nobody,
  pass   <- claim,
  by     <- source,
  stock  <- Quantity - committed,
  frozen <- open

ImplementsPassPromise == Promise!Spec

(* redeemPass locks the token before the claim, recoverActivePass and      *)
(* expireClaim the claim before its tokens, claimPass the link before the  *)
(* code and the offer, redeemPass the offer before the codes and the link, *)
(* issueCustomerChallenge a code before the link: two calls that wait for  *)
(* each other are about one customer or about one creator's link; two of   *)
(* different customers through different links never are, though all share *)
(* the offer.                                                              *)
CirclesShareALink ==
  \A p, q \in Busy :
    Blocks(p, q) /\ Blocks(q, p) =>
      \/ call[p].customer = call[q].customer
      \/ LinkOf(call[p]) = LinkOf(call[q])
=============================================================================
