---------------------------- MODULE LocalPassProofs ----------------------------
(* Proofs about LocalPass, for every number of customers, links and calls, *)
(* every quantity and every number of tokens of a claim.                   *)
EXTENDS LocalPass, FiniteSetTheorems, TLAPS

Ops == {"claim", "recover", "redeem", "expire", "issue"}

HoldsClaim(p) ==
  \/ call[p].op = "recover"
  \/ call[p].op = "redeem" /\ call[p].step >= 2
  \/ call[p].op = "expire"

HoldsCode(p) ==
  \/ call[p].op = "claim" /\ call[p].step = 2
  \/ call[p].op = "recover"

\* The steps after which a call may wait for more rows.
MayWaitAt(op) ==
  CASE op \in {"recover", "issue"} -> {1}
    [] op = "claim"                -> {1, 2}
    [] OTHER                       -> {1, 2, 3}

(* What a call in flight relies on between its locks and its commit.  The  *)
(* code of a substitute is the one thing it may lose: it is not locked     *)
(* before the last step.                                                   *)
CallAgrees(p) ==
  LET x == call[p] IN
  /\ x = [op |-> x.op, step |-> x.step, customer |-> x.customer,
          target |-> x.target, substitute |-> x.substitute]
  /\ x.op \in Ops /\ x.customer \in Customers /\ x.substitute \in BOOLEAN
  /\ x.step \in MayWaitAt(x.op)
  /\ x.substitute => x.op = "redeem"
  /\ x.op = "claim" =>
       \E l \in Links : x.target = LinkTarget(l) /\ (x.step = 2 => sentTo[l] = x.customer)
  /\ x.op = "recover" => x.target = OwnTarget(x.customer, "recovery")
  /\ x.op = "redeem" =>
       x.target \in {Nobody, OwnTarget(x.customer, "substitute_acceptance")}
  /\ x.op = "expire" => x.target = Nobody
  /\ x.op = "issue" => x.target \in Targets
  /\ HoldsCode(p) => code[x.target] = "verified"
  /\ HoldsClaim(p) => claim[x.customer] = "active"
  /\ x.op = "redeem" /\ x.step >= 2 => x.customer \notin open

CallsAgree ==
  /\ DOMAIN call = Calls
  /\ \A p \in Busy : CallAgrees(p)
  /\ \A p, q \in Busy : p # q =>
       /\ HoldsClaim(p) /\ HoldsClaim(q) => call[p].customer # call[q].customer
       /\ HoldsCode(p) /\ HoldsCode(q) => call[p].target # call[q].target
       /\ HoldsCode(p) /\ call[q].op = "issue" => call[p].target # call[q].target

Taken    == {c \in Customers : claim[c] \in {"active", "redeemed"}}
Redeemed == {c \in Customers : claim[c] = "redeemed"}

(* The claims that were made are finitely many, whatever Customers is.     *)
CountersAgree ==
  /\ IsFiniteSet(Taken)
  /\ committed = Cardinality(Taken) /\ redeemed = Cardinality(Redeemed)

LastToken(s) ==
  CASE s = "active" -> "active" [] s = "redeemed" -> "consumed" [] s = "expired" -> "expired"

(* The tokens of a claim, n of which were issued.                          *)
TokensAre(c, n) ==
  /\ n = 0 <=> claim[c] = "none"
  /\ \A r \in 1 .. Rotations :
       token[c][r] = IF r > n THEN "none"
                     ELSE IF r < n THEN "revoked" ELSE LastToken(claim[c])

TokensInOrder == \A c \in Customers : \E n \in 0 .. Rotations : TokensAre(c, n)

InductiveInvariant == TypeOK /\ CountersAgree /\ TokensInOrder /\ CallsAgree

LEMMA Waits ==
  /\ MayWaitAt("recover") = {1} /\ MayWaitAt("issue") = {1}
  /\ MayWaitAt("claim") = {1, 2}
  /\ MayWaitAt("redeem") = {1, 2, 3} /\ MayWaitAt("expire") = {1, 2, 3}
  <1>1. MayWaitAt("recover") = {1} /\ MayWaitAt("issue") = {1}
    BY Zenon DEF MayWaitAt
  <1>2. MayWaitAt("claim") = {1, 2}
    BY Zenon DEF MayWaitAt
  <1>3. MayWaitAt("redeem") = {1, 2, 3} /\ MayWaitAt("expire") = {1, 2, 3}
    BY Zenon DEF MayWaitAt
  <1> QED
    BY <1>1, <1>2, <1>3

-----------------------------------------------------------------------------
(* The rows that a call holds and those it wants next.                     *)
CodesOf(c) == CodeRows(TargetsOf(c))

LEMMA RowsByKind ==
  ASSUME NEW x
  PROVE  /\ Rows(x, "offer") = {OfferRow}
         /\ Rows(x, "link") = {LinkRow(LinkOf(x))}
         /\ Rows(x, "claim") = {ClaimRow(x.customer)}
         /\ Rows(x, "code") = {CodeRow(x.target)}
         /\ Rows(x, "claim and code") = {ClaimRow(x.customer), CodeRow(x.target)}
         /\ Rows(x, "token") = TokenRows(x.customer)
         /\ Rows(x, "tokens") = TokenRows(x.customer)
         /\ Rows(x, "codes") = CodesOf(x.customer)
         /\ Rows(x, "codes and link") = CodesOf(x.customer) \cup {LinkRow(LinkOf(x))}
         /\ Rows(x, "old code") = CodeRows({x.target}) \cup Keys(x)
         /\ Rows(x, "named") = {LinkRow(LinkOf(x))} \cup ClaimNamed(x)
  <1>1. Rows(x, "offer") = {OfferRow}
    BY Zenon DEF Rows
  <1>2. Rows(x, "claim") = {ClaimRow(x.customer)}
    BY Zenon DEF Rows
  <1>3. Rows(x, "code") = {CodeRow(x.target)}
    BY Zenon DEF Rows
  <1>4. Rows(x, "claim and code") = {ClaimRow(x.customer), CodeRow(x.target)}
    BY Zenon DEF Rows
  <1>5. Rows(x, "token") = TokenRows(x.customer)
    BY Zenon DEF Rows
  <1>6. Rows(x, "tokens") = TokenRows(x.customer)
    BY Zenon DEF Rows
  <1>7. Rows(x, "codes") = CodesOf(x.customer)
    BY Zenon DEF Rows, CodesOf
  <1>8. Rows(x, "link") = {LinkRow(LinkOf(x))}
    BY Zenon DEF Rows
  <1>9. Rows(x, "codes and link") = CodesOf(x.customer) \cup {LinkRow(LinkOf(x))}
    BY Zenon DEF Rows, CodesOf
  <1>10. Rows(x, "old code") = CodeRows({x.target}) \cup Keys(x)
    BY Zenon DEF Rows
  <1>11. Rows(x, "named") = {LinkRow(LinkOf(x))} \cup ClaimNamed(x)
    BY Zenon DEF Rows
  <1> QED
    BY <1>1, <1>2, <1>3, <1>4, <1>5, <1>6, <1>7, <1>8, <1>9, <1>10, <1>11

LEMMA HoldsByKind ==
  ASSUME NEW x
  PROVE  /\ Holds(x, "token") <=> TokenHolds(x)
         /\ Holds(x, "claim") <=> ClaimHolds(x)
         /\ Holds(x, "claim and code") <=> ClaimHolds(x) /\ CodeHolds(x)
         /\ Holds(x, "code") <=> CodeHolds(x)
         /\ Holds(x, "offer") <=> OfferHolds(x)
         /\ Holds(x, "codes and link") <=> AcceptanceHolds(x)
         /\ Holds(x, "tokens") <=>
              (x.op = "recover" => Rotations \notin Tokens(x.customer, "active"))
  <1>1. Holds(x, "token") <=> TokenHolds(x)
    BY Zenon DEF Holds
  <1>2. Holds(x, "claim") <=> ClaimHolds(x)
    BY Zenon DEF Holds
  <1>3. Holds(x, "claim and code") <=> ClaimHolds(x) /\ CodeHolds(x)
    BY Zenon DEF Holds
  <1>4. Holds(x, "code") <=> CodeHolds(x)
    BY Zenon DEF Holds
  <1>5. Holds(x, "offer") <=> OfferHolds(x)
    BY Zenon DEF Holds
  <1>6. Holds(x, "codes and link") <=> AcceptanceHolds(x)
    BY Zenon DEF Holds
  <1>7. Holds(x, "tokens") <=>
          (x.op = "recover" => Rotations \notin Tokens(x.customer, "active"))
    BY Zenon DEF Holds
  <1> QED
    BY <1>1, <1>2, <1>3, <1>4, <1>5, <1>6, <1>7

LEMMA Steps ==
  /\ Path["claim"][1] = "link" /\ Path["claim"][2] = "code" /\ Path["claim"][3] = "offer"
  /\ Path["recover"][1] = "claim and code" /\ Path["recover"][2] = "tokens"
  /\ Path["redeem"][1] = "token" /\ Path["redeem"][2] = "claim"
  /\ Path["redeem"][3] = "offer" /\ Path["redeem"][4] = "codes and link"
  /\ Path["expire"][1] = "claim" /\ Path["expire"][2] = "offer"
  /\ Path["expire"][3] = "tokens" /\ Path["expire"][4] = "codes"
  /\ Path["issue"][1] = "old code" /\ Path["issue"][2] = "named"
  BY DEF Path

LEMMA Lengths ==
  /\ Len(Path["claim"]) = 3 /\ Len(Path["recover"]) = 2 /\ Len(Path["issue"]) = 2
  /\ Len(Path["redeem"]) = 4 /\ Len(Path["expire"]) = 4
  BY DEF Path

(* The rows of each step of each kind of call.                             *)
RowsOf(x, n) == Rows(x, Path[x.op][n])

LEMMA RowsByStep ==
  ASSUME NEW x
  PROVE  /\ x.op = "claim" => /\ RowsOf(x, 1) = {LinkRow(LinkOf(x))}
                              /\ RowsOf(x, 2) = {CodeRow(x.target)}
                              /\ RowsOf(x, 3) = {OfferRow}
         /\ x.op = "recover" => /\ RowsOf(x, 1) = {ClaimRow(x.customer), CodeRow(x.target)}
                                /\ RowsOf(x, 2) = TokenRows(x.customer)
         /\ x.op = "redeem" => /\ RowsOf(x, 1) = TokenRows(x.customer)
                               /\ RowsOf(x, 2) = {ClaimRow(x.customer)}
                               /\ RowsOf(x, 3) = {OfferRow}
                               /\ RowsOf(x, 4) = CodesOf(x.customer) \cup {LinkRow(LinkOf(x))}
         /\ x.op = "expire" => /\ RowsOf(x, 1) = {ClaimRow(x.customer)}
                               /\ RowsOf(x, 2) = {OfferRow}
                               /\ RowsOf(x, 3) = TokenRows(x.customer)
                               /\ RowsOf(x, 4) = CodesOf(x.customer)
         /\ x.op = "issue" => /\ RowsOf(x, 1) = CodeRows({x.target}) \cup Keys(x)
                              /\ RowsOf(x, 2) = {LinkRow(LinkOf(x))} \cup ClaimNamed(x)
  BY RowsByKind, Steps DEF RowsOf

LEMMA CallSteps ==
  ASSUME NEW p, CallAgrees(p)
  PROVE  LET x == call[p] IN
         /\ x.op \in Ops
         /\ x.op \in {"recover", "issue"} => x.step = 1
         /\ x.op = "claim" => x.step \in {1, 2}
         /\ x.op \in {"redeem", "expire"} => x.step \in {1, 2, 3}
  BY Waits DEF CallAgrees

LEMMA HeldRows ==
  ASSUME NEW p \in Calls, CallAgrees(p)
  PROVE  LET x == call[p] IN
         /\ x.op = "claim" /\ x.step = 1 => Held(p) = {LinkRow(LinkOf(x))}
         /\ x.op = "claim" /\ x.step = 2 => Held(p) = {LinkRow(LinkOf(x)), CodeRow(x.target)}
         /\ x.op = "recover" => Held(p) = {ClaimRow(x.customer), CodeRow(x.target)}
         /\ x.op = "redeem" /\ x.step = 1 => Held(p) = TokenRows(x.customer)
         /\ x.op = "redeem" /\ x.step = 2 =>
              Held(p) = TokenRows(x.customer) \cup {ClaimRow(x.customer)}
         /\ x.op = "redeem" /\ x.step = 3 =>
              Held(p) = TokenRows(x.customer) \cup {ClaimRow(x.customer), OfferRow}
         /\ x.op = "expire" /\ x.step = 1 => Held(p) = {ClaimRow(x.customer)}
         /\ x.op = "expire" /\ x.step = 2 => Held(p) = {ClaimRow(x.customer), OfferRow}
         /\ x.op = "expire" /\ x.step = 3 =>
              Held(p) = {ClaimRow(x.customer), OfferRow} \cup TokenRows(x.customer)
         /\ x.op = "issue" => Held(p) = CodeRows({x.target}) \cup Keys(x)
  <1> DEFINE x == call[p]
  <1>1. Held(p) = UNION {RowsOf(x, n) : n \in 1 .. x.step}
    BY Zenon DEF Held, RowsOf
  <1>2. x.op \in {"recover", "issue"} => x.step = 1
    BY CallSteps
  <1> HIDE DEF x
  <1>3. /\ x.step = 1 => Held(p) = RowsOf(x, 1)
        /\ x.step = 2 => Held(p) = RowsOf(x, 1) \cup RowsOf(x, 2)
        /\ x.step = 3 => Held(p) = RowsOf(x, 1) \cup RowsOf(x, 2) \cup RowsOf(x, 3)
    <2>1. 1 .. 1 = {1} /\ 1 .. 2 = {1, 2} /\ 1 .. 3 = {1, 2, 3}
      OBVIOUS
    <2> QED
      BY <1>1, <2>1, Z3
  <1>4. /\ x.op = "recover" => Held(p) = {ClaimRow(x.customer), CodeRow(x.target)}
        /\ x.op = "issue" => Held(p) = CodeRows({x.target}) \cup Keys(x)
    BY <1>2, <1>3, RowsByStep
  <1>5. /\ x.op = "claim" /\ x.step = 1 => Held(p) = {LinkRow(LinkOf(x))}
        /\ x.op = "claim" /\ x.step = 2 => Held(p) = {LinkRow(LinkOf(x)), CodeRow(x.target)}
    BY <1>3, RowsByStep
  <1>6. /\ x.op = "redeem" /\ x.step = 1 => Held(p) = TokenRows(x.customer)
        /\ x.op = "redeem" /\ x.step = 2 =>
             Held(p) = TokenRows(x.customer) \cup {ClaimRow(x.customer)}
        /\ x.op = "redeem" /\ x.step = 3 =>
             Held(p) = TokenRows(x.customer) \cup {ClaimRow(x.customer), OfferRow}
    BY <1>3, RowsByStep
  <1>7. /\ x.op = "expire" /\ x.step = 1 => Held(p) = {ClaimRow(x.customer)}
        /\ x.op = "expire" /\ x.step = 2 => Held(p) = {ClaimRow(x.customer), OfferRow}
        /\ x.op = "expire" /\ x.step = 3 =>
             Held(p) = {ClaimRow(x.customer), OfferRow} \cup TokenRows(x.customer)
    BY <1>3, RowsByStep
  <1> QED
    BY <1>4, <1>5, <1>6, <1>7, Zenon DEF x

LEMMA WantedRows ==
  ASSUME NEW p \in Calls, CallAgrees(p)
  PROVE  LET x == call[p] IN
         /\ x.op = "claim" /\ x.step = 1 => Wanted(p) = {CodeRow(x.target)}
         /\ x.op = "claim" /\ x.step = 2 => Wanted(p) = {OfferRow}
         /\ x.op = "recover" => Wanted(p) = TokenRows(x.customer)
         /\ x.op = "redeem" /\ x.step = 1 => Wanted(p) = {ClaimRow(x.customer)}
         /\ x.op = "redeem" /\ x.step = 2 => Wanted(p) = {OfferRow}
         /\ x.op = "redeem" /\ x.step = 3 =>
              Wanted(p) = CodesOf(x.customer) \cup {LinkRow(LinkOf(x))}
         /\ x.op = "expire" /\ x.step = 1 => Wanted(p) = {OfferRow}
         /\ x.op = "expire" /\ x.step = 2 => Wanted(p) = TokenRows(x.customer)
         /\ x.op = "expire" /\ x.step = 3 => Wanted(p) = CodesOf(x.customer)
         /\ x.op = "issue" => Wanted(p) = {LinkRow(LinkOf(x))} \cup ClaimNamed(x)
  <1> DEFINE x == call[p]
  <1>1. Wanted(p) = RowsOf(x, x.step + 1)
    BY Zenon DEF Wanted, RowsOf
  <1>2. x.op \in {"recover", "issue"} => x.step = 1
    BY CallSteps
  <1> HIDE DEF x
  <1>3. /\ x.step = 1 => Wanted(p) = RowsOf(x, 2)
        /\ x.step = 2 => Wanted(p) = RowsOf(x, 3)
        /\ x.step = 3 => Wanted(p) = RowsOf(x, 4)
    BY <1>1
  <1> QED
    BY <1>2, <1>3, RowsByStep DEF x

LEMMA LockedRows ==
  ASSUME CallsAgree, NEW q \in Busy
  PROVE  /\ HoldsCode(q) => CodeRow(call[q].target) \in Held(q)
         /\ HoldsClaim(q) => ClaimRow(call[q].customer) \in Held(q)
         /\ call[q].op = "issue" /\ code[call[q].target] # "none" =>
              CodeRow(call[q].target) \in Held(q)
  <1>1. CallAgrees(q) /\ q \in Calls
    BY DEF CallsAgree, Busy
  <1>2. ASSUME call[q].op = "issue", code[call[q].target] # "none"
        PROVE  CodeRow(call[q].target) \in Held(q)
    <2>1. CodeRow(call[q].target) \in CodeRows({call[q].target})
      BY <1>2 DEF CodeRows
    <2> QED
      BY <1>1, <1>2, <2>1, HeldRows
  <1>3. HoldsCode(q) => CodeRow(call[q].target) \in Held(q)
    BY <1>1, HeldRows DEF HoldsCode
  <1>4. HoldsClaim(q) => ClaimRow(call[q].customer) \in Held(q)
    <2>1. \/ call[q].step \in {1, 2, 3} /\ ~(1 >= 2)
          \/ call[q].op \notin {"redeem", "expire"}
      BY <1>1, CallSteps
    <2>2. call[q].op = "redeem" /\ call[q].step >= 2 => call[q].step \in {2, 3}
      BY <2>1
    <2> QED
      BY <1>1, <2>1, <2>2, HeldRows DEF HoldsClaim
  <1> QED
    BY <1>2, <1>3, <1>4

LEMMA LinkOfTarget ==
  ASSUME NEW x, NEW l \in Links, x.target = LinkTarget(l)
  PROVE  LinkOf(x) = l
  BY DEF LinkOf, LinkTarget

-----------------------------------------------------------------------------
(* What a step must leave as it is for a call in flight.                   *)
LEMMA Distinct ==
  ASSUME NEW l, NEW k, NEW c, NEW t
  PROVE  /\ LinkTarget(l) = LinkTarget(k) => l = k
         /\ LinkTarget(l) # OwnTarget(c, "recovery")
         /\ LinkTarget(l) # OwnTarget(c, "substitute_acceptance")
         /\ OwnTarget(k, "recovery") # OwnTarget(c, "substitute_acceptance")
         /\ CodeRow(t) # OfferRow /\ CodeRow(t) # ClaimRow(c) /\ ClaimRow(c) # OfferRow
         /\ CodeRow(t) = CodeRow(l) => t = l
         /\ ClaimRow(c) = ClaimRow(l) => c = l
  BY DEF LinkTarget, OwnTarget, CodeRow, OfferRow, ClaimRow

KeepsCode(q) ==
  HoldsCode(q) =>
    /\ code'[call[q].target] = "verified"
    /\ \A l \in Links : call[q].target = LinkTarget(l) => sentTo'[l] = sentTo[l]

KeepsClaim(q) ==
  HoldsClaim(q) =>
    /\ claim'[call[q].customer] = "active"
    /\ call[q].op = "redeem" => call[q].customer \notin open'

LEMMA OthersKeep ==
  ASSUME CallsAgree, NEW S \in SUBSET Busy, DOMAIN call' = Calls, Busy' = Busy \ S,
         \A q \in Busy \ S : call'[q] = call[q] /\ KeepsCode(q) /\ KeepsClaim(q)
  PROVE  CallsAgree'
  <1>1. ASSUME NEW q \in Busy' PROVE CallAgrees(q)'
    BY <1>1 DEF CallsAgree, CallAgrees, HoldsCode, HoldsClaim, KeepsCode, KeepsClaim
  <1> QED
    BY <1>1 DEF CallsAgree, HoldsCode, HoldsClaim

LEMMA EndsAlone ==
  ASSUME CallsAgree, NEW p \in Busy, End(p)
  PROVE  /\ DOMAIN call' = Calls /\ Busy' = Busy \ {p}
         /\ \A q \in Busy \ {p} : call'[q] = call[q]
  BY DEF CallsAgree, Busy, End

LEMMA ConsumedAlone ==
  ASSUME TypeOK, CallsAgree, NEW S \in SUBSET Busy, NEW t, Consume(t),
         \A q \in Busy \ S : HoldsCode(q) => call[q].target # t
  PROVE  \A q \in Busy \ S : KeepsCode(q)
  <1> TAKE q \in Busy \ S
  <1>1. CallAgrees(q)
    BY DEF CallsAgree
  <1>2. ASSUME HoldsCode(q) PROVE code'[call[q].target] = "verified"
    <2>1. call[q].target # t
      BY <1>2
    <2>2. call[q].target \in Targets
      <3>1. \/ \E l \in Links : call[q].target = LinkTarget(l)
            \/ call[q].target = OwnTarget(call[q].customer, "recovery")
        BY <1>1, <1>2 DEF CallAgrees, HoldsCode
      <3>2. call[q].customer \in Customers
        BY <1>1 DEF CallAgrees
      <3> QED
        BY <3>1, <3>2 DEF Targets, LinkTarget, OwnTarget, Purpose
    <2> QED
      BY <1>1, <1>2, <2>1, <2>2 DEF Consume, TypeOK, CallAgrees
  <1>3. ASSUME HoldsCode(q), NEW l \in Links, call[q].target = LinkTarget(l)
        PROVE  sentTo'[l] = sentTo[l]
    BY <1>3 DEF Consume, TypeOK
  <1> QED
    BY <1>2, <1>3 DEF KeepsCode

LEMMA FreeRows ==
  ASSUME CallsAgree, NEW q \in Busy, NEW t, NEW c
  PROVE  /\ IsFree(CodeRow(t)) /\ HoldsCode(q) => call[q].target # t
         /\ IsFree(CodeRow(t)) /\ code[t] # "none" /\ call[q].op = "issue" =>
              call[q].target # t
         /\ IsFree(ClaimRow(c)) /\ HoldsClaim(q) => call[q].customer # c
  BY LockedRows DEF IsFree

LEMMA AllKeep ==
  ASSUME CallsAgree, UNCHANGED call, \A q \in Busy : KeepsCode(q) /\ KeepsClaim(q)
  PROVE  CallsAgree'
  <1>1. Busy' = Busy \ {} /\ DOMAIN call' = Calls
    BY DEF Busy, CallsAgree
  <1> QED
    BY <1>1, OthersKeep

\* Neither codes nor claims nor incidents change.
LEMMA NothingIsLost ==
  ASSUME CallsAgree, NEW q \in Busy, UNCHANGED codes
  PROVE  KeepsCode(q)
  BY DEF CallsAgree, CallAgrees, KeepsCode, codes

LEMMA NoClaimIsLost ==
  ASSUME CallsAgree, NEW q \in Busy, UNCHANGED <<claim, open>>
  PROVE  KeepsClaim(q)
  BY DEF CallsAgree, CallAgrees, KeepsClaim, HoldsClaim

-----------------------------------------------------------------------------
(* The rows of claims and of the offer, when a step does not touch them.   *)
LEMMA CountersStay ==
  ASSUME InductiveInvariant, UNCHANGED <<committed, redeemed, claim, token>>
  PROVE  CountersAgree' /\ TokensInOrder'
  <1>1. CountersAgree'
    BY DEF InductiveInvariant, CountersAgree, Taken, Redeemed
  <1>2. TokensInOrder'
    BY DEF InductiveInvariant, TokensInOrder, TokensAre
  <1> QED
    BY <1>1, <1>2

LEMMA RefusalKeeps ==
  ASSUME InductiveInvariant, NEW p \in Busy, Refuse(p)
  PROVE  InductiveInvariant'
  <1> USE DEF InductiveInvariant, Refuse, Rest
  <1>1. TypeOK'
    BY DEF TypeOK, stock, pass, codes, time
  <1>2. CountersAgree' /\ TokensInOrder'
    BY CountersStay DEF stock, pass
  <1>3. CallsAgree'
    BY OthersKeep, EndsAlone, NothingIsLost, NoClaimIsLost DEF pass
  <1> QED
    BY <1>1, <1>2, <1>3

LEMMA BeginKeeps ==
  ASSUME PassAssumption, InductiveInvariant, NEW p \in Calls, BeginAny(p)
  PROVE  InductiveInvariant'
  <1> USE DEF InductiveInvariant
  <1>1. PICK op \in Ops, c \in Customers, t \in Targets \cup {Nobody}, substitute \in BOOLEAN :
          /\ Begin(p, op, c, t, substitute)
          /\ op = "claim" => ~substitute /\ \E l \in Links : t = LinkTarget(l) /\ sentTo[l] = c
          /\ op = "recover" => ~substitute /\ t = OwnTarget(c, "recovery")
          /\ op = "redeem" => t \in {Nobody, OwnTarget(c, "substitute_acceptance")}
          /\ op = "expire" => ~substitute /\ t = Nobody
          /\ op = "issue" => ~substitute /\ t \in Targets
    <2>1. /\ \A l \in Links : LinkTarget(l) \in Targets
          /\ \A c \in Customers, purpose \in Purpose : OwnTarget(c, purpose) \in Targets
          /\ {"recovery", "substitute_acceptance"} \subseteq Purpose
      BY DEF Targets, LinkTarget, OwnTarget, Purpose
    <2> QED
      BY <2>1 DEF BeginAny, IssueCustomerChallenge, Ops
  <1> DEFINE x == [op |-> op, step |-> 1, customer |-> c, target |-> t,
                   substitute |-> substitute]
  <1>2. /\ p \notin Busy /\ UNCHANGED Rest /\ call' = [call EXCEPT ![p] = x]
        /\ \A row \in Rows(x, Path[op][1]) : IsFree(row)
        /\ Holds(x, Path[op][1])
    BY <1>1 DEF Begin
  <1>3. TypeOK'
    BY <1>2 DEF TypeOK, Rest, stock, pass, codes, time
  <1>4. CountersAgree' /\ TokensInOrder'
    BY <1>2, CountersStay DEF Rest, stock, pass
  <1>5. /\ Busy' = Busy \cup {p} /\ DOMAIN call' = Calls /\ call'[p] = x
        /\ \A q \in Busy : q # p /\ call'[q] = call[q]
    BY <1>2 DEF Busy, CallsAgree, Ops, Idle
  <1>6. /\ op = "recover" => /\ IsFree(CodeRow(t)) /\ CodeHolds(x)
                             /\ IsFree(ClaimRow(c)) /\ ClaimHolds(x)
        /\ op = "expire" => IsFree(ClaimRow(c)) /\ ClaimHolds(x)
        /\ op = "issue" /\ code[t] # "none" => IsFree(CodeRow(t))
    <2>1. /\ x.op = op /\ x.customer = c /\ x.target = t
          /\ \A row \in RowsOf(x, 1) : IsFree(row)
      BY <1>2 DEF RowsOf
    <2>2. code[t] # "none" => CodeRow(t) \in CodeRows({t})
      BY DEF CodeRows
    <2> HIDE DEF x
    <2> QED
      BY <1>2, <2>1, <2>2, RowsByStep, Steps, HoldsByKind
  <1>7. CallAgrees(p)'
    <2>1. /\ op = "recover" => code[t] = "verified"
          /\ (op = "recover" \/ op = "expire" => claim[c] = "active")
      BY <1>6 DEF CodeHolds, ClaimHolds
    <2>2. UNCHANGED <<code, claim, sentTo, open>>
      BY <1>2 DEF Rest, pass, codes
    <2>3. /\ HoldsCode(p)' <=> op = "recover"
          /\ HoldsClaim(p)' <=> op \in {"recover", "expire"}
      BY <1>5 DEF HoldsCode, HoldsClaim
    <2>4. 1 \in MayWaitAt(op)
      BY Waits DEF Ops
    <2> QED
      BY <1>1, <1>5, <2>1, <2>2, <2>3, <2>4 DEF CallAgrees, Ops
  <1>8. ASSUME NEW q \in Busy
        PROVE  /\ CallAgrees(q)'
               /\ HoldsClaim(p)' /\ HoldsClaim(q)' => call'[p].customer # call'[q].customer
               /\ HoldsCode(p)' /\ (HoldsCode(q)' \/ call'[q].op = "issue") =>
                    call'[p].target # call'[q].target
               /\ HoldsCode(q)' /\ call'[p].op = "issue" =>
                    call'[q].target # call'[p].target
    <2>1. UNCHANGED <<code, claim, sentTo, open>>
      BY <1>2 DEF Rest, pass, codes
    <2>2. CallAgrees(q)'
      BY <1>5, <2>1 DEF CallsAgree, CallAgrees, HoldsCode, HoldsClaim
    <2>3. /\ HoldsCode(q)' = HoldsCode(q) /\ HoldsClaim(q)' = HoldsClaim(q)
          /\ HoldsCode(p)' <=> op = "recover"
          /\ HoldsClaim(p)' <=> op \in {"recover", "expire"}
      BY <1>5 DEF HoldsCode, HoldsClaim
    <2>4. HoldsCode(q) => code[call[q].target] = "verified"
      BY DEF CallsAgree, CallAgrees
    <2>5. op = "recover" => code[t] = "verified"
      BY <1>6 DEF CodeHolds
    <2> QED
      BY <1>1, <1>5, <1>6, <2>2, <2>3, <2>4, <2>5, FreeRows
  <1>9. CallsAgree'
    BY <1>5, <1>7, <1>8 DEF CallsAgree, HoldsClaim, HoldsCode
  <1> QED
    BY <1>3, <1>4, <1>9

(* A call that may go on meets nobody on the rows it takes.                *)
MayGoOn(p) == \A q \in Busy : ~Blocks(q, p)

LEMMA LockKeeps ==
  ASSUME InductiveInvariant, NEW p \in Busy, MayGoOn(p),
         call[p].step + 1 < Len(Path[call[p].op]),
         Holds(call[p], Path[call[p].op][call[p].step + 1]), Lock(p)
  PROVE  InductiveInvariant'
  <1> DEFINE x == call[p]
  <1> USE DEF InductiveInvariant
  <1>1. UNCHANGED Rest
    BY DEF Lock
  <1>2. TypeOK'
    BY <1>1 DEF TypeOK, Rest, stock, pass, codes, time
  <1>3. CountersAgree' /\ TokensInOrder'
    BY <1>1, CountersStay DEF Rest, stock, pass
  <1>4. CallAgrees(p) /\ p \in Calls
    BY DEF CallsAgree, Busy
  <1>5. /\ ~HoldsCode(p) /\ x.step \in {1, 2} /\ x.step + 1 \in MayWaitAt(x.op)
        /\ \/ x.op \in {"redeem", "expire"}
           \/ x.op = "claim" /\ x.step = 1
    <2>1. /\ x.op \in {"recover", "issue"} => x.step = 1
          /\ x.op = "claim" => x.step \in {1, 2}
          /\ x.op \in {"redeem", "expire"} => x.step \in {1, 2, 3}
          /\ x.op \in {"claim", "recover", "redeem", "expire", "issue"}
      BY <1>4, CallSteps DEF Ops
    <2>2. /\ x.step = 1 => x.step + 1 = 2
          /\ x.step = 2 => x.step + 1 = 3
          /\ x.step = 3 => x.step + 1 = 4
          /\ ~(2 < 2) /\ ~(3 < 3) /\ ~(4 < 4)
      OBVIOUS
    <2>3. x.step + 1 < Len(Path[x.op])
      OBVIOUS
    <2> HIDE DEF x
    <2>4. x.op \notin {"recover", "issue"}
      BY <2>1, <2>2, <2>3, Lengths
    <2>5. x.op = "claim" => x.step = 1
      BY <2>1, <2>2, <2>3, Lengths
    <2>6. x.op # "claim" => x.step \in {1, 2}
      BY <2>1, <2>2, <2>3, <2>4, Lengths
    <2>7. x.step + 1 \in MayWaitAt(x.op)
      BY <2>1, <2>2, <2>4, <2>5, <2>6, Waits
    <2> QED
      BY <2>1, <2>4, <2>5, <2>6, <2>7 DEF HoldsCode, x
  <1>6. /\ DOMAIN call' = Calls /\ call'[p] = [x EXCEPT !.step = x.step + 1]
        /\ \A q \in Calls \ {p} : call'[q] = call[q]
    BY <1>4 DEF Lock, CallsAgree
  <1>7. call'[p] = [op |-> x.op, step |-> x.step + 1, customer |-> x.customer,
                    target |-> x.target, substitute |-> x.substitute]
    BY <1>4, <1>6 DEF CallAgrees
  <1>8. Busy' = Busy
    BY <1>4, <1>5, <1>6, <1>7 DEF Busy, Idle
  <1>9. UNCHANGED <<code, claim, sentTo, open>>
    BY <1>1 DEF Rest, pass, codes
  <1>10. ASSUME x.op = "redeem", x.step = 1
         PROVE  /\ claim[x.customer] = "active" /\ x.customer \notin open
                /\ \A q \in Busy \ {p} : HoldsClaim(q) => call[q].customer # x.customer
    <2>1. Wanted(p) = {ClaimRow(x.customer)}
      BY <1>4, <1>10, WantedRows
    <2>2. ClaimHolds(x)
      <3>1. x.step + 1 = 2 /\ x.op = "redeem"
        BY <1>10
      <3>2. Holds(x, Path[x.op][x.step + 1])
        OBVIOUS
      <3> HIDE DEF x
      <3>3. Holds(x, "claim")
        BY <3>1, <3>2, Steps
      <3> QED
        BY <3>3, HoldsByKind
    <2>3. \A q \in Busy \ {p} : HoldsClaim(q) => call[q].customer # x.customer
      BY <2>1, LockedRows DEF MayGoOn, Blocks
    <2> QED
      BY <1>10, <2>2, <2>3 DEF ClaimHolds
  <1>11. ASSUME x.op = "claim"
         PROVE  /\ x.step = 1 /\ code[x.target] = "verified"
                /\ \A l \in Links : x.target = LinkTarget(l) => sentTo[l] = x.customer
                /\ \A q \in Busy \ {p} : HoldsCode(q) \/ call[q].op = "issue" =>
                     call[q].target # x.target
    <2>1. x.step = 1 /\ Wanted(p) = {CodeRow(x.target)}
      BY <1>4, <1>5, <1>11, WantedRows
    <2>2. CodeHolds(x)
      <3>1. x.step + 1 = 2 /\ x.op = "claim"
        BY <1>11, <2>1
      <3>2. Holds(x, Path[x.op][x.step + 1])
        OBVIOUS
      <3> HIDE DEF x
      <3>3. Holds(x, "code")
        BY <3>1, <3>2, Steps
      <3> QED
        BY <3>3, HoldsByKind
    <2>3. code[x.target] = "verified"
      BY <2>2 DEF CodeHolds
    <2>4. ASSUME NEW q \in Busy \ {p}, HoldsCode(q) \/ call[q].op = "issue"
          PROVE  call[q].target # x.target
      BY <2>1, <2>3, <2>4, LockedRows DEF MayGoOn, Blocks
    <2> QED
      BY <2>1, <2>2, <2>3, <2>4 DEF CodeHolds
  <1>12. /\ HoldsCode(p)' <=> x.op = "claim"
         /\ HoldsClaim(p)' => x.op \in {"redeem", "expire"}
    BY <1>5, <1>7, <1>11 DEF HoldsCode, HoldsClaim
  <1>13. CallAgrees(p)'
    <2>1. HoldsCode(p)' => code'[x.target] = "verified"
      BY <1>9, <1>11, <1>12
    <2>2. HoldsClaim(p)' => claim'[x.customer] = "active"
      BY <1>4, <1>5, <1>9, <1>10, <1>12 DEF CallAgrees, HoldsClaim
    <2>3. x.op = "redeem" => x.customer \notin open'
      BY <1>4, <1>5, <1>9, <1>10 DEF CallAgrees
    <2>4. x.op = "claim" =>
            \E l \in Links : x.target = LinkTarget(l) /\ sentTo'[l] = x.customer
      BY <1>4, <1>9, <1>11 DEF CallAgrees
    <2> QED
      BY <1>4, <1>5, <1>7, <2>1, <2>2, <2>3, <2>4 DEF CallAgrees
  <1>14. ASSUME NEW q \in Busy \ {p}
         PROVE  /\ call'[q] = call[q]
                /\ HoldsClaim(q)' = HoldsClaim(q) /\ HoldsCode(q)' = HoldsCode(q)
    BY <1>6 DEF HoldsClaim, HoldsCode, Busy
  <1>15. ASSUME NEW q \in Busy \ {p}
         PROVE  /\ CallAgrees(q)'
                /\ HoldsClaim(p)' /\ HoldsClaim(q)' => call'[p].customer # call'[q].customer
                /\ HoldsCode(p)' /\ (HoldsCode(q)' \/ call'[q].op = "issue") =>
                     call'[p].target # call'[q].target
                /\ call'[p].op # "issue"
    <2>1. CallAgrees(q)'
      BY <1>9, <1>14 DEF CallsAgree, CallAgrees
    <2>2. ASSUME HoldsClaim(p)', HoldsClaim(q)' PROVE call'[p].customer # call'[q].customer
      <3>1. CASE x.op = "redeem" /\ x.step = 1
        BY <1>7, <1>10, <1>14, <2>2, <3>1
      <3>2. CASE ~(x.op = "redeem" /\ x.step = 1)
        <4>1. HoldsClaim(p) /\ HoldsClaim(q)
          BY <1>5, <1>12, <1>14, <2>2, <3>2 DEF HoldsClaim
        <4> QED
          BY <1>7, <1>14, <4>1 DEF CallsAgree
      <3> QED
        BY <3>1, <3>2
    <2> QED
      BY <1>5, <1>7, <1>11, <1>12, <1>14, <2>1, <2>2
  <1>16. CallsAgree'
    <2>1. ASSUME NEW q \in Busy', NEW r \in Busy', q # r
          PROVE  /\ HoldsClaim(q)' /\ HoldsClaim(r)' => call'[q].customer # call'[r].customer
                 /\ HoldsCode(q)' /\ (HoldsCode(r)' \/ call'[r].op = "issue") =>
                      call'[q].target # call'[r].target
      <3>1. CASE q = p \/ r = p
        BY <1>8, <1>15, <2>1, <3>1
      <3>2. CASE q # p /\ r # p
        BY <1>8, <1>14, <2>1, <3>2 DEF CallsAgree
      <3> QED
        BY <3>1, <3>2
    <2>2. \A q \in Busy' : CallAgrees(q)'
      BY <1>8, <1>13, <1>15
    <2> QED
      BY <1>6, <2>1, <2>2 DEF CallsAgree
  <1> QED
    BY <1>2, <1>3, <1>16

-----------------------------------------------------------------------------
(* The commits.                                                            *)
LEMMA WriteByOp ==
  ASSUME NEW x, Write(x)
  PROVE  /\ x.op = "claim" => ClaimPass(x)
         /\ x.op = "recover" => RecoverActivePass(x)
         /\ x.op = "redeem" => RedeemPass(x)
         /\ x.op = "expire" => ExpireClaim(x)
  <1>1. x.op = "claim" => ClaimPass(x)
    BY Zenon DEF Write
  <1>2. x.op = "recover" => RecoverActivePass(x)
    BY Zenon DEF Write
  <1>3. x.op = "redeem" => RedeemPass(x)
    BY Zenon DEF Write
  <1>4. x.op = "expire" => ExpireClaim(x)
    BY Zenon DEF Write
  <1> QED
    BY <1>1, <1>2, <1>3, <1>4

LEMMA LastTokens ==
  /\ LastToken("active") = "active"
  /\ LastToken("redeemed") = "consumed"
  /\ LastToken("expired") = "expired"
  <1>1. LastToken("active") = "active"
    BY Zenon DEF LastToken
  <1>2. LastToken("redeemed") = "consumed"
    BY Zenon DEF LastToken
  <1>3. LastToken("expired") = "expired"
    BY Zenon DEF LastToken
  <1> QED
    BY <1>1, <1>2, <1>3

LEMMA ConsumeTypes ==
  ASSUME TypeOK, NEW t \in Targets, Consume(t)
  PROVE  /\ code' \in [Targets -> {"none", "pending", "verified"}]
         /\ sentTo' \in [Links -> Customers \cup {Nobody}]
  BY DEF TypeOK, Consume

(* What a commit relies on: the call holds its rows, and the other calls   *)
(* hold others.                                                            *)
LEMMA AtCommit ==
  ASSUME CallsAgree, NEW p \in Busy
  PROVE  /\ CallAgrees(p) /\ p \in Calls
         /\ \A q \in Busy \ {p} :
              /\ CallAgrees(q)
              /\ HoldsClaim(p) /\ HoldsClaim(q) => call[q].customer # call[p].customer
              /\ HoldsCode(p) /\ HoldsCode(q) => call[q].target # call[p].target
              /\ call[p].op = "issue" /\ HoldsCode(q) => call[q].target # call[p].target
  BY DEF CallsAgree, Busy

\* The tokens of the claims a commit is not about.
LEMMA OtherTokens ==
  ASSUME TokensInOrder, NEW d \in Customers, claim'[d] = claim[d], token'[d] = token[d]
  PROVE  \E n \in 0 .. Rotations : TokensAre(d, n)'
  BY DEF TokensInOrder, TokensAre

LEMMA ClaimKeeps ==
  ASSUME PassAssumption, InductiveInvariant, NEW p \in Busy,
         call[p].op = "claim", call[p].step = 2,
         OfferHolds(call[p]), ClaimPass(call[p]), End(p)
  PROVE  InductiveInvariant'
  <1> DEFINE x == call[p]
  <1> USE DEF InductiveInvariant
  <1>1. /\ CallAgrees(p) /\ HoldsCode(p)
        /\ \A q \in Busy \ {p} : HoldsCode(q) => call[q].target # x.target
    BY AtCommit DEF HoldsCode
  <1>2. PICK l \in Links : x.target = LinkTarget(l)
    BY <1>1 DEF CallAgrees
  <1>3. x.target \in Targets /\ x.target[1] = l
    BY <1>1, <1>2 DEF CallAgrees, LinkTarget, Targets
  <1> PICK c \in Customers : c = x.customer
    BY <1>1 DEF CallAgrees
  <1>4. offer = "active" /\ committed < Quantity /\ claim[c] = "none"
    BY DEF OfferHolds
  <1>5. /\ claim' = [claim EXCEPT ![c] = "active"]
        /\ source' = [source EXCEPT ![c] = l]
        /\ token' = [token EXCEPT ![c][1] = "active"]
        /\ committed' = committed + 1 /\ Consume(x.target)
        /\ UNCHANGED <<offer, redeemed, open, overdue, stale>>
    BY <1>3 DEF ClaimPass, time
  <1>6. 1 \in 1 .. Rotations
    BY DEF PassAssumption
  <1>7. TypeOK'
    <2>1. committed' \in 0 .. Quantity /\ redeemed' \in 0 .. committed'
      BY <1>4, <1>5 DEF TypeOK, PassAssumption
    <2>2. token' \in [Customers -> [1 .. Rotations ->
                        {"none", "active", "revoked", "consumed", "expired"}]]
      BY <1>3, <1>5 DEF TypeOK
    <2>3. \A d \in Customers : claim[d] = "active" => claim'[d] = "active"
      BY <1>3, <1>5 DEF TypeOK
    <2> QED
      BY <1>3, <1>5, <2>1, <2>2, <2>3, ConsumeTypes DEF TypeOK
  <1>8. CountersAgree'
    <2>1. Taken' = Taken \cup {c} /\ c \notin Taken /\ Redeemed' = Redeemed
      BY <1>3, <1>4, <1>5 DEF TypeOK, Taken, Redeemed
    <2> QED
      BY <1>5, <2>1, FS_AddElement DEF CountersAgree
  <1>9. TokensInOrder'
    <2>1. TokensAre(c, 1)'
      <3>1. claim'[c] = "active" /\ LastToken(claim'[c]) = "active"
        BY <1>3, <1>5, LastTokens DEF TypeOK
      <3>2. \A r \in 1 .. Rotations : token[c][r] = "none"
        BY <1>3, <1>4 DEF TokensInOrder, TokensAre
      <3>3. \A r \in 1 .. Rotations :
              token'[c][r] = IF r = 1 THEN "active" ELSE "none"
        BY <1>3, <1>5, <1>6, <3>2 DEF TypeOK
      <3>4. \A r \in 1 .. Rotations : ~(r < 1) /\ (r > 1 <=> r # 1)
        OBVIOUS
      <3>5. claim'[c] # "none" /\ 1 # 0
        BY <3>1
      <3> QED
        BY <3>1, <3>3, <3>4, <3>5 DEF TokensAre
    <2>2. 1 \in 0 .. Rotations
      BY DEF PassAssumption
    <2>3. ASSUME NEW d \in Customers PROVE \E n \in 0 .. Rotations : TokensAre(d, n)'
      <3>1. CASE d = c
        BY <2>1, <2>2, <3>1
      <3>2. CASE d # c
        BY <1>3, <1>5, <3>2, OtherTokens DEF TypeOK
      <3> QED
        BY <3>1, <3>2
    <2> QED
      BY <2>3 DEF TokensInOrder
  <1>10. CallsAgree'
    <2>1. \A q \in Busy \ {p} : KeepsCode(q)
      BY <1>1, <1>5, ConsumedAlone
    <2>2. \A q \in Busy \ {p} : KeepsClaim(q)
      <3> SUFFICES ASSUME NEW q \in Busy \ {p}, HoldsClaim(q) PROVE KeepsClaim(q)
        BY DEF KeepsClaim
      <3>1. CallAgrees(q)
        BY AtCommit
      <3>2. /\ call[q].customer \in Customers /\ claim[call[q].customer] = "active"
            /\ call[q].op = "redeem" => call[q].customer \notin open
        BY <3>1 DEF CallAgrees, HoldsClaim
      <3> QED
        BY <1>3, <1>5, <3>2 DEF KeepsClaim, TypeOK
    <2> QED
      BY <2>1, <2>2, OthersKeep, EndsAlone
  <1> QED
    BY <1>7, <1>8, <1>9, <1>10

LEMMA OwnTargets ==
  ASSUME NEW c \in Customers
  PROVE  /\ OwnTarget(c, "recovery") \in Targets
         /\ OwnTarget(c, "substitute_acceptance") \in Targets
         /\ OwnTarget(c, "refusal_report") \in Targets
  BY DEF OwnTarget, Targets, Purpose

LEMMA ActiveToken ==
  ASSUME PassAssumption, NEW c \in Customers, NEW n \in 0 .. Rotations,
         TokensAre(c, n), claim[c] = "active"
  PROVE  n \in 1 .. Rotations /\ Tokens(c, "active") = {n}
  <1>1. n \in 1 .. Rotations
    BY DEF TokensAre, PassAssumption
  <1>2. \A r \in 1 .. Rotations :
          token[c][r] = IF r > n THEN "none" ELSE IF r < n THEN "revoked" ELSE "active"
    BY LastTokens DEF TokensAre
  <1>3. \A r \in 1 .. Rotations : r > n \/ r < n \/ r = n
    BY <1>1
  <1>4. \A r \in 1 .. Rotations : token[c][r] = "active" <=> r = n
    BY <1>1, <1>2, <1>3
  <1> QED
    BY <1>1, <1>4 DEF Tokens

LEMMA RecoverKeeps ==
  ASSUME PassAssumption, InductiveInvariant, NEW p \in Busy, call[p].op = "recover",
         Rotations \notin Tokens(call[p].customer, "active"),
         RecoverActivePass(call[p]), End(p)
  PROVE  InductiveInvariant'
  <1> DEFINE x == call[p]
  <1> USE DEF InductiveInvariant
  <1>1. /\ CallAgrees(p) /\ HoldsCode(p) /\ HoldsClaim(p)
        /\ \A q \in Busy \ {p} : HoldsCode(q) => call[q].target # x.target
    BY AtCommit DEF HoldsCode, HoldsClaim
  <1> PICK c \in Customers : c = x.customer
    BY <1>1 DEF CallAgrees
  <1>2. x.target \in Targets /\ claim[c] = "active"
    BY <1>1, OwnTargets DEF CallAgrees
  <1>3. PICK n \in 0 .. Rotations : TokensAre(c, n)
    BY DEF TokensInOrder
  <1>4. n \in 1 .. Rotations /\ Tokens(c, "active") = {n} /\ n # Rotations
    BY <1>2, <1>3, ActiveToken
  <1>5. n \in Nat /\ Rotations \in Nat /\ n < Rotations /\ n + 1 \in 1 .. Rotations
    BY <1>4 DEF PassAssumption
  <1>6. /\ token' = [token EXCEPT ![c] = Rotated(c)]
        /\ stale' = stale \ ({c} \ overdue) /\ Consume(x.target)
        /\ UNCHANGED <<offer, committed, redeemed, claim, source, open, overdue>>
    BY DEF RecoverActivePass, stock
  <1>7. \A r \in 1 .. Rotations :
          Rotated(c)[r] = IF r = n THEN "revoked" ELSE IF r = n + 1 THEN "active" ELSE token[c][r]
    <2> SUFFICES ASSUME NEW r \in 1 .. Rotations
                 PROVE  Rotated(c)[r] = IF r = n THEN "revoked"
                                        ELSE IF r = n + 1 THEN "active" ELSE token[c][r]
      OBVIOUS
    <2>1. r - 1 = n <=> r = n + 1
      BY <1>5
    <2>2. Rotated(c)[r] = IF r \in Tokens(c, "active") THEN "revoked"
                          ELSE IF r - 1 \in Tokens(c, "active") THEN "active"
                          ELSE token[c][r]
      BY DEF Rotated
    <2> QED
      BY <1>4, <2>1, <2>2
  <1>8. TypeOK'
    <2>1. Rotated(c) \in [1 .. Rotations -> {"none", "active", "revoked", "consumed", "expired"}]
      <3>1. \A r \in 1 .. Rotations :
              token[c][r] \in {"none", "active", "revoked", "consumed", "expired"}
        BY DEF TypeOK
      <3> HIDE DEF InductiveInvariant
      <3> QED
        BY <3>1 DEF Rotated
    <2> QED
      BY <1>2, <1>6, <2>1, ConsumeTypes DEF TypeOK
  <1>9. CountersAgree'
    BY <1>6 DEF CountersAgree, Taken, Redeemed
  <1>10. TokensInOrder'
    <2>1. TokensAre(c, n + 1)'
      <3>1. claim'[c] = "active" /\ token'[c] = Rotated(c)
        BY <1>2, <1>6 DEF TypeOK
      <3>2. \A r \in 1 .. Rotations :
              token[c][r] = IF r > n THEN "none" ELSE IF r < n THEN "revoked" ELSE "active"
        BY <1>2, <1>3, LastTokens DEF TokensAre
      <3>3. \A r \in 1 .. Rotations :
              Rotated(c)[r] = IF r > n + 1 THEN "none" ELSE IF r < n + 1 THEN "revoked" ELSE "active"
        BY <1>5, <1>7, <3>2
      <3>4. n + 1 # 0
        BY <1>5
      <3> QED
        BY <3>1, <3>3, <3>4, LastTokens DEF TokensAre
    <2>2. \A d \in Customers \ {c} : claim'[d] = claim[d] /\ token'[d] = token[d]
      BY <1>6 DEF TypeOK
    <2>3. n + 1 \in 0 .. Rotations
      BY <1>5
    <2> QED
      BY <2>1, <2>2, <2>3, OtherTokens DEF TokensInOrder
  <1>11. CallsAgree'
    <2>1. \A q \in Busy \ {p} : KeepsCode(q)
      BY <1>1, <1>6, ConsumedAlone
    <2> QED
      BY <1>6, <2>1, NoClaimIsLost, OthersKeep, EndsAlone
  <1> QED
    BY <1>8, <1>9, <1>10, <1>11

(* The claim ends, and its live token with it.                             *)
LEMMA TokenEnds ==
  ASSUME PassAssumption, TypeOK, TokensInOrder, NEW c \in Customers, claim[c] = "active",
         NEW s \in {"redeemed", "expired"},
         claim' = [claim EXCEPT ![c] = s], EndToken(c, LastToken(s))
  PROVE  /\ TokensInOrder'
         /\ token' \in [Customers -> [1 .. Rotations ->
                           {"none", "active", "revoked", "consumed", "expired"}]]
  <1>1. PICK n \in 0 .. Rotations : TokensAre(c, n)
    BY DEF TokensInOrder
  <1>2. n \in 1 .. Rotations /\ Tokens(c, "active") = {n}
    BY <1>1, ActiveToken
  <1>3. claim'[c] = s /\ LastToken(s) \in {"consumed", "expired"}
    BY LastTokens DEF TypeOK
  <1>4. \A r \in 1 .. Rotations : token'[c][r] = IF r = n THEN LastToken(s) ELSE token[c][r]
    BY <1>2 DEF EndToken, TypeOK
  <1>5. TokensAre(c, n)'
    <2>1. \A r \in 1 .. Rotations :
            token[c][r] = IF r > n THEN "none" ELSE IF r < n THEN "revoked" ELSE LastToken(claim[c])
      BY <1>1 DEF TokensAre
    <2>2. \A r \in 1 .. Rotations :
            token'[c][r] = IF r > n THEN "none" ELSE IF r < n THEN "revoked" ELSE LastToken(s)
      BY <1>2, <1>4, <2>1
    <2>3. claim'[c] # "none" /\ n # 0
      BY <1>2, <1>3
    <2> QED
      BY <1>3, <2>2, <2>3 DEF TokensAre
  <1>6. TokensInOrder'
    <2>1. \A d \in Customers \ {c} : claim'[d] = claim[d] /\ token'[d] = token[d]
      BY DEF TypeOK, EndToken
    <2> QED
      BY <1>5, <2>1, OtherTokens DEF TokensInOrder
  <1>7. token' \in [Customers -> [1 .. Rotations ->
                      {"none", "active", "revoked", "consumed", "expired"}]]
    BY <1>3 DEF EndToken, TypeOK
  <1> QED
    BY <1>6, <1>7

LEMMA ClaimEnds ==
  ASSUME TypeOK, CallsAgree, NEW p \in Busy, HoldsClaim(p), UNCHANGED open,
         NEW s, claim' = [claim EXCEPT ![call[p].customer] = s]
  PROVE  \A q \in Busy \ {p} : KeepsClaim(q)
  <1> SUFFICES ASSUME NEW q \in Busy \ {p}, HoldsClaim(q) PROVE KeepsClaim(q)
    BY DEF KeepsClaim
  <1>1. CallAgrees(q) /\ CallAgrees(p) /\ call[q].customer # call[p].customer
    BY AtCommit
  <1>2. /\ call[q].customer \in Customers /\ claim[call[q].customer] = "active"
        /\ call[q].op = "redeem" => call[q].customer \notin open
    BY <1>1 DEF CallAgrees, HoldsClaim
  <1> QED
    BY <1>1, <1>2 DEF KeepsClaim, TypeOK

LEMMA RedeemKeeps ==
  ASSUME PassAssumption, InductiveInvariant, NEW p \in Busy,
         call[p].op = "redeem", call[p].step >= 2,
         AcceptanceHolds(call[p]), RedeemPass(call[p]), End(p)
  PROVE  InductiveInvariant'
  <1> DEFINE x == call[p]
  <1> USE DEF InductiveInvariant
  <1>1. CallAgrees(p) /\ HoldsClaim(p) /\ ~HoldsCode(p)
    BY AtCommit DEF HoldsCode, HoldsClaim
  <1> PICK c \in Customers : c = x.customer
    BY <1>1 DEF CallAgrees
  <1>2. claim[c] = "active"
    BY <1>1 DEF CallAgrees
  <1>3. x.substitute => x.target = OwnTarget(c, "substitute_acceptance") /\ x.target \in Targets
    BY <1>1, OwnTargets DEF CallAgrees, AcceptanceHolds, CodeHolds
  <1>4. /\ claim' = [claim EXCEPT ![c] = "redeemed"]
        /\ EndToken(c, "consumed") /\ redeemed' = redeemed + 1
        /\ IF x.substitute THEN Consume(x.target) ELSE UNCHANGED codes
        /\ overdue' = overdue \ {c} /\ stale' = stale \ {c}
        /\ UNCHANGED <<offer, committed, source, open>>
    BY DEF RedeemPass
  <1>5. /\ Taken' = Taken /\ c \in Taken
        /\ Redeemed' = Redeemed \cup {c} /\ c \notin Redeemed
    BY <1>2, <1>4 DEF Taken, Redeemed, TypeOK
  <1>6. /\ Cardinality(Redeemed') = redeemed + 1
        /\ redeemed + 1 <= committed
    <2>1. IsFiniteSet(Taken) /\ Redeemed \subseteq Taken /\ Redeemed' \subseteq Taken
      BY <1>5 DEF CountersAgree, Taken, Redeemed
    <2>2. IsFiniteSet(Redeemed)
      BY <2>1, FS_Subset
    <2>3. Cardinality(Redeemed') = Cardinality(Redeemed) + 1
      BY <1>5, <2>2, FS_AddElement
    <2>4. Cardinality(Redeemed') <= Cardinality(Taken)
      BY <2>1, FS_Subset
    <2> QED
      BY <2>3, <2>4 DEF CountersAgree
  <1>7. CountersAgree'
    BY <1>4, <1>5, <1>6 DEF CountersAgree
  <1>8. /\ TokensInOrder'
        /\ token' \in [Customers -> [1 .. Rotations ->
                          {"none", "active", "revoked", "consumed", "expired"}]]
    BY <1>2, <1>4, TokenEnds, LastTokens
  <1>9. TypeOK'
    <2>1. /\ code' \in [Targets -> {"none", "pending", "verified"}]
          /\ sentTo' \in [Links -> Customers \cup {Nobody}]
      BY <1>3, <1>4, ConsumeTypes DEF TypeOK, codes
    <2>2. redeemed' \in 0 .. committed'
      BY <1>4, <1>6 DEF TypeOK
    <2>3. claim' \in [Customers -> {"none", "active", "redeemed", "expired"}]
      BY <1>4 DEF TypeOK
    <2>4. overdue' \subseteq stale' /\ stale' \subseteq {d \in Customers : claim'[d] = "active"}
      BY <1>4 DEF TypeOK
    <2> QED
      BY <1>4, <1>8, <2>1, <2>2, <2>3, <2>4 DEF TypeOK
  <1>10. CallsAgree'
    <2>1. ASSUME NEW q \in Busy \ {p} PROVE KeepsCode(q)
      <3>1. CASE x.substitute
        <4>1. Consume(x.target)
          BY <1>4, <3>1
        <4>2. \A r \in Busy \ {p} : HoldsCode(r) => call[r].target # x.target
          <5> SUFFICES ASSUME NEW r \in Busy \ {p}, HoldsCode(r) PROVE call[r].target # x.target
            OBVIOUS
          <5>1. /\ call[r].op = "claim" => \E l \in Links : call[r].target = LinkTarget(l)
                /\ call[r].op = "recover" =>
                     call[r].target = OwnTarget(call[r].customer, "recovery")
            <6>1. CallAgrees(r)
              BY AtCommit
            <6> QED
              BY <6>1 DEF CallAgrees
          <5> QED
            BY <1>3, <3>1, <5>1, Distinct DEF HoldsCode
        <4> QED
          BY <4>1, <4>2, ConsumedAlone
      <3>2. CASE ~x.substitute
        BY <1>4, <3>2, NothingIsLost
      <3> QED
        BY <3>1, <3>2
    <2>2. \A q \in Busy \ {p} : KeepsClaim(q)
      BY <1>1, <1>4, ClaimEnds
    <2> QED
      BY <2>1, <2>2, OthersKeep, EndsAlone
  <1> QED
    BY <1>7, <1>8, <1>9, <1>10

LEMMA ExpireKeeps ==
  ASSUME PassAssumption, InductiveInvariant, NEW p \in Busy, call[p].op = "expire",
         ExpireClaim(call[p]), End(p)
  PROVE  InductiveInvariant'
  <1> DEFINE x == call[p]
  <1> USE DEF InductiveInvariant
  <1>1. CallAgrees(p) /\ HoldsClaim(p)
    BY AtCommit DEF HoldsCode, HoldsClaim
  <1> PICK c \in Customers : c = x.customer
    BY <1>1 DEF CallAgrees
  <1>2. claim[c] = "active"
    BY <1>1 DEF CallAgrees
  <1>3. /\ claim' = [claim EXCEPT ![c] = "expired"]
        /\ EndToken(c, "expired") /\ committed' = committed - 1
        /\ overdue' = overdue \ {c} /\ stale' = stale \ {c}
        /\ UNCHANGED <<offer, redeemed, source, codes, open>>
    BY DEF ExpireClaim
  <1>4. /\ Taken' = Taken \ {c} /\ c \in Taken
        /\ Redeemed' = Redeemed /\ Redeemed \subseteq Taken'
    BY <1>2, <1>3 DEF Taken, Redeemed, TypeOK
  <1>5. /\ IsFiniteSet(Taken') /\ Cardinality(Taken') = committed - 1
        /\ redeemed <= committed - 1
    <2>1. IsFiniteSet(Taken') /\ Cardinality(Taken') = Cardinality(Taken) - 1
      BY <1>4, FS_RemoveElement DEF CountersAgree
    <2>2. Cardinality(Redeemed) <= Cardinality(Taken')
      BY <1>4, <2>1, FS_Subset
    <2> QED
      BY <2>1, <2>2 DEF CountersAgree
  <1>6. CountersAgree'
    BY <1>3, <1>4, <1>5 DEF CountersAgree
  <1>7. /\ TokensInOrder'
        /\ token' \in [Customers -> [1 .. Rotations ->
                          {"none", "active", "revoked", "consumed", "expired"}]]
    BY <1>2, <1>3, TokenEnds, LastTokens
  <1>8. TypeOK'
    <2>1. committed' \in 0 .. Quantity /\ redeemed' \in 0 .. committed'
      BY <1>3, <1>5 DEF TypeOK, PassAssumption
    <2>2. claim' \in [Customers -> {"none", "active", "redeemed", "expired"}]
      BY <1>3 DEF TypeOK
    <2>3. overdue' \subseteq stale' /\ stale' \subseteq {d \in Customers : claim'[d] = "active"}
      BY <1>3 DEF TypeOK
    <2> QED
      BY <1>3, <1>7, <2>1, <2>2, <2>3 DEF TypeOK, codes
  <1>9. CallsAgree'
    <2>1. \A q \in Busy \ {p} : KeepsClaim(q)
      BY <1>1, <1>3, ClaimEnds
    <2>2. \A q \in Busy \ {p} : KeepsCode(q)
      BY <1>3, NothingIsLost
    <2> QED
      BY <2>1, <2>2, OthersKeep, EndsAlone
  <1> QED
    BY <1>6, <1>7, <1>8, <1>9

-----------------------------------------------------------------------------
(* The calls of one step.                                                  *)
LEMMA StatusKeeps ==
  ASSUME InductiveInvariant, NEW to \in {"configured", "active", "claims_paused"},
         offer' = to \/ offer' = offer,
         UNCHANGED <<committed, redeemed, pass, codes, time, call>>,
         open' \subseteq open
  PROVE  InductiveInvariant'
  <1> USE DEF InductiveInvariant
  <1>1. TypeOK'
    BY DEF TypeOK, pass, codes, time
  <1>2. CountersAgree' /\ TokensInOrder'
    BY CountersStay DEF pass
  <1>3. \A q \in Busy : KeepsCode(q) /\ KeepsClaim(q)
    BY NothingIsLost DEF CallsAgree, CallAgrees, KeepsClaim, HoldsClaim, pass
  <1> QED
    BY <1>1, <1>2, <1>3, AllKeep

LEMMA TimeKeeps ==
  ASSUME InductiveInvariant, NEW c \in Customers, TokenLapses(c) \/ ClaimLapses(c)
  PROVE  InductiveInvariant'
  <1> USE DEF InductiveInvariant, TokenLapses, ClaimLapses
  <1>1. TypeOK'
    BY DEF TypeOK, stock, pass, codes
  <1>2. CountersAgree' /\ TokensInOrder'
    BY CountersStay DEF stock, pass
  <1>3. CallsAgree'
    BY NothingIsLost, NoClaimIsLost, AllKeep DEF pass
  <1> QED
    BY <1>1, <1>2, <1>3

LEMMA ReportKeeps ==
  ASSUME InductiveInvariant, NEW c \in Customers, ReportFulfillmentProblem(c)
  PROVE  InductiveInvariant'
  <1> DEFINE t == OwnTarget(c, "refusal_report")
  <1> USE DEF InductiveInvariant
  <1>1. /\ IsFree(ClaimRow(c)) /\ IsFree(CodeRow(t)) /\ Consume(t)
        /\ open' = open \cup {c} /\ UNCHANGED <<stock, pass, time, call>>
    BY DEF ReportFulfillmentProblem
  <1>2. TypeOK'
    BY <1>1, OwnTargets, ConsumeTypes DEF TypeOK, stock, pass, time
  <1>3. CountersAgree' /\ TokensInOrder'
    BY <1>1, CountersStay DEF stock, pass
  <1>4. \A q \in Busy : KeepsCode(q)
    <2>1. \A q \in Busy \ {} : HoldsCode(q) => call[q].target # t
      BY <1>1, FreeRows
    <2> HIDE DEF t
    <2> QED
      BY <1>1, <2>1, ConsumedAlone
  <1>5. \A q \in Busy : KeepsClaim(q)
    BY <1>1, FreeRows DEF CallsAgree, CallAgrees, KeepsClaim, HoldsClaim, pass
  <1> QED
    BY <1>1, <1>2, <1>3, <1>4, <1>5, AllKeep

LEMMA CodeKeeps ==
  ASSUME InductiveInvariant, NEW t \in Targets, VerifyCustomerChallenge(t) \/ CodeIsDead(t)
  PROVE  InductiveInvariant'
  <1> USE DEF InductiveInvariant
  <1>1. UNCHANGED <<stock, pass, open, time, call>> /\ IsFree(CodeRow(t))
    BY DEF VerifyCustomerChallenge, CodeIsDead
  <1>2. TypeOK'
    BY <1>1, ConsumeTypes
    DEF VerifyCustomerChallenge, CodeIsDead, TypeOK, stock, pass, time
  <1>3. CountersAgree' /\ TokensInOrder'
    BY <1>1, CountersStay DEF stock, pass
  <1>4. \A q \in Busy : KeepsCode(q)
    <2>1. \A q \in Busy \ {} : HoldsCode(q) => call[q].target # t
      BY <1>1, FreeRows
    <2>2. CASE CodeIsDead(t)
      BY <2>1, <2>2, ConsumedAlone DEF CodeIsDead
    <2>3. CASE VerifyCustomerChallenge(t)
      <3>1. UNCHANGED sentTo /\ code' = [code EXCEPT ![t] = "verified"]
        BY <2>3 DEF VerifyCustomerChallenge
      <3>2. ASSUME NEW q \in Busy, HoldsCode(q) PROVE code'[call[q].target] = "verified"
        <4>1. CallAgrees(q)
          BY AtCommit
        <4>2. call[q].target \in Targets /\ code[call[q].target] = "verified"
          BY <3>2, <4>1, OwnTargets DEF CallAgrees, HoldsCode, Targets, LinkTarget
        <4> QED
          BY <3>1, <4>2 DEF TypeOK
      <3> QED
        BY <3>1, <3>2 DEF KeepsCode
    <2> QED
      BY <2>2, <2>3
  <1> QED
    BY <1>1, <1>2, <1>3, <1>4, NoClaimIsLost, AllKeep DEF pass

\* The code of a link that a call waits for or uses is not superseded.
LEMMA TargetIsKept ==
  ASSUME InductiveInvariant, NEW p \in Busy, MayGoOn(p), call[p].op = "issue",
         NEW q \in Busy \ {p}, call[q].op # "issue", call[q].target = call[p].target
  PROVE  call[q].op \in {"redeem", "expire"}
  <1>1. CallAgrees(p) /\ CallAgrees(q) /\ p \in Calls /\ q \in Calls
    BY AtCommit DEF InductiveInvariant
  <1>3. ASSUME call[q].op = "claim" PROVE FALSE
    <2>1. PICK l \in Links : call[q].target = LinkTarget(l)
      BY <1>1, <1>3 DEF CallAgrees
    <2>2. LinkOf(call[q]) = l /\ LinkOf(call[p]) = l
      BY <2>1, LinkOfTarget
    <2>3. LinkRow(l) \in Held(q)
      <3>1. call[q].step \in {1, 2}
        BY <1>1, <1>3, CallSteps
      <3> QED
        BY <1>1, <1>3, <2>2, <3>1, HeldRows
    <2>4. LinkRow(l) \in Wanted(p)
      BY <1>1, <2>2, WantedRows
    <2> QED
      BY <2>3, <2>4 DEF MayGoOn, Blocks
  <1>4. call[q].op # "recover"
    BY AtCommit DEF HoldsCode, InductiveInvariant
  <1> QED
    BY <1>1, <1>3, <1>4 DEF CallAgrees, Ops

LEMMA SendKeeps ==
  ASSUME InductiveInvariant, NEW p \in Busy, MayGoOn(p), call[p].op = "issue", Send(p)
  PROVE  InductiveInvariant'
  <1> DEFINE t == call[p].target
             IsLost(q) == q \in Busy /\ call[q].op # "issue" /\ call[q].target = t
  <1> USE DEF InductiveInvariant
  <1>1. /\ code' = [code EXCEPT ![t] = "pending"]
        /\ sentTo' = [l \in Links |-> IF t = LinkTarget(l) THEN call[p].customer ELSE sentTo[l]]
        /\ call' = [q \in Calls |-> IF q = p THEN Idle
                                    ELSE IF IsLost(q) THEN [call[q] EXCEPT !.target = Nobody]
                                    ELSE call[q]]
        /\ UNCHANGED <<stock, pass, open, time>>
    BY DEF Send
  <1>2. call[p].customer \in Customers /\ p \in Calls
    BY AtCommit DEF CallAgrees
  <1>3. TypeOK'
    BY <1>1, <1>2 DEF TypeOK, stock, pass, time
  <1>4. CountersAgree' /\ TokensInOrder'
    BY <1>1, CountersStay DEF stock, pass
  <1>5. UNCHANGED <<claim, open>>
    BY <1>1 DEF pass
  <1>6. ASSUME NEW q \in Busy \ {p}
        PROVE  /\ CallAgrees(q)' /\ q \in Busy'
               /\ HoldsClaim(q)' = HoldsClaim(q) /\ HoldsCode(q)' = HoldsCode(q)
               /\ call'[q].customer = call[q].customer /\ call'[q].op = call[q].op
               /\ HoldsCode(q) \/ call[q].op = "issue" => call'[q].target = call[q].target
    <2>1. CallAgrees(q) /\ q \in Calls
      BY AtCommit
    <2>2. HoldsCode(q) => call[q].target # t
      BY AtCommit
    <2>3. CASE IsLost(q)
      <3>1. call'[q] = [op |-> call[q].op, step |-> call[q].step, customer |-> call[q].customer,
                        target |-> Nobody, substitute |-> call[q].substitute]
        BY <1>1, <2>1, <2>3 DEF CallAgrees
      <3>2. call[q].op \in {"redeem", "expire"}
        BY <2>3, TargetIsKept
      <3>3. /\ HoldsClaim(q)' = HoldsClaim(q) /\ HoldsCode(q)' = HoldsCode(q)
            /\ ~HoldsCode(q)
        BY <3>1, <3>2 DEF HoldsCode, HoldsClaim
      <3> QED
        BY <1>5, <2>1, <3>1, <3>2, <3>3 DEF CallAgrees, Busy, Idle
    <2>4. CASE ~IsLost(q)
      <3>1. call'[q] = call[q]
        BY <1>1, <2>1, <2>4
      <3>2. HoldsClaim(q)' = HoldsClaim(q) /\ HoldsCode(q)' = HoldsCode(q) /\ q \in Busy'
        BY <2>1, <3>1 DEF HoldsCode, HoldsClaim, Busy
      <3>3. HoldsCode(q) => code'[call[q].target] = "verified"
        BY <1>1, <2>1, <2>2 DEF CallAgrees, TypeOK
      <3>4. HoldsCode(q) => \A l \in Links : call[q].target = LinkTarget(l) => sentTo'[l] = sentTo[l]
        BY <1>1, <2>2
      <3>5. call[q].op = "claim" =>
              \E l \in Links : /\ call[q].target = LinkTarget(l)
                               /\ call[q].step = 2 => sentTo'[l] = call[q].customer
        BY <2>1, <3>4 DEF CallAgrees, HoldsCode
      <3> QED
        BY <1>5, <2>1, <3>1, <3>2, <3>3, <3>5 DEF CallAgrees
    <2> QED
      BY <2>3, <2>4
  <1>7. Busy' = Busy \ {p} /\ DOMAIN call' = Calls
    BY <1>1, <1>6 DEF Busy
  <1>8. CallsAgree'
    BY <1>6, <1>7 DEF CallsAgree
  <1> QED
    BY <1>3, <1>4, <1>8

-----------------------------------------------------------------------------
LEMMA Initially == PassAssumption /\ Init => InductiveInvariant
  <1> SUFFICES ASSUME PassAssumption, Init PROVE InductiveInvariant
    OBVIOUS
  <1>1. TypeOK
    BY DEF PassAssumption, Init, TypeOK
  <1>2. CountersAgree
    <2>1. Taken = {} /\ Redeemed = {}
      BY DEF Init, Taken, Redeemed
    <2> QED
      BY <2>1, FS_EmptySet DEF Init, CountersAgree
  <1>3. TokensInOrder
    <2>1. \A c \in Customers : TokensAre(c, 0)
      BY DEF Init, TokensAre
    <2> QED
      BY <2>1 DEF TokensInOrder, PassAssumption
  <1>4. CallsAgree
    BY DEF Init, CallsAgree, Busy
  <1> QED
    BY <1>1, <1>2, <1>3, <1>4 DEF InductiveInvariant

\* What a call that goes on has seen to.
LEMMA ServeCases ==
  ASSUME InductiveInvariant, NEW p \in Calls, Serve(p)
  PROVE  \/ p \in Busy /\ Refuse(p)
         \/ /\ p \in Busy /\ MayGoOn(p) /\ Lock(p)
            /\ call[p].step + 1 < Len(Path[call[p].op])
            /\ Holds(call[p], Path[call[p].op][call[p].step + 1])
         \/ p \in Busy /\ MayGoOn(p) /\ call[p].op = "issue" /\ Send(p)
         \/ /\ p \in Busy /\ Write(call[p]) /\ End(p) /\ call[p].op # "issue"
            /\ call[p].op = "claim" => call[p].step = 2 /\ OfferHolds(call[p])
            /\ call[p].op = "recover" =>
                 Rotations \notin Tokens(call[p].customer, "active")
            /\ call[p].op = "redeem" => call[p].step >= 2 /\ AcceptanceHolds(call[p])
  <1> DEFINE x == call[p]
  <1>1. p \in Busy /\ MayGoOn(p)
    BY DEF Serve, MayGoOn
  <1>2. CallAgrees(p)
    BY <1>1, AtCommit DEF InductiveInvariant
  <1>3. \/ Refuse(p)
        \/ /\ Holds(x, Path[x.op][x.step + 1]) /\ x.step + 1 < Len(Path[x.op]) /\ Lock(p)
        \/ x.op = "issue" /\ Send(p)
        \/ /\ Holds(x, Path[x.op][x.step + 1]) /\ ~(x.step + 1 < Len(Path[x.op]))
           /\ Write(x) /\ End(p) /\ x.op # "issue"
    BY DEF Serve
  <1>4. ASSUME Holds(x, Path[x.op][x.step + 1]), ~(x.step + 1 < Len(Path[x.op]))
        PROVE  /\ x.op = "claim" => x.step = 2 /\ OfferHolds(x)
               /\ x.op = "recover" => Rotations \notin Tokens(x.customer, "active")
               /\ x.op = "redeem" => x.step >= 2 /\ AcceptanceHolds(x)
    <2>1. /\ x.op = "recover" => x.step = 1
          /\ x.op = "claim" => x.step \in {1, 2}
          /\ x.op \in {"redeem", "expire"} => x.step \in {1, 2, 3}
      BY <1>2, CallSteps
    <2>2. /\ x.step = 1 => x.step + 1 = 2
          /\ x.step = 2 => x.step + 1 = 3
          /\ x.step = 3 => x.step + 1 = 4 /\ 3 >= 2
          /\ 2 < 4 /\ 3 < 4 /\ 2 < 3
      OBVIOUS
    <2> HIDE DEF x
    <2>3. CASE x.op = "claim"
      <3>1. x.step = 2 /\ x.step + 1 = 3
        BY <1>4, <2>1, <2>2, <2>3, Lengths
      <3>2. Holds(x, "offer")
        BY <1>4, <2>3, <3>1, Steps
      <3> QED
        BY <2>3, <3>1, <3>2, HoldsByKind
    <2>4. CASE x.op = "recover"
      <3>1. x.step + 1 = 2
        BY <2>1, <2>2, <2>4
      <3>2. Holds(x, "tokens")
        BY <1>4, <2>4, <3>1, Steps
      <3> QED
        BY <2>4, <3>2, HoldsByKind
    <2>5. CASE x.op = "redeem"
      <3>1. x.step = 3
        BY <1>4, <2>1, <2>2, <2>5, Lengths
      <3>2. Holds(x, "codes and link")
        BY <1>4, <2>2, <2>5, <3>1, Steps
      <3> QED
        BY <2>2, <2>5, <3>1, <3>2, HoldsByKind
    <2> QED
      BY <2>3, <2>4, <2>5
  <1> QED
    BY <1>1, <1>3, <1>4

LEMMA ServeKeeps ==
  ASSUME PassAssumption, InductiveInvariant, NEW p \in Calls, Serve(p)
  PROVE  InductiveInvariant'
  <1>1. CASE p \in Busy /\ Refuse(p)
    BY <1>1, RefusalKeeps
  <1>2. CASE /\ p \in Busy /\ MayGoOn(p) /\ Lock(p)
             /\ call[p].step + 1 < Len(Path[call[p].op])
             /\ Holds(call[p], Path[call[p].op][call[p].step + 1])
    BY <1>2, LockKeeps
  <1>3. CASE p \in Busy /\ MayGoOn(p) /\ call[p].op = "issue" /\ Send(p)
    BY <1>3, SendKeeps
  <1>4. CASE /\ p \in Busy /\ Write(call[p]) /\ End(p) /\ call[p].op # "issue"
             /\ call[p].op = "claim" => call[p].step = 2 /\ OfferHolds(call[p])
             /\ call[p].op = "recover" =>
                  Rotations \notin Tokens(call[p].customer, "active")
             /\ call[p].op = "redeem" => call[p].step >= 2 /\ AcceptanceHolds(call[p])
    <2>1. call[p].op \in Ops
      BY <1>4, AtCommit DEF CallAgrees, InductiveInvariant
    <2>2. /\ call[p].op = "claim" => ClaimPass(call[p])
          /\ call[p].op = "recover" => RecoverActivePass(call[p])
          /\ call[p].op = "redeem" => RedeemPass(call[p])
          /\ call[p].op = "expire" => ExpireClaim(call[p])
      BY <1>4, WriteByOp
    <2>3. CASE call[p].op = "claim"
      BY <1>4, <2>2, <2>3, ClaimKeeps
    <2>4. CASE call[p].op = "recover"
      BY <1>4, <2>2, <2>4, RecoverKeeps
    <2>5. CASE call[p].op = "redeem"
      BY <1>4, <2>2, <2>5, RedeemKeeps
    <2>6. CASE call[p].op = "expire"
      BY <1>4, <2>2, <2>6, ExpireKeeps
    <2> QED
      BY <1>4, <2>1, <2>3, <2>4, <2>5, <2>6 DEF Ops
  <1> QED
    BY <1>1, <1>2, <1>3, <1>4, ServeCases

LEMMA StepKeeps ==
  ASSUME PassAssumption, InductiveInvariant, [Next]_vars
  PROVE  InductiveInvariant'
  <1>1. CASE UNCHANGED vars
    <2>1. UNCHANGED <<stock, pass, codes, open, time, call>>
      BY <1>1 DEF vars
    <2>2. offer' = offer /\ offer \in {"configured", "active", "claims_paused"}
          /\ UNCHANGED <<committed, redeemed>>
      BY <2>1 DEF stock, InductiveInvariant, TypeOK
    <2> QED
      BY <2>1, <2>2, StatusKeeps
  <1>2. ASSUME NEW p \in Calls, BeginAny(p) \/ Serve(p) \/ Abort(p)
        PROVE  InductiveInvariant'
    BY <1>2, BeginKeeps, ServeKeeps, RefusalKeeps DEF Abort
  <1>3. CASE ActivateOffer \/ PauseFutureClaims
    BY <1>3, StatusKeeps DEF ActivateOffer, PauseFutureClaims, ChangeOfferStatus
  <1>4. ASSUME NEW c \in Customers,
               TokenLapses(c) \/ ClaimLapses(c) \/ ReportFulfillmentProblem(c)
        PROVE  InductiveInvariant'
    BY <1>4, TimeKeeps, ReportKeeps
  <1>5. ASSUME NEW c \in Customers, Dismiss(c) \/ \E pauses \in BOOLEAN : Confirm(c, pauses)
        PROVE  InductiveInvariant'
    <2>1. /\ offer' = "claims_paused" \/ offer' = offer
          /\ UNCHANGED <<committed, redeemed, pass, codes, time, call>>
          /\ open' \subseteq open
      BY <1>5 DEF Dismiss, Confirm, stock
    <2> QED
      BY <2>1, StatusKeeps
  <1>6. ASSUME NEW t \in Targets, VerifyCustomerChallenge(t) \/ CodeIsDead(t)
        PROVE  InductiveInvariant'
    BY <1>6, CodeKeeps
  <1> QED
    BY <1>1, <1>2, <1>3, <1>4, <1>5, <1>6 DEF Next

(* The rows of the pass and the calls in flight agree in every state.      *)
THEOREM Invariance == ASSUME PassAssumption PROVE Spec => []InductiveInvariant
  <1>1. Init => InductiveInvariant
    BY Initially, PassAssumption
  <1>2. InductiveInvariant /\ [Next]_vars => InductiveInvariant'
    BY StepKeeps, PassAssumption
  <1> QED
    BY <1>1, <1>2, PTL DEF Spec

(* Every row has declared values, and the counters of the offer, which     *)
(* claimPass, redeemPass and expireClaim change, stay within its quantity. *)
THEOREM TypeCorrect == ASSUME PassAssumption PROVE Spec => []TypeOK
  <1>1. InductiveInvariant => TypeOK
    BY DEF InductiveInvariant
  <1> QED
    BY <1>1, Invariance, PTL

LEMMA TokensFollow ==
  ASSUME PassAssumption, InductiveInvariant
  PROVE  TokensAgree
  <1> USE DEF InductiveInvariant
  <1>1. /\ committed = Cardinality({c \in Customers : claim[c] = "active"}
                                   \cup {c \in Customers : claim[c] = "redeemed"})
        /\ redeemed = Cardinality({c \in Customers : claim[c] = "redeemed"})
    <2>1. Taken = {c \in Customers : claim[c] = "active"}
                    \cup {c \in Customers : claim[c] = "redeemed"}
      BY DEF Taken
    <2> QED
      BY <2>1, Zenon DEF CountersAgree, Redeemed
  <1>2. ASSUME NEW c \in Customers
        PROVE  LET issued == {r \in 1 .. Rotations : token[c][r] # "none"}
                   last   == Cardinality(issued)
               IN
               /\ issued = 1 .. last
               /\ claim[c] = "none" <=> issued = {}
               /\ \A r \in 1 .. last - 1 : token[c][r] = "revoked"
               /\ last > 0 => token[c][last] = LastToken(claim[c])
    <2> DEFINE issued == {r \in 1 .. Rotations : token[c][r] # "none"}
    <2>1. PICK n \in 0 .. Rotations : TokensAre(c, n)
      BY DEF TokensInOrder
    <2>2. n \in Nat /\ Rotations \in Nat /\ n <= Rotations
      BY <2>1 DEF PassAssumption
    <2>3. n > 0 => LastToken(claim[c]) # "none"
      BY <2>1, <2>2, LastTokens DEF TokensAre, TypeOK
    <2>4. issued = 1 .. n
      <3>1. \A r \in 1 .. Rotations : token[c][r] # "none" <=> ~(r > n)
        <4>1. \A r \in 1 .. Rotations :
                token[c][r] = IF r > n THEN "none"
                              ELSE IF r < n THEN "revoked" ELSE LastToken(claim[c])
          BY <2>1 DEF TokensAre
        <4>2. \A r \in 1 .. Rotations : ~(r > n) => n > 0
          BY <2>2
        <4> QED
          BY <2>3, <4>1, <4>2
      <3>2. \A r : r \in 1 .. n <=> r \in 1 .. Rotations /\ ~(r > n)
        BY <2>2
      <3> QED
        BY <3>1, <3>2
    <2>5. Cardinality(issued) = n
      <3>1. Cardinality(1 .. n) = IF 1 > n THEN 0 ELSE n - 1 + 1
        BY <2>2, FS_Interval
      <3>2. Cardinality(1 .. n) = n
        BY <2>2, <3>1
      <3> HIDE DEF issued
      <3> QED
        BY <2>4, <3>2
    <2>6. claim[c] = "none" <=> issued = {}
      BY <2>1, <2>2, <2>4 DEF TokensAre
    <2>7. /\ \A r \in 1 .. n - 1 : token[c][r] = "revoked"
          /\ n > 0 => token[c][n] = LastToken(claim[c])
      BY <2>1, <2>2 DEF TokensAre
    <2> QED
      BY <2>4, <2>5, <2>6, <2>7
  <1> QED
    BY <1>1, <1>2, Zenon DEF TokensAgree, LastToken

(* Between two commits the counters of the offer count the claims, and the *)
(* live token of a claim is its newest one and ends with it, whatever      *)
(* order claimPass, recoverActivePass, redeemPass and expireClaim take     *)
(* their locks in.                                                         *)
THEOREM TokensMatch == ASSUME PassAssumption PROVE Spec => []TokensAgree
  <1>1. InductiveInvariant => TokensAgree
    BY TokensFollow, PassAssumption
  <1> QED
    BY <1>1, Invariance, PTL

(* What a call holds is the offer, its link or its customer's: only an     *)
(* issue holds the code somebody else was sent.                            *)
LEMMA HeldAreItsOwn ==
  ASSUME CallsAgree, NEW p \in Busy, call[p].op # "issue"
  PROVE  LET x == call[p] IN
         Held(p) \subseteq {OfferRow, LinkRow(LinkOf(x)), ClaimRow(x.customer)}
                            \cup TokenRows(x.customer)
                            \cup (IF HoldsCode(p) THEN {CodeRow(x.target)} ELSE {})
  <1> DEFINE x == call[p]
  <1>1. CallAgrees(p) /\ p \in Calls
    BY AtCommit
  <1>2. CASE x.op \in {"claim", "recover"}
    BY <1>1, <1>2, HeldRows, CallSteps DEF HoldsCode
  <1>3. CASE x.op \in {"redeem", "expire"}
    <2>1. x.step \in {1, 2, 3}
      BY <1>1, <1>3, CallSteps
    <2>2. Held(p) \subseteq {OfferRow, ClaimRow(x.customer)} \cup TokenRows(x.customer)
      BY <1>1, <1>3, <2>1, HeldRows
    <2> QED
      BY <2>2
  <1> QED
    BY <1>1, <1>2, <1>3, CallSteps DEF Ops

LEMMA WantedAreItsOwn ==
  ASSUME CallsAgree, NEW p \in Busy
  PROVE  LET x == call[p] IN
         /\ Wanted(p) \subseteq {OfferRow, LinkRow(LinkOf(x)), ClaimRow(x.customer)}
                                \cup TokenRows(x.customer) \cup CodesOf(x.customer)
                                \cup (IF x.op = "claim" THEN {CodeRow(x.target)} ELSE {})
         /\ x.op = "issue" => Wanted(p) \subseteq {LinkRow(LinkOf(x)), ClaimRow(x.customer)}
  <1>1. CallAgrees(p) /\ p \in Calls
    BY AtCommit
  <1>2. ClaimNamed(call[p]) \subseteq {ClaimRow(call[p].customer)}
    BY DEF ClaimNamed
  <1> QED
    BY <1>1, <1>2, WantedRows, CallSteps DEF Ops

\* Whoever has the offer waits for other rows.
LEMMA OfferIsTakenOnce ==
  ASSUME CallsAgree, NEW p \in Busy, OfferRow \in Held(p)
  PROVE  OfferRow \notin Wanted(p)
  <1> DEFINE x == call[p]
  <1>1. CallAgrees(p) /\ p \in Calls
    BY AtCommit
  <1>2. /\ OfferRow # LinkRow(LinkOf(x)) /\ OfferRow # ClaimRow(x.customer)
        /\ OfferRow # CodeRow(x.target)
        /\ OfferRow \notin TokenRows(x.customer) /\ OfferRow \notin CodesOf(x.customer)
        /\ OfferRow \notin CodeRows({x.target}) /\ OfferRow \notin Keys(x)
    BY DEF OfferRow, LinkRow, ClaimRow, CodeRow, TokenRows, CodesOf, CodeRows, Keys
  <1>3. x.op \in {"redeem", "expire"} /\ x.step \in {2, 3} /\ (x.op = "redeem" => x.step = 3)
    BY <1>1, <1>2, HeldRows, CallSteps DEF Ops
  <1> QED
    BY <1>1, <1>2, <1>3, WantedRows

\* The code a claim or a recovery holds is its customer's, and its link's.
LEMMA CodeHeld ==
  ASSUME CallsAgree, NEW p \in Busy, HoldsCode(p)
  PROVE  LET x == call[p] IN
         \/ \E l \in Links : x.target = LinkTarget(l) /\ sentTo[l] = x.customer /\ LinkOf(x) = l
         \/ x.target = OwnTarget(x.customer, "recovery")
  <1>1. CallAgrees(p)
    BY AtCommit
  <1> QED
    BY <1>1, LinkOfTarget DEF CallAgrees, HoldsCode

(* Two calls about other customers and other links meet in the offer, or   *)
(* where one of them supersedes a code.                                    *)
LEMMA MeetInTheOffer ==
  ASSUME CallsAgree, NEW p \in Busy, NEW q \in Busy, Blocks(q, p), call[q].op # "issue",
         call[p].customer # call[q].customer, LinkOf(call[p]) # LinkOf(call[q])
  PROVE  OfferRow \in Held(q) /\ OfferRow \in Wanted(p)
  <1> DEFINE x == call[p]
             y == call[q]
  <1>1. PICK row : row \in Held(q) /\ row \in Wanted(p)
    BY DEF Blocks
  <1>2. /\ LinkRow(LinkOf(x)) # LinkRow(LinkOf(y)) /\ ClaimRow(x.customer) # ClaimRow(y.customer)
        /\ TokenRows(x.customer) \cap TokenRows(y.customer) = {}
    BY DEF LinkRow, ClaimRow, TokenRows
  <1>3. \A l, c, d, t : /\ LinkRow(l) # ClaimRow(c) /\ LinkRow(l) # CodeRow(t)
                        /\ ClaimRow(c) # CodeRow(t)
                        /\ LinkRow(l) \notin TokenRows(d) /\ ClaimRow(c) \notin TokenRows(d)
                        /\ CodeRow(t) \notin TokenRows(d)
    BY DEF LinkRow, ClaimRow, CodeRow, TokenRows
  <1>4. \A c : \A r \in CodesOf(c) : \E t \in TargetsOf(c) : r = CodeRow(t)
    BY DEF CodesOf, CodeRows
  <1>5. ASSUME HoldsCode(q), row = CodeRow(y.target) PROVE FALSE
    <2>1. \/ row \in CodesOf(x.customer)
          \/ x.op = "claim" /\ row = CodeRow(x.target)
      BY <1>1, <1>3, <1>5, WantedAreItsOwn, Distinct
    <2>2. CASE row \in CodesOf(x.customer)
      <3>1. y.target \in TargetsOf(x.customer)
        BY <1>4, <1>5, <2>2, Distinct
      <3>2. \A l \in Links : y.target = LinkTarget(l) => sentTo[l] = x.customer
        BY <3>1 DEF TargetsOf, LinkTarget, Purpose
      <3>3. y.target # OwnTarget(y.customer, "recovery")
        BY <3>1 DEF TargetsOf, LinkTarget, OwnTarget
      <3> QED
        BY <1>5, <3>2, <3>3, CodeHeld
    <2>3. CASE x.op = "claim" /\ row = CodeRow(x.target)
      <3>1. PICK l \in Links : x.target = LinkTarget(l) /\ LinkOf(x) = l
        <4>1. PICK l \in Links : x.target = LinkTarget(l)
          BY <2>3, AtCommit DEF CallAgrees
        <4>2. LinkOf(x) = l
          BY <4>1, LinkOfTarget
        <4> QED
          BY <4>1, <4>2
      <3>2. y.target = LinkTarget(l)
        BY <1>5, <2>3, <3>1, Distinct
      <3> QED
        BY <1>5, <3>1, <3>2, CodeHeld, Distinct
    <2> QED
      BY <2>1, <2>2, <2>3
  <1>6. row = OfferRow
    BY <1>1, <1>2, <1>3, <1>4, <1>5, HeldAreItsOwn, WantedAreItsOwn
  <1> QED
    BY <1>1, <1>6

LEMMA CirclesFollow ==
  ASSUME InductiveInvariant
  PROVE  CirclesShareALink
  <1> SUFFICES ASSUME NEW p \in Busy, NEW q \in Busy, Blocks(p, q), Blocks(q, p),
                      call[p].customer # call[q].customer,
                      LinkOf(call[p]) # LinkOf(call[q])
               PROVE  FALSE
    BY DEF CirclesShareALink
  <1> USE DEF InductiveInvariant
  <1>1. ASSUME NEW u \in Busy, NEW v \in Busy, Blocks(u, v), Blocks(v, u),
               call[u].customer # call[v].customer, LinkOf(call[u]) # LinkOf(call[v]),
               call[u].op = "issue"
        PROVE  FALSE
    <2>1. Wanted(u) \subseteq {LinkRow(LinkOf(call[u])), ClaimRow(call[u].customer)}
      BY <1>1, WantedAreItsOwn
    <2>2. Wanted(v) \cap Held(u) # {} /\ Wanted(u) \cap Held(v) # {}
      BY <1>1 DEF Blocks
    <2>3. call[v].op # "issue" =>
            Held(v) \subseteq {OfferRow, LinkRow(LinkOf(call[v])), ClaimRow(call[v].customer)}
                              \cup TokenRows(call[v].customer)
                              \cup (IF HoldsCode(v) THEN {CodeRow(call[v].target)} ELSE {})
      BY HeldAreItsOwn
    <2>4. call[v].op = "issue" => Held(v) = CodeRows({call[v].target}) \cup Keys(call[v])
      BY AtCommit, HeldRows
    <2>5. LinkRow(LinkOf(call[u])) \notin Held(v) /\ ClaimRow(call[u].customer) \notin Held(v)
      BY <1>1, <2>3, <2>4
      DEF OfferRow, LinkRow, ClaimRow, CodeRow, TokenRows, CodeRows, Keys
    <2> QED
      BY <2>1, <2>2, <2>5
  <1>2. call[p].op # "issue" /\ call[q].op # "issue"
    BY <1>1
  <1>3. /\ OfferRow \in Held(q) /\ OfferRow \in Wanted(p)
        /\ OfferRow \in Held(p) /\ OfferRow \in Wanted(q)
    BY <1>2, MeetInTheOffer
  <1> QED
    BY <1>3, OfferIsTakenOnce

(* Two calls that wait for each other are about one customer or about one  *)
(* creator's link, whatever order the calls take links, codes, tokens,     *)
(* claims and the offer in.                                                *)
THEOREM CirclesStayInALink == ASSUME PassAssumption PROVE Spec => []CirclesShareALink
  <1>1. InductiveInvariant => CirclesShareALink
    BY CirclesFollow
  <1> QED
    BY <1>1, Invariance, PTL

-----------------------------------------------------------------------------
(* Each commit is one step of the promise, every other step is none.       *)
PromiseStep == [Promise!Next]_(Promise!promise)

LEMMA PromiseStutters ==
  ASSUME UNCHANGED <<claim, source, committed, open>>
  PROVE  PromiseStep
  BY DEF PromiseStep, Promise!promise

LEMMA CommitImplements ==
  ASSUME PassAssumption, InductiveInvariant, NEW p \in Calls, Serve(p)
  PROVE  PromiseStep
  <1> DEFINE x == call[p]
  <1>1. CASE Refuse(p) \/ Lock(p)
    BY <1>1, PromiseStutters DEF Refuse, Lock, Rest, stock, pass
  <1>2. CASE /\ p \in Busy /\ Write(x) /\ End(p) /\ x.op # "issue"
             /\ x.op = "claim" => OfferHolds(x)
             /\ x.op = "redeem" => x.step >= 2
    <2>1. CallAgrees(p) /\ x.customer \in Customers
      BY <1>2, AtCommit DEF InductiveInvariant, CallAgrees
    <2> PICK c \in Customers : c = x.customer
      BY <2>1
    <2>2. TypeOK
      BY DEF InductiveInvariant
    <2>3. CASE x.op = "claim"
      <3>1. PICK l \in Links : x.target = LinkTarget(l)
        BY <2>1, <2>3 DEF CallAgrees
      <3>2. /\ claim[c] = "none" /\ committed < Quantity
            /\ claim' = [claim EXCEPT ![c] = "active"]
            /\ source' = [source EXCEPT ![c] = l]
            /\ committed' = committed + 1 /\ open' = open
        <4>1. ClaimPass(x) /\ OfferHolds(x)
          BY <1>2, <2>3, WriteByOp
        <4>2. x.target[1] = l
          BY <3>1 DEF LinkTarget
        <4> QED
          BY <2>3, <4>1, <4>2 DEF OfferHolds, ClaimPass
      <3>3. Quantity - committed > 0 /\ Quantity - committed' = (Quantity - committed) - 1
        BY <2>2, <3>2 DEF TypeOK, PassAssumption
      <3>4. Promise!Claim(c, l)
        BY <3>2, <3>3 DEF Promise!Claim, Promise!Move
      <3> QED
        BY <3>4 DEF PromiseStep, Promise!Next
    <2>4. CASE x.op = "recover"
      BY <1>2, <2>4, WriteByOp, PromiseStutters DEF RecoverActivePass, stock
    <2>5. CASE x.op = "redeem"
      <3>1. claim[c] = "active" /\ c \notin open
        BY <1>2, <2>1, <2>5 DEF CallAgrees, HoldsClaim
      <3>2. /\ claim' = [claim EXCEPT ![c] = "redeemed"]
            /\ UNCHANGED <<source, committed, open>>
        BY <1>2, <2>5, WriteByOp DEF RedeemPass
      <3>3. Promise!Redeem(c)
        BY <3>1, <3>2 DEF Promise!Redeem, Promise!Move
      <3> QED
        BY <3>3 DEF PromiseStep, Promise!Next
    <2>6. CASE x.op = "expire"
      <3>1. claim[c] = "active"
        BY <2>1, <2>6 DEF CallAgrees, HoldsClaim
      <3>2. /\ claim' = [claim EXCEPT ![c] = "expired"]
            /\ committed' = committed - 1 /\ UNCHANGED <<source, open>>
        BY <1>2, <2>6, WriteByOp DEF ExpireClaim
      <3>3. Quantity - committed' = (Quantity - committed) + 1
        BY <2>2, <3>2 DEF TypeOK, PassAssumption
      <3>4. Promise!Expire(c)
        BY <3>1, <3>2, <3>3 DEF Promise!Expire, Promise!Move
      <3> QED
        BY <3>4 DEF PromiseStep, Promise!Next
    <2> QED
      BY <1>2, <2>1, <2>3, <2>4, <2>5, <2>6 DEF CallAgrees, Ops
  <1>3. CASE Send(p)
    BY <1>3, PromiseStutters DEF Send, stock, pass
  <1> QED
    BY <1>1, <1>2, <1>3, ServeCases

LEMMA StepImplements ==
  ASSUME PassAssumption, InductiveInvariant, [Next]_vars
  PROVE  PromiseStep
  <1>1. CASE UNCHANGED vars
    BY <1>1, PromiseStutters DEF vars, stock, pass
  <1>2. ASSUME NEW p \in Calls, BeginAny(p) \/ Abort(p) PROVE PromiseStep
    BY <1>2, PromiseStutters
    DEF BeginAny, IssueCustomerChallenge, Begin, Abort, Refuse, Rest, stock, pass
  <1>3. ASSUME NEW p \in Calls, Serve(p) PROVE PromiseStep
    BY <1>3, CommitImplements
  <1>4. CASE ActivateOffer \/ PauseFutureClaims
    BY <1>4, PromiseStutters DEF ActivateOffer, PauseFutureClaims, ChangeOfferStatus, pass
  <1>5. ASSUME NEW c \in Customers, TokenLapses(c) \/ ClaimLapses(c)
        PROVE  PromiseStep
    BY <1>5, PromiseStutters DEF TokenLapses, ClaimLapses, stock, pass
  <1>6. ASSUME NEW c \in Customers, ReportFulfillmentProblem(c) PROVE PromiseStep
    <2>1. Promise!Report(c)
      BY <1>6 DEF ReportFulfillmentProblem, Promise!Report, stock, pass
    <2> QED
      BY <2>1 DEF PromiseStep, Promise!Next
  <1>7. ASSUME NEW c \in Customers, Dismiss(c) \/ \E pauses \in BOOLEAN : Confirm(c, pauses)
        PROVE  PromiseStep
    <2>1. Promise!Settle(c)
      BY <1>7 DEF Dismiss, Confirm, Promise!Settle, stock, pass
    <2> QED
      BY <2>1 DEF PromiseStep, Promise!Next
  <1>8. ASSUME NEW t \in Targets, VerifyCustomerChallenge(t) \/ CodeIsDead(t)
        PROVE  PromiseStep
    BY <1>8, PromiseStutters DEF VerifyCustomerChallenge, CodeIsDead, stock, pass
  <1> QED
    BY <1>1, <1>2, <1>3, <1>4, <1>5, <1>6, <1>7, <1>8 DEF Next

(* The store keeps the promise of the pass: one unit per first claim, one  *)
(* creator, honoured once and not under review; recoveries, codes, locks   *)
(* and aborted calls are invisible to it.                                  *)
THEOREM PassImplements == ASSUME PassAssumption PROVE Spec => ImplementsPassPromise
  <1>1. Init => Promise!Init
    BY PassAssumption DEF Init, Promise!Init, PassAssumption
  <1>2. InductiveInvariant /\ [Next]_vars => [Promise!Next]_(Promise!promise)
    BY StepImplements, PassAssumption DEF PromiseStep
  <1> QED
    BY <1>1, <1>2, Invariance, PTL DEF Spec, ImplementsPassPromise, Promise!Spec
=============================================================================
