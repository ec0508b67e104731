----------------------------- MODULE CallAuction -----------------------------
(***************************************************************************)
(* The pure part of nmsim/v2_market.py: constrain_orders, _allocate_pro_rata *)
(* and clear_call_auction.  Money is whole cents, inventory whole shares.  *)
(*                                                                         *)
(* An order is a record; an agent has at most one that is accepted, so it  *)
(* is identified by its agent, and order_id sorts as the agent does (the   *)
(* experiment names orders r<round>-<agent_id>).  A set of orders is the   *)
(* sorted tuple of the code: nothing depends on the order of arrival.      *)
(***************************************************************************)
EXTENDS Integers, FiniteSetsExt

Order(agents) == [agent : agents, side : {"buy", "sell"}, quantity : Nat, limit : Nat]

Lesser(a, b) == IF a < b THEN a ELSE b
Gap(a, b) == IF a < b THEN b - a ELSE a - b
Shares(orders) == MapThenSumSet(LAMBDA o : o.quantity, orders)

-----------------------------------------------------------------------------
(* constrain_orders *)

(* Seeded bug: the whole credit line counts, drawn or not. *)
MutantBuyingPower(account, financing) ==
    account.cash + IF financing = "credit" THEN account.limit ELSE 0

(* Cash, and in credit mode the credit not drawn yet. *)
BuyingPower(account, financing) ==
    account.cash + IF financing = "credit" THEN account.limit - account.debt ELSE 0

(* Seeded bug: a short sale passes the constraint stage. *)
MutantAffordable(i, account, financing) ==
    IF i.side = "buy"
    THEN Lesser(i.quantity, BuyingPower(account, financing) \div i.limit)
    ELSE i.quantity

(* The worst case is budgeted: every share at the limit price. *)
Affordable(i, account, financing) ==
    IF i.side = "buy"
    THEN Lesser(i.quantity, BuyingPower(account, financing) \div i.limit)
    ELSE Lesser(i.quantity, account.shares)

(* Two intents of one agent are both rejected, as are unknown agents and    *)
(* intents with nothing left after the clip.                                *)
Constrained(intents, account, financing) ==
    LET sole == {i \in intents : /\ i.agent \in DOMAIN account
                                 /\ \A j \in intents : j.agent = i.agent => j = i}
        clipped == {[i EXCEPT !.quantity = Affordable(i, account[i.agent], financing)] :
                       i \in sole}
    IN  {o \in clipped : o.quantity > 0}

-----------------------------------------------------------------------------
(* clear_call_auction *)

Buyers(orders, p) == {o \in orders : o.side = "buy" /\ o.limit >= p}
Sellers(orders, p) == {o \in orders : o.side = "sell" /\ o.limit <= p}
Matched(orders, p) == Lesser(Shares(Buyers(orders, p)), Shares(Sellers(orders, p)))
Imbalance(orders, p) == Gap(Shares(Buyers(orders, p)), Shares(Sellers(orders, p)))

(* Seeded bug: balance before volume. *)
MutantPrefers(orders, last, p, q) ==
    \/ Imbalance(orders, p) < Imbalance(orders, q)
    \/ /\ Imbalance(orders, p) = Imbalance(orders, q)
       /\ \/ Matched(orders, p) > Matched(orders, q)
          \/ Matched(orders, p) = Matched(orders, q) /\ p < q

(* Most volume, then least imbalance, then nearest to the last price, then  *)
(* the lower price.                                                         *)
Prefers(orders, last, p, q) ==
    \/ Matched(orders, p) > Matched(orders, q)
    \/ /\ Matched(orders, p) = Matched(orders, q)
       /\ \/ Imbalance(orders, p) < Imbalance(orders, q)
          \/ /\ Imbalance(orders, p) = Imbalance(orders, q)
             /\ \/ Gap(p, last) < Gap(q, last)
                \/ Gap(p, last) = Gap(q, last) /\ p < q

Candidates(orders, last) == {last} \union {o.limit : o \in orders}
BestPrice(orders, last) ==
    CHOOSE p \in Candidates(orders, last) :
        \A q \in Candidates(orders, last) \ {p} : Prefers(orders, last, p, q)

(* Seeded bug: what rounding leaves goes to the first orders by id. *)
MutantAllocation(orders, matched) ==
    LET total == Shares(orders)
        floor(o) == (matched * o.quantity) \div total
        left == matched - MapThenSumSet(floor, orders)
    IN  [o \in orders |->
            floor(o) + IF Cardinality({q \in orders : q.agent < o.agent}) < left
                       THEN 1 ELSE 0]

(* Whole shares pro rata; what rounding leaves goes to the largest          *)
(* remainders, ties to the smaller order_id.                                *)
Allocation(orders, matched) ==
    LET total == Shares(orders)
        floor(o) == (matched * o.quantity) \div total
        remainder(o) == (matched * o.quantity) % total
        before(p, o) == \/ remainder(p) > remainder(o)
                        \/ remainder(p) = remainder(o) /\ p.agent < o.agent
        left == matched - MapThenSumSet(floor, orders)
    IN  [o \in orders |->
            floor(o) + IF Cardinality({p \in orders : before(p, o)}) < left
                       THEN 1 ELSE 0]

(* The executed orders: what each is allotted, at the one clearing price. *)
Fills(orders, p) ==
    LET allot(side) == Allocation(side, Matched(orders, p))
        executed(side) == {[agent |-> o.agent, side |-> o.side, limit |-> o.limit,
                            price |-> p, quantity |-> allot(side)[o]] : o \in side}
    IN  {f \in executed(Buyers(orders, p)) \union executed(Sellers(orders, p)) :
            f.quantity > 0}

(* Without orders, or without a cross, the last price stands. *)
Clearing(orders, last) ==
    LET p == BestPrice(orders, last)
        volume == Matched(orders, p)
    IN  IF volume = 0
        THEN [price |-> last, volume |-> 0, fills |-> {}]
        ELSE [price |-> p, volume |-> volume, fills |-> Fills(orders, p)]
=============================================================================
