----------------------------- MODULE Settlement -----------------------------
(***************************************************************************)
(* settle of nmsim/v2_market.py as functions of the accounts it is given.  *)
(* The market and the cells of the experiment call it from round loops of  *)
(* their own, with the auction of CallAuction before it.                   *)
(*                                                                         *)
(* Accounts are three functions of the agent: c, s and d, the cash, the    *)
(* shares and the debt; l is the credit facility.  F stands for the fills  *)
(* of the clearing cl of the orders S.                                     *)
(***************************************************************************)
EXTENDS CallAuction

CONSTANTS
    Agents,         \* account identifiers, a finite set of numbers
    Financing,      \* "finite" or "credit"
    StartCash,      \* initial cash of each account
    StartShares,    \* initial shares of each account
    CreditLimit,    \* credit_limit_cents of each account
    FacilityCash,   \* initial cash of the credit facility
    StartPrice,     \* last price before the first round
    Limits,         \* bound: the limit prices a policy may name
    Quantities,     \* bound: the quantities a policy may ask for
    Rounds          \* rounds of the loop

ASSUME MarketAssumption ==
    /\ Agents \subseteq Nat /\ IsFiniteSet(Agents)
    /\ Financing \in {"finite", "credit"}
    /\ StartCash \in [Agents -> Nat] /\ StartShares \in [Agents -> Nat]
    /\ CreditLimit \in [Agents -> Nat] /\ FacilityCash \in Nat
    /\ StartPrice \in Nat \ {0}
    /\ Limits \subseteq Nat \ {0} /\ Quantities \subseteq Nat \ {0}
    /\ Rounds \in Nat

Idle == [price |-> StartPrice, volume |-> 0, fills |-> {}]

Fill == [agent : Agents, side : {"buy", "sell"}, quantity : Nat \ {0},
         price : Nat, limit : Nat]

Sum(f) == MapThenSumSet(LAMBDA a : f[a], Agents)

(* The accounts as constrain_orders and the policies see them. *)
AccountsOf(c, s, d) ==
    [a \in Agents |-> [cash |-> c[a], shares |-> s[a], debt |-> d[a],
                       limit |-> CreditLimit[a]]]

-----------------------------------------------------------------------------
Bought(F, a) == {f \in F : f.agent = a /\ f.side = "buy"}
Sold(F, a) == {f \in F : f.agent = a /\ f.side = "sell"}
Value(F) == MapThenSumSet(LAMBDA f : f.quantity * f.price, F)

(* Only the cash a buyer is missing is borrowed. *)
Shortfall(F, c, a) ==
    IF Value(Bought(F, a)) > c[a] THEN Value(Bought(F, a)) - c[a] ELSE 0

Borrowed(F, c) == MapThenSumSet(LAMBDA a : Shortfall(F, c, a), Agents)

(* The checks before anything is staged, and Account.__post_init__ after. *)
Refused(S, cl, c, s, d, l) ==
    \/ Borrowed(cl.fills, c) > l.cash
    \/ \E a \in Agents :
          LET bought == Bought(cl.fills, a)
              sold == Sold(cl.fills, a)
          IN  \/ Shortfall(cl.fills, c, a) > 0 /\ Financing # "credit"
              \/ Shortfall(cl.fills, c, a) > CreditLimit[a] - d[a]
              \/ Shares(sold) > s[a] + Shares(bought)
              \/ Cardinality(bought \union sold) > 1
    \/ \E f \in cl.fills :
          ~\E o \in S : /\ o.agent = f.agent /\ o.side = f.side /\ o.limit = f.limit
                        /\ f.quantity <= o.quantity /\ f.price = cl.price
    \/ \E side \in {"buy", "sell"} :
          Shares({f \in cl.fills : f.side = side}) # cl.volume

(* The lending leg, then shares against cash. *)
Paid(F, c) ==
    [a \in Agents |-> c[a] + Shortfall(F, c, a) - Value(Bought(F, a)) + Value(Sold(F, a))]
Delivered(F, s) == [a \in Agents |-> s[a] + Shares(Bought(F, a)) - Shares(Sold(F, a))]
Owed(F, c, d) == [a \in Agents |-> d[a] + Shortfall(F, c, a)]

(* Seeded bug: the loan is booked but the facility keeps its cash. *)
MutantLent(F, c, l) ==
    [l EXCEPT !.loans = @ + Borrowed(F, c)]

Lent(F, c, l) ==
    [cash |-> l.cash - Borrowed(F, c), loans |-> l.loans + Borrowed(F, c)]
=============================================================================
