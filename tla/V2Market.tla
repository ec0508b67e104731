------------------------------ MODULE V2Market ------------------------------
(***************************************************************************)
(* nmsim/v2_market.py: run_synchronous_market, a market of finite rounds.  *)
(* In a round every policy is asked, in the order of agent_id, against one *)
(* frozen snapshot; the intents are constrained, cleared in one call       *)
(* auction and settled atomically.  Credit is a transfer from a facility   *)
(* that can run out: settlement then raises and the run ends.              *)
(***************************************************************************)
EXTENDS Settlement

VARIABLES
    phase,      \* of the round: "decide", "constrain", "clear", "settle"; "done", "raised"
    round,      \* rounds settled
    asked,      \* agents whose policy has answered in this round
    intents,    \* what they submitted
    orders,     \* accepted_orders of the constraint stage
    clearing,   \* ClearingResult
    cash, shares, debt,   \* the accounts, by agent
    facility,   \* CreditFacility
    price       \* last price

accounts == <<cash, shares, debt>>
market == <<accounts, facility, price>>
vars == <<phase, round, asked, intents, orders, clearing, market>>

TypeOK ==
    /\ phase \in {"decide", "constrain", "clear", "settle", "done", "raised"}
    /\ round \in 0..Rounds
    /\ asked \subseteq Agents
    /\ intents \subseteq Order(Agents) /\ orders \subseteq Order(Agents)
    /\ clearing.price \in Nat /\ clearing.volume \in Nat
    /\ clearing.fills \subseteq Fill
    /\ cash \in [Agents -> Nat] /\ shares \in [Agents -> Nat]
    /\ debt \in [Agents -> Nat]
    /\ facility \in [cash : Nat, loans : Nat]
    /\ price \in Nat \ {0}

-----------------------------------------------------------------------------
Init ==
    /\ phase = IF Rounds = 0 THEN "done" ELSE "decide"
    /\ round = 0 /\ asked = {} /\ intents = {} /\ orders = {} /\ clearing = Idle
    /\ cash = StartCash /\ shares = StartShares /\ debt = [a \in Agents |-> 0]
    /\ facility = [cash |-> FacilityCash, loans |-> 0]
    /\ price = StartPrice

(* The next policy in the order of agent_id answers with new, at most one intent. *)
Ask(a, new) ==
    /\ phase = "decide"
    /\ a \in Agents \ asked /\ \A b \in Agents \ asked : a <= b
    /\ intents' = intents \union new
    /\ asked' = asked \union {a}
    /\ phase' = IF asked' = Agents THEN "constrain" ELSE "decide"
    /\ UNCHANGED <<round, orders, clearing, market>>

Decide ==
    \E a \in Agents :
        \/ Ask(a, {})
        \/ \E s \in {"buy", "sell"}, n \in Quantities, p \in Limits :
              Ask(a, {[agent |-> a, side |-> s, quantity |-> n, limit |-> p]})

Constrain ==
    /\ phase = "constrain"
    /\ orders' = Constrained(intents, AccountsOf(cash, shares, debt), Financing)
    /\ phase' = "clear"
    /\ UNCHANGED <<round, asked, intents, clearing, market>>

Clear ==
    /\ phase = "clear"
    /\ clearing' = Clearing(orders, price)
    /\ phase' = "settle"
    /\ UNCHANGED <<round, asked, intents, orders, market>>

Fails == Refused(orders, clearing, cash, shares, debt, facility)

(* Nothing is committed before every check has passed. *)
SettleRaises ==
    /\ phase = "settle" /\ Fails
    /\ phase' = "raised"
    /\ UNCHANGED <<round, asked, intents, orders, clearing, market>>

(* The accounts are exchanged for the settled ones; the next round starts.  *)
Settle ==
    /\ phase = "settle" /\ ~Fails
    /\ cash' = Paid(clearing.fills, cash)
    /\ shares' = Delivered(clearing.fills, shares)
    /\ debt' = Owed(clearing.fills, cash, debt)
    /\ facility' = Lent(clearing.fills, cash, facility)
    /\ price' = clearing.price
    /\ round' = round + 1
    /\ phase' = IF round' = Rounds THEN "done" ELSE "decide"
    /\ asked' = {} /\ intents' = {} /\ orders' = {} /\ clearing' = Idle

Ended == phase \in {"done", "raised"} /\ UNCHANGED vars

Next == Decide \/ Constrain \/ Clear \/ Settle \/ SettleRaises \/ Ended

Spec == Init /\ [][Next]_vars

-----------------------------------------------------------------------------
(* Safety *)

(* Nothing is created or lost, whatever is ordered: the cash of accounts    *)
(* and facility together, the shares, and what is owed equals what is lent  *)
(* (assert_system_invariants and the three assertions at the end of settle  *)
(* never fire).                                                             *)
Conserved ==
    /\ Sum(cash) + facility.cash = Sum(StartCash) + FacilityCash
    /\ Sum(shares) = Sum(StartShares)
    /\ Sum(debt) = facility.loans

(* The constraint stage and the allocation are tight enough for settlement: *)
(* it refuses a cleared auction for one reason only, a facility that cannot *)
(* fund what its borrowers may draw.                                        *)
OnlyFacilityFails ==
    phase = "raised" => Borrowed(clearing.fills, cash) > facility.cash

(* Every fill is within one share of its pro-rata part, within its own      *)
(* limit and never more than was accepted; the scarcer side of the market   *)
(* trades in full.                                                          *)
FillsAreFair ==
    phase = "settle" /\ clearing.volume > 0 =>
        LET p == clearing.price
            got(o) == Shares({f \in clearing.fills : f.agent = o.agent})
            fair(side) == \A o \in side :
                /\ got(o) <= o.quantity
                /\ Gap(got(o) * Shares(side), clearing.volume * o.quantity) < Shares(side)
            ordered(side) == \A o, q \in side : o.quantity > q.quantity => got(o) >= got(q)
        IN  /\ \A f \in clearing.fills : IF f.side = "buy" THEN p <= f.limit ELSE p >= f.limit
            /\ fair(Buyers(orders, p)) /\ fair(Sellers(orders, p))
            /\ ordered(Buyers(orders, p)) /\ ordered(Sellers(orders, p))
            /\ \E side \in {Buyers(orders, p), Sellers(orders, p)} :
                  \A o \in side : got(o) = o.quantity

(* The few prices the auction looks at are enough: no price at all, among   *)
(* the candidates or between them, would trade more.                        *)
VolumeIsMaximal ==
    phase = "settle" =>
        \A p \in 1..Max(Limits \union {StartPrice}) :
            Matched(orders, p) <= clearing.volume

=============================================================================
