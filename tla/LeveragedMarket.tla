--------------------------- MODULE LeveragedMarket ---------------------------
(***************************************************************************)
(* The rounds of nmsim/sim.py:run_sim with market.py and leverage.py: every *)
(* trader orders against the last price, net pressure moves the price, every *)
(* order is filled, and from the news on each leveraged reference long that *)
(* breaches its margin is force-sold once, in the flow of the next round.   *)
(*                                                                          *)
(* Prices are cents; kappa, the maintenance margin and leverage are         *)
(* hundredths.  What a language model answers is any order.  Prompts,       *)
(* sentiment and the social digest decide which order, so they are in the   *)
(* choice.  The voluntary portfolios only record the fills and feed the     *)
(* prompts, so they are left out; float comparisons are taken as exact.     *)
(***************************************************************************)
EXTENDS Integers, FiniteSetsExt

CONSTANTS
    Traders,      \* LLM and noise agents
    Leveraged,    \* those init_leverage has chosen
    Leverage,     \* 100 * lev_ratio of each leveraged agent
    RefShares,    \* lev_ref_shares, the shares an agent starts with
    StartPrice,   \* cfg.initial_price
    Kappa,        \* 100 * cfg.kappa
    Margin,       \* 100 * cfg.maintenance_margin
    NewsRound,    \* cfg.news_round
    Rounds,       \* cfg.n_rounds
    Sizes         \* bound: the quantities that are ordered

ASSUME LeverageAssumption ==
    /\ Leveraged \subseteq Traders /\ IsFiniteSet(Traders)
    /\ Leverage \in [Leveraged -> Nat] /\ \A a \in Leveraged : Leverage[a] > 100
    /\ RefShares \in Nat \ {0} /\ StartPrice \in Nat \ {0}
    /\ Kappa \in Nat /\ Margin \in 1..99
    /\ NewsRound \in Nat \ {0} /\ Rounds \in Nat /\ Sizes \subseteq Nat \ {0}

VARIABLES
    phase,        \* "decide", "clear", "margin"; "done" after the last round
    round,
    orders,       \* the traders' orders of this round
    price,        \* history[-1]
    pending,      \* pending_liq: whose forced sells enter the next flow
    liquidated,   \* the round of each LiquidationEvent, 0 before (lev_liquidated)
    pnl,          \* lev_pnl of it, in cents times Leverage per share
    dumped        \* how often each forced sell has entered the flow

book == <<pending, liquidated, pnl, dumped>>
vars == <<phase, round, orders, price, book>>

Hold == [side |-> "hold", quantity |-> 0]
Orders == [side : {"buy", "sell"}, quantity : Sizes] \union {Hold}

TypeOK ==
    /\ phase \in {"decide", "clear", "margin", "done"}
    /\ round \in Nat
    /\ orders \in [Traders -> Orders]
    /\ price \in Nat \ {0}
    /\ pending \subseteq Leveraged
    /\ liquidated \in [Leveraged -> Nat]
    /\ pnl \in [Leveraged -> Int]
    /\ dumped \in [Leveraged -> Nat]

-----------------------------------------------------------------------------
(* market.py *)

Volume(side) ==
    MapThenSumSet(LAMBDA a : IF orders[a].side = side THEN orders[a].quantity ELSE 0, Traders)
Buys == Volume("buy")
Sells == Volume("sell") + RefShares * Cardinality(pending)

(* The integers nearest to n / d: the float of half a cent may go either way. *)
Nearest(n, d) == {q \in (n \div d)..(n \div d + 1) : 2 * (q * d - n) \in -d..d}

(* clear_by_pressure: the new price, at least one cent. *)
Cleared ==
    LET depth == Buys + Sells
        moved == price * (100 * depth + Kappa * (Buys - Sells))
    IN  IF depth = 0 THEN {price}
        ELSE IF moved < 100 * depth THEN {1}
        ELSE Nearest(moved, 100 * depth)

-----------------------------------------------------------------------------
(* leverage.py; position and debt per share, times Leverage *)

Position(a, p) == p * Leverage[a]
Debt(a) == StartPrice * (Leverage[a] - 100)
Equity(a, p) == Position(a, p) - Debt(a)

(* equity_ratio < maintenance_margin *)
Breached(a, p) == 100 * Equity(a, p) < Margin * Position(a, p)

(* margin_calls: the open books that breach at the new price. *)
Called == {a \in Leveraged : liquidated[a] = 0 /\ Breached(a, price)}

(* Seeded bug: the news round itself is left out. *)
MutantDue == IF round > NewsRound THEN Called ELSE {}

(* From the news on, margins are checked at the new price. *)
Due == IF round >= NewsRound THEN Called ELSE {}

-----------------------------------------------------------------------------
Init ==
    /\ phase = IF Rounds = 0 THEN "done" ELSE "decide"
    /\ round = 1
    /\ orders = [a \in Traders |-> Hold]
    /\ price = StartPrice
    /\ pending = {}
    /\ liquidated = [a \in Leveraged |-> 0] /\ pnl = [a \in Leveraged |-> 0]
    /\ dumped = [a \in Leveraged |-> 0]

(* One batch: nobody sees what another orders in the same round. *)
Decide ==
    /\ phase = "decide"
    /\ orders' \in [Traders -> Orders]
    /\ phase' = "clear"
    /\ UNCHANGED <<round, price, book>>

(* All orders and the queued liquidations meet. *)
Clear ==
    /\ phase = "clear"
    /\ price' \in Cleared
    /\ dumped' = [a \in Leveraged |-> dumped[a] + IF a \in pending THEN 1 ELSE 0]
    /\ phase' = "margin"
    /\ UNCHANGED <<round, orders, pending, liquidated, pnl>>

(* Seeded bug: the queue is added to, not replaced. *)
MutantMargin ==
    /\ phase = "margin"
    /\ pending' = pending \union Due
    /\ liquidated' = [a \in Leveraged |-> IF a \in Due THEN round ELSE liquidated[a]]
    /\ pnl' = [a \in Leveraged |-> IF a \in Due THEN Equity(a, price) ELSE pnl[a]]
    /\ round' = round + 1
    /\ phase' = IF round = Rounds THEN "done" ELSE "decide"
    /\ orders' = [a \in Traders |-> Hold]
    /\ UNCHANGED <<price, dumped>>

(* The books that breach are closed and queued; the next round starts. *)
Margins ==
    /\ phase = "margin"
    /\ pending' = Due
    /\ liquidated' = [a \in Leveraged |-> IF a \in Due THEN round ELSE liquidated[a]]
    /\ pnl' = [a \in Leveraged |-> IF a \in Due THEN Equity(a, price) ELSE pnl[a]]
    /\ round' = round + 1
    /\ phase' = IF round = Rounds THEN "done" ELSE "decide"
    /\ orders' = [a \in Traders |-> Hold]
    /\ UNCHANGED <<price, dumped>>

Done == phase = "done" /\ UNCHANGED vars

Next == Decide \/ Clear \/ Margins \/ Done

Spec == Init /\ [][Next]_vars

-----------------------------------------------------------------------------
(* Safety *)

Between == phase \in {"decide", "done"}   \* no round is under way

(* A called book is closed for good and its forced sell enters the flow     *)
(* once, in the next round and in no other; only the sells called in the    *)
(* last round never do.                                                     *)
SoldOnce ==
    \A a \in Leveraged :
        /\ a \in pending <=> liquidated[a] > 0 /\ liquidated[a] = round - 1
        /\ dumped[a] = IF liquidated[a] > 0 /\ (a \notin pending \/ phase = "margin")
                       THEN 1 ELSE 0

(* The price before the shock is no liquidation's doing: before the news    *)
(* round ends no book is closed, and before it is over no forced sell is in *)
(* the flow.                                                                *)
BaselineUntouched ==
    \A a \in Leveraged :
        /\ liquidated[a] > 0 => liquidated[a] >= NewsRound
        /\ dumped[a] > 0 => round > NewsRound

(* Margins are judged by the price a round ends with, not by the one its    *)
(* orders were made at: from the news on no open book is below its margin   *)
(* when a round ends, and every closed one was below it at the price that   *)
(* its residual equity was computed from.                                   *)
BreachesAreCalled ==
    /\ Between /\ round > NewsRound =>
          \A a \in Leveraged : liquidated[a] = 0 => ~Breached(a, price)
    /\ \A a \in Leveraged :
          liquidated[a] > 0 => 100 * pnl[a] < Margin * (pnl[a] + Debt(a))

(* The cascade walks down the thresholds (breach_price): a book with more   *)
(* leverage is never closed after one with less.                            *)
CascadeOrder ==
    \A a, b \in Leveraged :
        Leverage[a] >= Leverage[b] /\ liquidated[b] > 0 =>
            liquidated[a] > 0 /\ liquidated[a] <= liquidated[b]

=============================================================================
