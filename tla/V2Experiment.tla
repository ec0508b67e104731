---------------------------- MODULE V2Experiment ----------------------------
(***************************************************************************)
(* One cell of nmsim/v2_market_experiment.py: the round loop of _run_cell. *)
(* It calls constrain_orders, clear_call_auction and settle as             *)
(* run_synchronous_market does, but keeps its own accounts, facility and   *)
(* prices, hands each stage what it thinks is current, audits the result   *)
(* and carries it over itself; it also keeps the trade metadata the        *)
(* Student's features are computed from.  The action, its intensity and    *)
(* the two uniform draws are any.                                          *)
(*                                                                         *)
(* The names of a round (auction, settlement, ...) stay bound after it.    *)
(***************************************************************************)
EXTENDS Settlement, Sequences

CONSTANTS
    StartBasis,   \* basis_price_cents of each account at the start, 0 for None
    MaxOffset     \* MAX_LIMIT_OFFSET_BPS

(* _make_initial_condition and _cell_accounts: the facility holds the sum of  *)
(* the credit lines, and exactly the accounts that start with shares start   *)
(* with a basis.                                                             *)
ASSUME CellAssumption ==
    /\ Agents # {}
    /\ FacilityCash >= Sum(CreditLimit)
    /\ StartBasis \in [Agents -> Nat]
    /\ \A a \in Agents : StartBasis[a] > 0 <=> StartShares[a] > 0
    /\ MaxOffset \in 0..10000

VARIABLES
    stage,        \* of _run_cell; "raised" by a callback, "failed" by the Student,
                  \* "refused" by settle, "unsound" by the conservation audit
    snapshot,     \* MarketSnapshot of the round: its index and last price
    answered,     \* accounts that have a decision record in this round
    submitted,    \* the local intents
    constrained,  \* accepted orders
    auction,      \* the local clearing
    settlement,   \* what settle returned
    books,        \* the local accounts
    lender,       \* the local facility
    metadata,     \* AgentTradeMetadata by agent
    closes,       \* prices and volumes since the last close of the warm-up
    drawn         \* cumulative_borrowed

cellVars == <<stage, snapshot, answered, submitted, constrained, auction, settlement,
              books, lender, metadata, closes, drawn>>

Played == Len(closes) - 1
LastClose == closes[Len(closes)].price

-----------------------------------------------------------------------------
CellInit ==
    /\ stage = "begin"
    /\ snapshot = [round |-> 0, price |-> StartPrice]
    /\ answered = {} /\ submitted = {} /\ constrained = {} /\ auction = Idle
    /\ books = [cash |-> StartCash, shares |-> StartShares, debt |-> [a \in Agents |-> 0]]
    /\ lender = [cash |-> FacilityCash, loans |-> 0]
    /\ settlement = [accounts |-> books, facility |-> lender, borrowed |-> 0]
    /\ metadata = [a \in Agents |-> [basis |-> StartBasis[a], lastTrade |-> -1,
                                     salePrice |-> 0, saleRound |-> -1]]
    /\ closes = <<[price |-> StartPrice, volume |-> 0]>>
    /\ drawn = 0

(* on_round_started writes to disk and may raise. *)
StartRound ==
    /\ stage = "begin" /\ Played < Rounds
    /\ \/ /\ stage' = "ask"
          /\ snapshot' = [round |-> Played, price |-> LastClose]
          /\ answered' = {} /\ submitted' = {}
       \/ stage' = "raised" /\ UNCHANGED <<snapshot, answered, submitted>>
    /\ UNCHANGED <<constrained, auction, settlement, books, lender, metadata, closes, drawn>>

(* _limit_price, at least one cent: every price between those of the two      *)
(* extreme offsets, a superset of what whole basis points reach when a basis *)
(* point is more than a cent.                                                *)
LimitPrices(last) ==
    LET at(bps) == (last * (10000 + bps) + 5000) \div 10000
    IN  {p \in at(-MaxOffset)..at(MaxOffset) : p >= 1}

(* int(spendable * intensity) // limit, or int(shares * intensity), unless 0. *)
Sizes(a, side, limit) ==
    LET account == AccountsOf(books.cash, books.shares, books.debt)[a]
    IN  IF side = "buy" THEN 1..(BuyingPower(account, Financing) \div limit)
        ELSE 1..account.shares

(* The next account in order is shown to the Student, which may raise; from *)
(* its decision _intent_from_decision makes an order, or none: on hold, at  *)
(* no intensity, for less than one share.                                   *)
CellDecide ==
    /\ stage = "ask" /\ answered # Agents
    /\ LET a == Min(Agents \ answered) IN
       \/ /\ answered' = answered \union {a}
          /\ \/ submitted' = submitted
             \/ \E s \in {"buy", "sell"}, p \in LimitPrices(snapshot.price) :
                   \E n \in Sizes(a, s, p) :
                      submitted' = submitted \union
                          {[agent |-> a, side |-> s, quantity |-> n, limit |-> p]}
          /\ UNCHANGED stage
       \/ stage' = "failed" /\ UNCHANGED <<answered, submitted>>
    /\ UNCHANGED <<snapshot, constrained, auction, settlement, books, lender, metadata,
                   closes, drawn>>

CellConstrain ==
    /\ stage = "ask" /\ answered = Agents
    /\ constrained' = Constrained(submitted, AccountsOf(books.cash, books.shares, books.debt),
                                  Financing)
    /\ stage' = "clear"
    /\ UNCHANGED <<snapshot, answered, submitted, auction, settlement, books, lender,
                   metadata, closes, drawn>>

CellClear ==
    /\ stage = "clear"
    /\ auction' = Clearing(constrained, snapshot.price)
    /\ stage' = "settle"
    /\ UNCHANGED <<snapshot, answered, submitted, constrained, settlement, books, lender,
                   metadata, closes, drawn>>

(* settle returns new accounts and a new facility, or raises. *)
CellSettle ==
    /\ stage = "settle"
    /\ IF Refused(constrained, auction, books.cash, books.shares, books.debt, lender)
       THEN stage' = "refused" /\ UNCHANGED settlement
       ELSE LET F == auction.fills IN
            /\ stage' = "audit"
            /\ settlement' =
                  [accounts |-> [cash |-> Paid(F, books.cash),
                                 shares |-> Delivered(F, books.shares),
                                 debt |-> Owed(F, books.cash, books.debt)],
                   facility |-> Lent(F, books.cash, lender),
                   borrowed |-> Borrowed(F, books.cash)]
    /\ UNCHANGED <<snapshot, answered, submitted, constrained, auction, books, lender,
                   metadata, closes, drawn>>

-----------------------------------------------------------------------------
(* The conservation record of the round. *)
Sound ==
    LET after == settlement.accounts IN
    /\ Sum(after.cash) + settlement.facility.cash = Sum(books.cash) + lender.cash
    /\ Sum(after.shares) = Sum(books.shares)
    /\ Sum(after.debt) = settlement.facility.loans
    /\ \A side \in {"buy", "sell"} :
          Shares({f \in auction.fills : f.side = side}) = auction.volume
    /\ \A f \in auction.fills :
          IF f.side = "buy" THEN f.price <= f.limit ELSE f.price >= f.limit

(* Seeded bug: selling out leaves the old basis behind. *)
MutantUpdated(m, f, before, after) ==
    IF f.side = "buy"
    THEN LET old == IF m.basis = 0 THEN f.price ELSE m.basis
         IN  [m EXCEPT !.basis = (old * before + f.price * f.quantity + after \div 2) \div after,
                       !.lastTrade = snapshot.round]
    ELSE [m EXCEPT !.lastTrade = snapshot.round,
                   !.salePrice = f.price, !.saleRound = snapshot.round]

(* The metadata m of an account with fill f: the average cost of its shares, *)
(* rounded half up, is the basis, none any more when the last share is sold. *)
Updated(m, f, before, after) ==
    IF f.side = "buy"
    THEN LET old == IF m.basis = 0 THEN f.price ELSE m.basis
         IN  [m EXCEPT !.basis = (old * before + f.price * f.quantity + after \div 2) \div after,
                       !.lastTrade = snapshot.round]
    ELSE [basis |-> IF after = 0 THEN 0 ELSE m.basis, lastTrade |-> snapshot.round,
          salePrice |-> f.price, saleRound |-> snapshot.round]

(* _update_metadata: by the fill of each account that has one. *)
UpdatedMetadata ==
    [a \in Agents |->
        LET fills == {f \in auction.fills : f.agent = a}
        IN  IF fills = {} THEN metadata[a]
            ELSE Updated(metadata[a], CHOOSE f \in fills : TRUE,
                         books.shares[a], settlement.accounts.shares[a])]

(* Seeded bug: the next round borrows from the facility of this one. *)
MutantCarryOver ==
    /\ books' = settlement.accounts
    /\ metadata' = UpdatedMetadata
    /\ closes' = Append(closes, [price |-> auction.price, volume |-> auction.volume])
    /\ UNCHANGED lender

(* What the next round starts from. *)
CarryOver ==
    /\ books' = settlement.accounts /\ lender' = settlement.facility
    /\ metadata' = UpdatedMetadata
    /\ closes' = Append(closes, [price |-> auction.price, volume |-> auction.volume])

(* The audit, then the ledger row, then on_round_completed, which writes it  *)
(* to disk and may raise.                                                    *)
EndRound ==
    /\ stage = "audit"
    /\ drawn' = drawn + settlement.borrowed
    /\ IF Sound
       THEN stage' \in {"begin", "raised"} /\ CarryOver
       ELSE stage' = "unsound" /\ UNCHANGED <<books, lender, metadata, closes>>
    /\ UNCHANGED <<snapshot, answered, submitted, constrained, auction, settlement>>

Return ==
    /\ stage = "begin" /\ Played = Rounds
    /\ stage' = "returned"
    /\ UNCHANGED <<snapshot, answered, submitted, constrained, auction, settlement, books,
                   lender, metadata, closes, drawn>>

CellEnded ==
    /\ stage \in {"returned", "raised", "failed", "refused", "unsound"}
    /\ UNCHANGED cellVars

CellNext == \/ StartRound \/ CellDecide \/ CellConstrain \/ CellClear \/ CellSettle
            \/ EndRound \/ Return \/ CellEnded

CellSpec == CellInit /\ [][CellNext]_cellVars

-----------------------------------------------------------------------------
(* The facility starts with the sum of all credit lines, so settlement can  *)
(* fund every borrower in every round, and what it returns passes the audit *)
(* of the cell: what the facility holds always covers what may still be     *)
(* drawn.                                                                   *)
SettlementNeverFails ==
    /\ stage \notin {"refused", "unsound"}
    /\ lender.cash + Sum(books.debt) >= Sum(CreditLimit)

(* What was ever paid for the shares of an account: the basis it started    *)
(* with and the closes up to its last trade.                                *)
PricesPaid(a) ==
    {p \in {StartBasis[a]} \union {closes[i].price : i \in 2..(metadata[a].lastTrade + 2)} :
        p > 0}

(* The figures a cell reports and its Student sees follow the accounts: the  *)
(* credit used is the debt still owed; an account has a basis exactly when   *)
(* it has shares, between two prices it may have paid, however often it was  *)
(* averaged and rounded; the last sale is a trade of a round that was played *)
(* and was made at that round's close.                                       *)
RecordsFollowAccounts ==
    /\ stage # "unsound" => drawn = Sum(books.debt)
    /\ \A a \in Agents :
          LET m == metadata[a] IN
          /\ m.basis > 0 <=> books.shares[a] > 0
          /\ m.basis > 0 => \E p, q \in PricesPaid(a) : p <= m.basis /\ m.basis <= q
          /\ m.saleRound <= m.lastTrade /\ m.lastTrade < Played
          /\ m.saleRound >= 0 => m.salePrice = closes[m.saleRound + 2].price

-----------------------------------------------------------------------------
(* The cell as a run of run_synchronous_market: the round under way is the   *)
(* market's, between rounds the market waits for its first policy.           *)
InRound == stage \notin {"begin", "raised", "returned"}

Phase ==
    IF ~InRound THEN IF Played = Rounds THEN "done" ELSE "decide"
    ELSE CASE stage \in {"ask", "failed"} -> IF answered = Agents THEN "constrain" ELSE "decide"
           [] stage = "clear" -> "clear"
           [] stage \in {"settle", "audit", "unsound"} -> "settle"
           [] stage = "refused" -> "raised"

Market == INSTANCE V2Market WITH
    phase <- Phase, round <- Played,
    asked <- IF InRound THEN answered ELSE {},
    intents <- IF InRound THEN submitted ELSE {},
    orders <- IF InRound /\ stage \notin {"ask", "failed"} THEN constrained ELSE {},
    clearing <- IF stage \in {"settle", "audit", "refused", "unsound"} THEN auction ELSE Idle,
    cash <- books.cash, shares <- books.shares, debt <- books.debt,
    facility <- lender, price <- LastClose

(* The loop written out in _run_cell does what run_synchronous_market does:  *)
(* every stage gets the accounts, the facility and the last price the        *)
(* market's own loop would give it, and a round leaves what the market's     *)
(* would leave.                                                              *)
ImplementsMarket == Market!Spec
=============================================================================
