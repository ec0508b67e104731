------------------------ MODULE LeveragedMarketProofs ------------------------
(***************************************************************************)
(* What the margin rule of nmsim/leverage.py guarantees for any cohort, any *)
(* orders and any price impact.  The proofs use of a cleared price only     *)
(* that it is a whole number of cents: the sums of an auction are folds,    *)
(* which no installed prover can induct over.                               *)
(***************************************************************************)
EXTENDS LeveragedMarket, TLAPS

TypeInv ==
    /\ phase \in {"decide", "clear", "margin", "done"}
    /\ round \in Nat \ {0}
    /\ price \in Int
    /\ pending \subseteq Leveraged
    /\ liquidated \in [Leveraged -> Nat]
    /\ dumped \in [Leveraged -> Nat]

(* A book is closed in a round that has ended or is under way in margin_calls. *)
ClosedBefore == \A a \in Leveraged : liquidated[a] < round

Inv ==
    /\ TypeInv
    /\ ClosedBefore
    /\ SoldOnce
    /\ BaselineUntouched
    /\ BreachesAreCalled
    /\ CascadeOrder

-----------------------------------------------------------------------------
(* clear_by_pressure yields whole cents, whatever the flow. *)
LEMMA ClearedIsInteger ==
    ASSUME price \in Int, NEW q \in Cleared
    PROVE  q \in Int
  BY DEF Cleared, Nearest

(* A factor of a positive product that is not smaller keeps it as large. *)
LEMMA Grows ==
    ASSUME NEW d \in Int, NEW x \in Nat, NEW y \in Nat, d > 0, y >= x
    PROVE  d * y >= d * x
  <1>1. PICK k \in Nat : y = x + k
    <2>1. y - x \in Nat /\ y = x + (y - x)
      OBVIOUS
    <2> QED BY <2>1
  <1>2. d * y = d * x + d * k
    BY <1>1
  <1>3. d * k >= 0
    BY <1>1
  <1> QED BY <1>1, <1>2, <1>3

(* A product of an integer and a natural number is positive only if the     *)
(* integer is.                                                              *)
LEMMA PositiveFactor ==
    ASSUME NEW d \in Int, NEW x \in Nat, d * x > 0
    PROVE  d > 0
  <1>1. CASE d >= 1
    BY <1>1
  <1>2. CASE d <= 0
    <2>1. -d \in Nat
      BY <1>2
    <2>2. (-d) * x >= 0
      BY <2>1
    <2>3. (-d) * x = -(d * x)
      OBVIOUS
    <2> QED BY <2>2, <2>3
  <1> QED BY <1>1, <1>2

(* At any price a book with more leverage breaches if one with less does:   *)
(* breach_price grows with the leverage.                                    *)
LEMMA BreachGrows ==
    ASSUME NEW a \in Leveraged, NEW b \in Leveraged, NEW p \in Int,
           Leverage[a] >= Leverage[b], Breached(b, p)
    PROVE  Breached(a, p)
  <1> DEFINE B == 100 * StartPrice
             A == (100 - Margin) * p
             d == B - A
  <1>1. Leverage[a] \in Nat /\ Leverage[b] \in Nat
    BY LeverageAssumption
  <1>2. B \in Nat /\ A \in Int /\ d \in Int /\ Margin \in Int /\ StartPrice \in Int
    BY LeverageAssumption
  <1>3. ASSUME NEW x \in Nat
        PROVE  100 * (p * x - StartPrice * (x - 100)) < Margin * (p * x)
                 <=> d * x > 100 * B
    <2>1. 100 * (p * x) - Margin * (p * x) = A * x
      BY <1>2, <1>3
    <2>2. 100 * (StartPrice * (x - 100)) = B * x - 100 * B
      BY <1>2, <1>3
    <2>3. d * x = B * x - A * x
      BY <1>2, <1>3
    <2>4. p * x \in Int /\ StartPrice * (x - 100) \in Int
          /\ Margin * (p * x) \in Int /\ A * x \in Int /\ B * x \in Int /\ d * x \in Int
      BY <1>2, <1>3
    <2>5. 100 * (p * x - StartPrice * (x - 100))
            = 100 * (p * x) - 100 * (StartPrice * (x - 100))
      BY <2>4
    <2> HIDE DEF A, B, d
    <2> QED BY <1>2, <2>1, <2>2, <2>3, <2>4, <2>5
  <1>4. Breached(a, p) <=> d * Leverage[a] > 100 * B
    BY <1>1, <1>3 DEF Breached, Equity, Position, Debt
  <1>5. d * Leverage[b] > 100 * B
    <2>1. Breached(b, p) <=> d * Leverage[b] > 100 * B
      BY <1>1, <1>3 DEF Breached, Equity, Position, Debt
    <2> QED BY <2>1
  <1> HIDE DEF A, B, d
  <1>6. d > 0
    BY <1>1, <1>2, <1>5, PositiveFactor
  <1>7. d * Leverage[a] >= d * Leverage[b]
    BY <1>1, <1>2, <1>6, Grows
  <1>8. d * Leverage[a] \in Int /\ d * Leverage[b] \in Int
    BY <1>1, <1>2
  <1> QED BY <1>2, <1>4, <1>5, <1>7, <1>8

-----------------------------------------------------------------------------
LEMMA InitInv == Init => Inv
  <1> SUFFICES ASSUME Init PROVE Inv
    OBVIOUS
  <1> USE LeverageAssumption DEF Init
  <1>1. TypeInv
    BY DEF TypeInv
  <1>2. ClosedBefore
    BY DEF ClosedBefore
  <1>3. SoldOnce /\ BaselineUntouched /\ BreachesAreCalled /\ CascadeOrder
    BY DEF SoldOnce, BaselineUntouched, BreachesAreCalled, CascadeOrder, Between
  <1> QED BY <1>1, <1>2, <1>3 DEF Inv

(* Orders alone change nothing of the book. *)
LEMMA DecideInv == Inv /\ Decide => Inv'
  <1> SUFFICES ASSUME Inv, Decide PROVE Inv'
    OBVIOUS
  <1> USE DEF Inv, Decide, book
  <1>1. TypeInv'
    BY DEF TypeInv
  <1>2. ClosedBefore' /\ BaselineUntouched' /\ CascadeOrder'
    BY DEF ClosedBefore, BaselineUntouched, CascadeOrder
  <1>3. SoldOnce'
    BY DEF SoldOnce
  <1>4. BreachesAreCalled'
    BY DEF BreachesAreCalled, Between, Debt
  <1> QED BY <1>1, <1>2, <1>3, <1>4

(* The auction is where a queued sell is counted. *)
LEMMA ClearInv == Inv /\ Clear => Inv'
  <1> SUFFICES ASSUME Inv, Clear PROVE Inv'
    OBVIOUS
  <1>1. /\ phase = "clear" /\ phase' = "margin"
        /\ round' = round /\ pending' = pending /\ liquidated' = liquidated
        /\ dumped' = [a \in Leveraged |-> dumped[a] + IF a \in pending THEN 1 ELSE 0]
        /\ pnl' = pnl
    BY DEF Clear
  <1>2. TypeInv /\ ClosedBefore /\ SoldOnce /\ BaselineUntouched /\ CascadeOrder
    BY DEF Inv
  <1>3. price' \in Int
    BY <1>2, ClearedIsInteger DEF Clear, TypeInv
  <1>4. TypeInv'
    BY <1>1, <1>2, <1>3 DEF TypeInv
  <1>5. ClosedBefore' /\ CascadeOrder'
    BY <1>1, <1>2 DEF ClosedBefore, CascadeOrder
  <1>6. SoldOnce'
    BY <1>1, <1>2 DEF SoldOnce, TypeInv
  <1>7. BaselineUntouched'
    <2> SUFFICES ASSUME NEW a \in Leveraged
                 PROVE  /\ liquidated[a] > 0 => liquidated[a] >= NewsRound
                        /\ dumped'[a] > 0 => round > NewsRound
      BY <1>1 DEF BaselineUntouched
    <2>1. CASE a \in pending
      BY <1>1, <1>2, <2>1, LeverageAssumption DEF SoldOnce, BaselineUntouched, TypeInv
    <2>2. CASE a \notin pending
      BY <1>1, <1>2, <2>2 DEF BaselineUntouched, TypeInv
    <2> QED BY <2>1, <2>2
  <1>8. BreachesAreCalled'
    BY <1>1 DEF BreachesAreCalled, Between, Inv, Debt
  <1> QED BY <1>4, <1>5, <1>6, <1>7, <1>8 DEF Inv

(* margin_calls closes every open book that breaches, and no other. *)
LEMMA MarginsInv == Inv /\ Margins => Inv'
  <1> SUFFICES ASSUME Inv, Margins PROVE Inv'
    OBVIOUS
  <1> DEFINE called == Due
  <1>1. /\ phase = "margin" /\ phase' \in {"decide", "done"}
        /\ round' = round + 1 /\ price' = price /\ dumped' = dumped
        /\ pending' = called
        /\ liquidated' = [a \in Leveraged |-> IF a \in called THEN round ELSE liquidated[a]]
        /\ pnl' = [a \in Leveraged |-> IF a \in called THEN Equity(a, price) ELSE pnl[a]]
    BY DEF Margins
  <1>2. TypeInv /\ ClosedBefore /\ SoldOnce /\ BaselineUntouched /\ CascadeOrder
    BY DEF Inv
  <1>3. \A a \in Leveraged :
           a \in called <=> round >= NewsRound /\ liquidated[a] = 0 /\ Breached(a, price)
    BY DEF Due, Called
  <1>4. called \subseteq Leveraged
    BY DEF Due, Called
  <1> HIDE DEF called
  <1>5. TypeInv'
    BY <1>1, <1>2, <1>4 DEF TypeInv
  <1>6. ClosedBefore'
    BY <1>1, <1>2 DEF ClosedBefore, TypeInv
  <1>7. SoldOnce'
    <2> SUFFICES ASSUME NEW a \in Leveraged
                 PROVE  /\ a \in called <=> liquidated'[a] > 0 /\ liquidated'[a] = round
                        /\ dumped[a] = IF liquidated'[a] > 0 /\ a \notin called
                                       THEN 1 ELSE 0
      BY <1>1, <1>2 DEF SoldOnce, TypeInv
    <2>1. CASE a \in called
      BY <1>1, <1>2, <1>3, <2>1 DEF SoldOnce, TypeInv
    <2>2. CASE a \notin called
      BY <1>1, <1>2, <2>2 DEF SoldOnce, ClosedBefore, TypeInv
    <2> QED BY <2>1, <2>2
  <1>8. BaselineUntouched'
    <2> SUFFICES ASSUME NEW a \in Leveraged
                 PROVE  /\ liquidated'[a] > 0 => liquidated'[a] >= NewsRound
                        /\ dumped[a] > 0 => round + 1 > NewsRound
      BY <1>1 DEF BaselineUntouched
    <2>1. CASE a \in called
      BY <1>1, <1>2, <1>3, <2>1, LeverageAssumption DEF BaselineUntouched, TypeInv
    <2>2. CASE a \notin called
      BY <1>1, <1>2, <2>2, LeverageAssumption DEF BaselineUntouched, TypeInv
    <2> QED BY <2>1, <2>2
  <1>9. BreachesAreCalled'
    <2>1. ASSUME round + 1 > NewsRound, NEW a \in Leveraged, liquidated'[a] = 0
          PROVE  ~Breached(a, price)
      <3>1. round >= NewsRound
        BY <1>2, <2>1, LeverageAssumption DEF TypeInv
      <3>2. a \notin called /\ liquidated[a] = 0
        BY <1>1, <1>2, <2>1 DEF TypeInv
      <3> QED BY <1>3, <3>1, <3>2
    <2>2. ASSUME NEW a \in Leveraged, liquidated'[a] > 0
          PROVE  100 * pnl'[a] < Margin * (pnl'[a] + Debt(a))
      <3>1. CASE a \in called
        <4>1. 100 * Equity(a, price) < Margin * Position(a, price) /\ pnl'[a] = Equity(a, price)
          BY <1>1, <1>3, <3>1 DEF Breached
        <4>2. Position(a, price) \in Int /\ Debt(a) \in Int
          BY <1>2, LeverageAssumption DEF TypeInv, Position, Debt
        <4>3. Equity(a, price) + Debt(a) = Position(a, price)
          BY <4>2 DEF Equity
        <4> QED BY <4>1, <4>3
      <3>2. CASE a \notin called
        <4>1. liquidated'[a] = liquidated[a] /\ pnl'[a] = pnl[a]
          BY <1>1, <3>2
        <4>2. liquidated[a] > 0 => 100 * pnl[a] < Margin * (pnl[a] + Debt(a))
          BY DEF Inv, BreachesAreCalled
        <4> QED BY <2>2, <4>1, <4>2
      <3> QED BY <3>1, <3>2
    <2>3. Between' /\ round' > NewsRound =>
              \A a \in Leveraged : liquidated'[a] = 0 => ~Breached(a, price')
      BY <1>1, <2>1
    <2>4. \A a \in Leveraged : Breached(a, price)' <=> Breached(a, price')
      BY DEF Breached, Equity, Position, Debt
    <2> QED BY <2>2, <2>3, <2>4 DEF BreachesAreCalled, Debt
  <1>10. CascadeOrder'
    <2> SUFFICES ASSUME NEW a \in Leveraged, NEW b \in Leveraged,
                        Leverage[a] >= Leverage[b], liquidated'[b] > 0
                 PROVE  liquidated'[a] > 0 /\ liquidated'[a] <= liquidated'[b]
      BY DEF CascadeOrder
    <2>1. liquidated[a] \in Nat /\ liquidated[b] \in Nat /\ round \in Nat \ {0}
          /\ liquidated[a] < round /\ price \in Int
      BY <1>2 DEF TypeInv, ClosedBefore
    <2>2. CASE b \in called
      <3>1. Breached(a, price) /\ round >= NewsRound /\ liquidated'[b] = round
        BY <1>1, <1>3, <2>1, <2>2, BreachGrows
      <3>2. CASE liquidated[a] = 0
        BY <1>1, <1>3, <2>1, <3>1, <3>2
      <3>3. CASE liquidated[a] > 0
        BY <1>1, <1>3, <2>1, <3>1, <3>3
      <3> QED BY <2>1, <3>2, <3>3
    <2>3. CASE b \notin called
      <3>1. liquidated[b] > 0 /\ liquidated'[b] = liquidated[b]
        BY <1>1, <2>3
      <3>2. liquidated[a] > 0 /\ liquidated[a] <= liquidated[b]
        BY <1>2, <3>1 DEF CascadeOrder
      <3>3. a \notin called
        BY <1>3, <2>1, <3>2
      <3> QED BY <1>1, <3>1, <3>2, <3>3
    <2> QED BY <2>2, <2>3
  <1> QED BY <1>5, <1>6, <1>7, <1>8, <1>9, <1>10 DEF Inv

LEMMA StutterInv == Inv /\ UNCHANGED vars => Inv'
  <1> SUFFICES ASSUME Inv, UNCHANGED vars PROVE Inv'
    OBVIOUS
  <1> USE DEF Inv, vars, book
  <1>1. TypeInv' /\ ClosedBefore' /\ SoldOnce' /\ BaselineUntouched' /\ CascadeOrder'
    BY DEF TypeInv, ClosedBefore, SoldOnce, BaselineUntouched, CascadeOrder
  <1>2. BreachesAreCalled'
    BY DEF BreachesAreCalled, Between, Breached, Equity, Position, Debt
  <1> QED BY <1>1, <1>2

(* Inv is inductive. *)
THEOREM Invariance == Spec => []Inv
  <1>1. Inv /\ [Next]_vars => Inv'
    BY DecideInv, ClearInv, MarginsInv, StutterInv DEF Next, Done
  <1> QED BY <1>1, InitInv, PTL DEF Spec

(* However the traders order, each forced sell enters the flow once, in the *)
(* round after its margin call (margin_calls, pending_liq).                 *)
THEOREM ForcedSellsEnterOnce == Spec => []SoldOnce
  <1>1. Inv => SoldOnce
    BY DEF Inv
  <1> QED BY <1>1, Invariance, PTL

(* No liquidation ever reaches the price before the news round is over (the *)
(* gate in run_sim).                                                        *)
THEOREM NoLiquidationBeforeNews == Spec => []BaselineUntouched
  <1>1. Inv => BaselineUntouched
    BY DEF Inv
  <1> QED BY <1>1, Invariance, PTL

(* Margins are judged by the price a round ends with: from the news on no   *)
(* open book is below its margin then, and every closed one was below it at *)
(* the price it was closed at.                                              *)
THEOREM NoBreachIsMissed == Spec => []BreachesAreCalled
  <1>1. Inv => BreachesAreCalled
    BY DEF Inv
  <1> QED BY <1>1, Invariance, PTL

(* For any ladder of leverages and any price path, books are closed in the  *)
(* order of their leverage.                                                 *)
THEOREM CascadeWalksDown == Spec => []CascadeOrder
  <1>1. Inv => CascadeOrder
    BY DEF Inv
  <1> QED BY <1>1, Invariance, PTL
=============================================================================
