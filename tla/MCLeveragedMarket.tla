-------------------------- MODULE MCLeveragedMarket --------------------------
(* Two leveraged agents and one that is not; 3.0 and 2.0 as the defaults     *)
(* stagger them.                                                             *)
EXTENDS LeveragedMarket

CONSTANTS fuel, fund, noise

MCTraders == {fuel, fund, noise}
MCLeveraged == {fuel, fund}
MCLeverage == [a \in MCLeveraged |-> IF a = fuel THEN 300 ELSE 200]
=============================================================================
