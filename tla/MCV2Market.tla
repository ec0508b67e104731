----------------------------- MODULE MCV2Market -----------------------------
(* Small markets for TLC. *)
EXTENDS V2Market

(* Four accounts over two rounds: three that can borrow, one that holds     *)
(* most of the shares.  What they can pay or have cuts an order of three    *)
(* down to different sizes, so that up to three crowd one side.             *)
TraderAgents == 1..4
TraderCash == <<2, 5, 0, 4>>
TraderShares == <<1, 1, 4, 1>>
TraderCredit == <<4, 3, 2, 0>>
=============================================================================
