------------------------------ MODULE MCSimBroker ------------------------------
(* Instances of SimBroker for TLC.  Prices within one step of 4 and 5 divide *)
(* 60, so that Wallet computes exactly.                                     *)
EXTENDS SimBroker, TLC

CONSTANTS btc, eth

MarketSymbols == Permutations({btc, eth})

(* The host may be a time unit behind the exchange or ahead of it. *)
ClockErrors == -1 .. 1
================================================================================
