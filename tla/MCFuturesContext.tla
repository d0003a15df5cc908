----------------------------- MODULE MCFuturesContext ----------------------------
(* Instances of FuturesContext for TLC. *)
EXTENDS FuturesContext

CONSTANTS btc, eth

Level(p, q) == [price |-> p, qty |-> q]

(* The exchange sends bids from the highest price, asks from the lowest.    *)
(* Each side has a level whose price, and one whose quantity cannot be read.*)
SomeDepths ==
    {[bids |-> <<Level(Junk, 7), Level(3, 8), Level(2, Inf), Level(1, 9)>>,
      asks |-> <<Level(4, Junk), Level(5, 6), Level(Inf, 5), Level(7, 7)>>]}

Order(price, ap, qty, filled) == [price |-> price, ap |-> ap, qty |-> qty, filled |-> filled]
SomeOrders == {Order(2, None, 7, None), Order(2, Inf, 7, 5)}

SomeMarks == {[price |-> 2, rate |-> Inf]}
================================================================================
