-------------------------------- MODULE MCRawFeed --------------------------------
(* Instances of RawFeed for TLC. *)
EXTENDS RawFeed

Three == 1..3
Unreadable == {Inf, Junk, None}

(* A trade made at 1, reported at 2. *)
Trade ==
    [e |-> "trade", E |-> Num(2), s |-> Str(Junk), t |-> Num(5), p |-> Str(7), q |-> Str(7),
     b |-> Num(1), a |-> Num(2), T |-> Num(1), m |-> Bool(0), M |-> Bool(1), u |-> Absent]

Fields == {"E", "s", "t", "p", "q", "b", "a", "T", "m", "M"}

(* Every form a field may come in. *)
Forms ==
    {Num(0), Num(1), Num(2), Num(Frac), Str(1), Str(Frac), Str(Inf), Str(Yes), Str(Junk),
     Bool(0), Bool(1), Array, Null, Absent}

(* Trades of which any one field may be anything, and other events that look *)
(* like them; trades whose price and quantity are both odd; trades with all  *)
(* numbers in strings and no order ids.                                      *)
AnyForm ==
    {[Trade EXCEPT ![f] = x] : f \in Fields, x \in Forms}
      \union {[Trade EXCEPT !.e = "other", ![f] = x] : f \in {"t", "p", "m"}, x \in Forms}
      \union {[Trade EXCEPT !.p = x, !.q = y] : x \in {Num(7), Num(Frac)}, y \in {Str(Inf), Str(Junk), Absent}}
      \union {[Trade EXCEPT !.E = Str(2), !.t = Str(5), !.T = Str(1), !.p = Num(7), !.q = x, !.b = Absent,
                            !.a = Null, !.m = Num(1), !.M = Absent] : x \in {Num(Frac), Str(Junk)}}
================================================================================
