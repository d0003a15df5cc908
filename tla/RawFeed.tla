--------------------------------- MODULE RawFeed ---------------------------------
(***************************************************************************)
(* market.raw from end to end: the order book and the trades of one spot   *)
(* symbol at the exchange, the routing and normalisation of their messages *)
(* in market-ingestor (StreamManager::handle_text_message, model.rs), and  *)
(* the decoding into trade_ticks and bbo_ticks rows in market-persister    *)
(* (ingest_raw_market_data in main.rs, model.rs).                          *)
(*                                                                         *)
(* A JSON value is a record [form, val]: a number, a string, a Boolean     *)
(* (0 or 1), an array, null, or absent.  A number is an integer or Frac    *)
(* (one with a fraction); a string is what Rust's parse makes of it: a     *)
(* number, Inf (not finite), Yes ("true") or Junk (anything else).         *)
(* Integers are neither negative nor beyond the i64 of the row.            *)
(* One message is on its way at a time, and the book rests meanwhile: the  *)
(* message holds all of it that matters.  NATS may lose it.  Ingest times  *)
(* and first update ids are left out, and the keys "price", "quantity",    *)
(* "bids" and "asks" that the persister takes for "p", "q", "b" and "a".   *)
(***************************************************************************)
EXTENDS Integers

CONSTANTS
    Prices,         \* price levels of the book
    MaxQty,         \* bound of the model: quantity of a level
    Noise,          \* what the quantity of a level may read instead, None: null
    Payloads,       \* trades, and payloads of an event type not known
    Frac, Inf, Yes, Junk, None

ASSUME PricesAssumption == Prices \subseteq Nat
ASSUME MaxQtyAssumption == MaxQty \in Nat
ASSUME ValuesAssumption ==
    /\ {Frac, Inf, Yes, Junk, None} \intersect Nat = {}
    /\ Frac \notin {Inf, Yes, Junk, None} /\ Inf \notin {Yes, Junk, None}
    /\ Yes \notin {Junk, None} /\ Junk # None
    /\ Noise \subseteq {Inf, Junk, None}

Absent == [form |-> "absent", val |-> None]
Null == [form |-> "null", val |-> None]
Array == [form |-> "array", val |-> None]
Num(v) == [form |-> "num", val |-> v]
Str(v) == [form |-> "str", val |-> v]
Bool(v) == [form |-> "bool", val |-> v]
Levels(S) == [form |-> "levels", val |-> S]

(* Whatever may stand where a message has a field of a trade. *)
Json ==
    [form : {"num"}, val : Nat \union {Frac}]
      \union [form : {"str"}, val : Nat \union {Frac, Inf, Yes, Junk}]
      \union [form : {"bool"}, val : {0, 1}]
      \union {Array, Null, Absent}

(* A payload whose b and a are order ids; only depth updates have a u. *)
ASSUME PayloadsAssumption ==
    Payloads \subseteq
        [e : {"trade", "other"}, E : Json, s : Json, t : Json, p : Json, q : Json, b : Json,
         a : Json, T : Json, m : Json, M : Json, u : {Absent}]

VARIABLES
    bids, asks,     \* the book: the quantity at each price, 0 for none
    touched,        \* [bids, asks]: prices changed since the last depth message
    wire,           \* message on the websocket: its data and the book it is of
    topic,          \* message in NATS
    outcome         \* history: what became of the last message: its rows, one
                    \* at most, and the message of the websocket

vars == <<bids, asks, touched, wire, topic, outcome>>

DepthUpdate(B, A) ==
    [e |-> "depthUpdate", E |-> Num(1), s |-> Str(Junk), u |-> Num(1), b |-> Levels(B),
     a |-> Levels(A), t |-> Absent, p |-> Absent, q |-> Absent, T |-> Absent,
     m |-> Absent, M |-> Absent]

NoneTouched == [bids |-> {}, asks |-> {}]

Init ==
    /\ bids = [x \in Prices |-> 0]
    /\ asks = [x \in Prices |-> 0]
    /\ touched = NoneTouched
    /\ wire = None
    /\ topic = None
    /\ outcome = None

--------------------------------------------------------------------------------
(* The exchange.  Its book is never crossed.                                *)

Quiet == wire = None /\ topic = None

PlaceBid(x, n) ==
    /\ Quiet
    /\ bids[x] # n
    /\ n > 0 => \A y \in Prices : asks[y] > 0 => x < y
    /\ bids' = [bids EXCEPT ![x] = n]
    /\ touched' = [touched EXCEPT !.bids = @ \union {x}]
    /\ outcome' = None
    /\ UNCHANGED <<asks, wire, topic>>

PlaceAsk(x, n) ==
    /\ Quiet
    /\ asks[x] # n
    /\ n > 0 => \A y \in Prices : bids[y] > 0 => y < x
    /\ asks' = [asks EXCEPT ![x] = n]
    /\ touched' = [touched EXCEPT !.asks = @ \union {x}]
    /\ outcome' = None
    /\ UNCHANGED <<bids, wire, topic>>

Send(data) ==
    /\ Quiet
    /\ wire' = [data |-> data, bids |-> bids, asks |-> asks]
    /\ outcome' = None
    /\ UNCHANGED <<bids, asks, topic>>

(* The levels changed since the last message with their new quantities, 0  *)
(* for a level that is gone; the quantities of the levels in Bad read noise.*)
Changed(side, changed, Bad, noise) ==
    {[price |-> x, qty |-> IF x \in Bad THEN noise ELSE side[x]] : x \in changed}

SendDepth(noise, BadBids, BadAsks) ==
    /\ touched # NoneTouched
    /\ Send(DepthUpdate(Changed(bids, touched.bids, BadBids, noise),
                        Changed(asks, touched.asks, BadAsks, noise)))
    /\ touched' = NoneTouched

SendPayload(d) ==
    /\ Send(d)
    /\ UNCHANGED touched

--------------------------------------------------------------------------------
(* market-ingestor: handle_text_message.                                    *)

(* deserialize_u64_number_or_string *)
IsU64(x) == x.form \in {"num", "str"} /\ x.val \in Nat

(* deserialize_option_u64_number_or_string *)
IsOptU64(x) == x.form \in {"absent", "null"} \/ IsU64(x)

(* deserialize_string_number_or_string *)
IsText(x) == x.form \in {"num", "str"}

(* deserialize_bool_number_or_bool *)
IsFlag(x) == x.form = "bool" \/ (x.form = "num" /\ x.val \in {0, 1})

(* TradeEvent *)
TradeParses(d) ==
    /\ IsU64(d.E) /\ IsU64(d.t) /\ IsU64(d.T)
    /\ d.s.form = "str"
    /\ IsText(d.p) /\ IsText(d.q)
    /\ IsOptU64(d.b) /\ IsOptU64(d.a)
    /\ IsFlag(d.m)
    /\ d.M.form \in {"absent", "bool"}

(* DepthUpdateEvent: the numbers are numbers, a level is two strings. *)
DepthParses(d) ==
    /\ d.E.form = "num" /\ d.u.form = "num"
    /\ d.s.form = "str"
    /\ d.b.form = "levels" /\ \A l \in d.b.val : l.qty # None
    /\ d.a.form = "levels" /\ \A l \in d.a.val : l.qty # None

(* A trade as it is serialised again. *)
Normalised(d) ==
    [d EXCEPT !.E = Num(@.val), !.t = Num(@.val), !.T = Num(@.val),
              !.p = Str(@.val), !.q = Str(@.val),
              !.b = IF IsU64(@) THEN Num(@.val) ELSE Null,
              !.a = IF IsU64(@) THEN Num(@.val) ELSE Null,
              !.m = Bool(@.val), !.M = IF @ = Absent THEN Bool(0) ELSE @]

Publish(d) ==
    /\ topic' = [data |-> d, of |-> wire]
    /\ wire' = None
    /\ UNCHANGED <<bids, asks, touched, outcome>>

HandleTrade ==
    /\ wire # None /\ wire.data.e = "trade" /\ TradeParses(wire.data)
    /\ Publish(Normalised(wire.data))

(* A depth update that parses is published as it came, and so is anything   *)
(* of another event type.                                                   *)
HandleOther ==
    /\ wire # None /\ wire.data.e # "trade"
    /\ wire.data.e = "depthUpdate" => DepthParses(wire.data)
    /\ Publish(wire.data)

(* What does not parse is logged. *)
HandleErr ==
    /\ wire # None
    /\ \/ wire.data.e = "trade" /\ ~TradeParses(wire.data)
       \/ wire.data.e = "depthUpdate" /\ ~DepthParses(wire.data)
    /\ wire' = None
    /\ outcome' = [rows |-> {}, of |-> wire]
    /\ UNCHANGED <<bids, asks, touched, topic>>

(* NATS keeps nothing for a subscriber that is not there. *)
Lose ==
    /\ topic # None
    /\ topic' = None
    /\ UNCHANGED <<bids, asks, touched, wire, outcome>>

--------------------------------------------------------------------------------
(* market-persister: model.rs.                                              *)

(* Mutant: numbers in strings are not read. *)
AsF64_NumbersOnly(x) == IF x.form = "num" THEN x.val ELSE None

(* as_f64_loose *)
AsF64(x) == IF IsText(x) /\ x.val \notin {Yes, Junk} THEN x.val ELSE None

(* as_i64_loose, and extract_u64 of a key that is there *)
AsInt(x) == IF IsU64(x) THEN x.val ELSE None

(* extract_ts_ms *)
ExtractTs(d) == IF AsInt(d.T) # None THEN AsInt(d.T) ELSE AsInt(d.E)

(* extract_bool, and false when there is none *)
ExtractBool(x) ==
    \/ x.form \in {"bool", "num"} /\ x.val \in Nat \ {0}
    \/ x.form = "str" /\ x.val \in {1, Yes}

(* to_trade_row: no row or one. *)
ToTradeRow(d) ==
    {r \in {[kind |-> "trade", ts |-> ExtractTs(d), id |-> AsInt(d.t), price |-> AsF64(d.p),
             qty |-> AsF64(d.q), buyerMaker |-> ExtractBool(d.m)]} :
        r.ts # None /\ r.id # None /\ {r.price, r.qty} \intersect {None, Inf} = {}}

(* Mutant: an unreadable quantity still loses the message, but a level that *)
(* is not finite is kept.                                                   *)
ParseLevels_KeepsInf(x) ==
    IF x.form # "levels" \/ \E l \in x.val : l.qty \in {Junk, None} THEN {} ELSE x.val

(* parse_levels: a quantity that is no number loses them all, one that is   *)
(* not finite its level.                                                    *)
ParseLevels(x) ==
    IF x.form # "levels" \/ \E l \in x.val : l.qty \in {Junk, None}
        THEN {} ELSE {l \in x.val : l.qty # Inf}

(* Mutant: the highest of the prices that are there, with any quantity.     *)
BestBid_AnyQty(L) ==
    {[price |-> l.price, qty |-> k.qty] : l \in {l \in L : \A k \in L : k.price <= l.price}, k \in L}

BestBid(L) == {l \in L : \A k \in L : k.price <= l.price}

BestAsk(L) == {l \in L : \A k \in L : l.price <= k.price}

(* to_bbo_row *)
ToBboRow(d) ==
    {[kind |-> "bbo", ts |-> ExtractTs(d), bid |-> x.price, bidQty |-> x.qty,
      ask |-> y.price, askQty |-> y.qty] :
        x \in {l \in BestBid(ParseLevels(d.b)) : {ExtractTs(d), AsInt(d.u)} \intersect {None} = {}},
        y \in BestAsk(ParseLevels(d.a))}

(* ingest_raw_market_data: a trade row, else a BBO row, else nothing.       *)
Rows(d) == IF ToTradeRow(d) # {} THEN ToTradeRow(d) ELSE ToBboRow(d)

IngestRaw ==
    /\ topic # None
    /\ \/ \E r \in Rows(topic.data) : outcome' = [rows |-> {r}, of |-> topic.of]
       \/ Rows(topic.data) = {} /\ outcome' = [rows |-> {}, of |-> topic.of]
    /\ topic' = None
    /\ UNCHANGED <<bids, asks, touched, wire>>

Next ==
    \/ \E x \in Prices, n \in 0..MaxQty : PlaceBid(x, n)
    \/ \E x \in Prices, n \in 0..MaxQty : PlaceAsk(x, n)
    \/ \E noise \in Noise :
          \E B \in SUBSET touched.bids, A \in SUBSET touched.asks : SendDepth(noise, B, A)
    \/ \E d \in Payloads : SendPayload(d)
    \/ HandleTrade
    \/ HandleOther
    \/ HandleErr
    \/ Lose
    \/ IngestRaw

Spec == Init /\ [][Next]_vars

--------------------------------------------------------------------------------
RowType ==
    [kind : {"trade"}, ts : Nat, id : Nat, price : Nat \union {Frac},
     qty : Nat \union {Frac}, buyerMaker : BOOLEAN]
        \union [kind : {"bbo"}, ts : Nat, bid : Prices, bidQty : Nat, ask : Prices, askQty : Nat]

(* No row holds a value that is missing or not finite. *)
TypeOK ==
    /\ bids \in [Prices -> 0..MaxQty] /\ asks \in [Prices -> 0..MaxQty]
    /\ touched \in [bids : SUBSET Prices, asks : SUBSET Prices]
    /\ wire = None \/ topic = None
    /\ outcome # None => outcome.rows \subseteq RowType

(* The forms in which the comments of the ingestor's model.rs (3-21, 41,    *)
(* 144-145, 190) let the fields of a trade come, with values that fit them. *)
Whole == [form : {"num", "str"}, val : Nat]
Decimal == [form : {"num", "str"}, val : Nat \union {Frac}]
Truth == [form : {"bool"}, val : {0, 1}]
Sound(d) ==
    /\ {d.E, d.t, d.T} \subseteq Whole
    /\ {d.p, d.q} \subseteq Decimal
    /\ {d.b, d.a} \subseteq Whole \union {Null, Absent}
    /\ d.m \in Truth \union [form : {"num"}, val : {0, 1}]
    /\ d.M \in Truth \union {Absent}
    /\ d.s.form = "str"

(* A trade is stored if and only if all its fields come in those forms,     *)
(* those that nobody stores (M, b, a) included, and then with the values    *)
(* that were sent: what the first service takes and writes anew the second  *)
(* reads in the same way, unless it is no finite decimal.  Forms that the   *)
(* second alone would take ("true" for m, no E beside a T) never get there  *)
(* (ingestor model.rs:144-194, persister model.rs:155-177).                 *)
TradeStoredIffSound ==
    (outcome # None /\ outcome.of.data.e = "trade") =>
        LET d == outcome.of.data IN
        outcome.rows =
            IF Sound(d)
                THEN {[kind |-> "trade", ts |-> d.T.val, id |-> d.t.val, price |-> d.p.val,
                       qty |-> d.q.val, buyerMaker |-> d.m.val = 1]}
                ELSE {}

BboRows == {r \in outcome.rows : r.kind = "bbo"}

(* Though it is made from the changes of the book alone, and whatever       *)
(* levels were removed or unreadable, a BBO row is of the book when the     *)
(* message was sent: each price with its quantity there, and not crossed    *)
(* unless one of its levels is gone (persister model.rs:179-204, 264-297).  *)
BboIsOfTheBook ==
    outcome # None =>
        \A r \in BboRows :
            /\ outcome.of.bids[r.bid] = r.bidQty
            /\ outcome.of.asks[r.ask] = r.askQty
            /\ (r.bidQty > 0 /\ r.askQty > 0) => r.bid < r.ask

(* The highest and the lowest price at which the book has a quantity.       *)
IsBest(book, r) ==
    /\ book.bids[r.bid] > 0 /\ \A x \in Prices : book.bids[x] > 0 => x <= r.bid
    /\ book.asks[r.ask] > 0 /\ \A x \in Prices : book.asks[x] > 0 => r.ask <= x

(* What README.md:66 says of bbo_ticks ("best bid/offer"), and model.rs:65  *)
(* and ch.rs:61 of market-persister: the row is the best bid and offer.     *)
BboIsBest ==
    outcome # None => \A r \in BboRows : IsBest(outcome.of, r)
================================================================================
