------------------------------ MODULE RawFeedProofs ------------------------------
(***************************************************************************)
(* What the rows of market.raw are made of, for every book, every change   *)
(* of it, every unreadable level and every form of the fields of a trade.  *)
(***************************************************************************)
EXTENDS RawFeed, TLAPS

NotCrossed(b, a) == \A x \in Prices, y \in Prices : b[x] > 0 /\ a[y] > 0 => x < y

(* The levels are of that side of a book, or unreadable. *)
OfSide(L, side) ==
    \A l \in L : l.price \in Prices /\ (l.qty = side[l.price] \/ l.qty \in {Inf, Junk, None})

(* A depth message with the book it is of. *)
IsDepth(w) ==
    /\ w.data.e = "depthUpdate"
    /\ w.data.t = Absent /\ w.data.T = Absent /\ w.data.E = Num(1) /\ w.data.u = Num(1)
    /\ w.data.b.form = "levels" /\ OfSide(w.data.b.val, w.bids)
    /\ w.data.a.form = "levels" /\ OfSide(w.data.a.val, w.asks)

Carried(w) ==
    /\ w.bids \in [Prices -> Nat] /\ w.asks \in [Prices -> Nat]
    /\ NotCrossed(w.bids, w.asks)
    /\ w.data \in Payloads \/ IsDepth(w)

(* What market-ingestor publishes of a message. *)
Published(w, data) ==
    IF w.data.e = "trade" THEN TradeParses(w.data) /\ data = Normalised(w.data)
                          ELSE data = w.data

Book ==
    /\ bids \in [Prices -> 0..MaxQty] /\ asks \in [Prices -> 0..MaxQty]
    /\ touched \in [bids : SUBSET Prices, asks : SUBSET Prices]
    /\ NotCrossed(bids, asks)

OnTheWay ==
    /\ wire = None \/ topic = None
    /\ wire # None => Carried(wire)
    /\ topic # None => Carried(topic.of) /\ Published(topic.of, topic.data)

RowsTyped == outcome # None => outcome.rows \subseteq RowType

IInv == Book /\ OnTheWay /\ RowsTyped /\ TradeStoredIffSound /\ BboIsOfTheBook

--------------------------------------------------------------------------------
(* The conversions.                                                         *)

LEMMA JsonForm ==
    ASSUME NEW x \in Json
    PROVE  /\ x.form \in {"num", "str", "bool", "array", "null", "absent"}
           /\ x.form = "num" => x.val \in Nat \union {Frac}
           /\ x.form = "str" => x.val \in Nat \union {Frac, Inf, Yes, Junk}
           /\ x.form = "bool" => x.val \in {0, 1}
           /\ x.form = "null" => x = Null
           /\ x.form = "absent" => x = Absent
<1>1. CASE x \in [form : {"num"}, val : Nat \union {Frac}]
  BY <1>1
<1>2. CASE x \in [form : {"str"}, val : Nat \union {Frac, Inf, Yes, Junk}]
  BY <1>2
<1>3. CASE x \in [form : {"bool"}, val : {0, 1}]
  BY <1>3
<1>4. CASE x \in {Array, Null, Absent}
  BY <1>4 DEF Array, Null, Absent
<1> QED
  BY <1>1, <1>2, <1>3, <1>4 DEF Json

(* A field has the form and value it should have exactly if the conversion  *)
(* of the ingestor takes it, but for the numbers in a text.                 *)
LEMMA Fits ==
    ASSUME NEW x \in Json
    PROVE  /\ x \in Whole <=> IsU64(x)
           /\ x \in Decimal <=> IsText(x) /\ x.val \in Nat \union {Frac}
           /\ x \in Whole \union {Null, Absent} <=> IsOptU64(x)
           /\ x \in Truth \union [form : {"num"}, val : {0, 1}] <=> IsFlag(x)
           /\ x \in Truth \union {Absent} <=> x.form \in {"absent", "bool"}
<1>1. CASE x \in [form : {"num"}, val : Nat \union {Frac}]
  <2>1. x = Num(x.val) /\ x.form = "num"
    BY <1>1 DEF Num
  <2> QED
    BY <2>1, <1>1 DEF Whole, Decimal, Truth, IsU64, IsText, IsOptU64, IsFlag, Null, Absent, Num
<1>2. CASE x \in [form : {"str"}, val : Nat \union {Frac, Inf, Yes, Junk}]
  <2>1. x = Str(x.val) /\ x.form = "str"
    BY <1>2 DEF Str
  <2> QED
    BY <2>1, <1>2 DEF Whole, Decimal, Truth, IsU64, IsText, IsOptU64, IsFlag, Null, Absent, Str
<1>3. CASE x \in [form : {"bool"}, val : {0, 1}]
  <2>1. x = Bool(x.val) /\ x.form = "bool"
    BY <1>3 DEF Bool
  <2> QED
    BY <2>1, <1>3 DEF Whole, Decimal, Truth, IsU64, IsText, IsOptU64, IsFlag, Null, Absent, Bool
<1>4. CASE x \in {Array, Null, Absent}
  BY <1>4, ValuesAssumption
  DEF Whole, Decimal, Truth, IsU64, IsText, IsOptU64, IsFlag, Array, Null, Absent
<1> QED
  BY <1>1, <1>2, <1>3, <1>4 DEF Json

(* A field is read as a number, as not finite, or not at all. *)
LEMMA NumericRead ==
    ASSUME NEW x \in Json
    PROVE  /\ AsInt(x) \in Nat \union {None}
           /\ AsF64(x) \in Nat \union {Frac, None, Inf}
BY JsonForm DEF AsInt, AsF64, IsU64, IsText

LEMMA Read ==
    ASSUME NEW v
    PROVE  /\ v \in Nat => AsInt(Num(v)) = v
           /\ AsF64(Str(v)) = IF v \notin {Yes, Junk} THEN v ELSE None
           /\ v \in {0, 1} => ExtractBool(Bool(v)) = (v = 1)
<1>1. Num(v).form = "num" /\ Num(v).val = v
  BY DEF Num
<1>2. Str(v).form = "str" /\ Str(v).val = v
  BY DEF Str
<1>3. Bool(v).form = "bool" /\ Bool(v).val = v
  BY DEF Bool
<1>4. v \in Nat => AsInt(Num(v)) = v
  BY <1>1 DEF AsInt, IsU64
<1>5. AsF64(Str(v)) = IF v \notin {Yes, Junk} THEN v ELSE None
  BY <1>2 DEF AsF64, IsText
<1>6. v \in {0, 1} => ExtractBool(Bool(v)) = (v = 1)
  <2>1. v \in {0, 1} => (ExtractBool(Bool(v)) <=> v = 1)
    BY <1>3 DEF ExtractBool
  <2>2. ExtractBool(Bool(v)) \in BOOLEAN
    BY DEF ExtractBool
  <2> QED
    BY <2>1, <2>2
<1> QED
  BY <1>4, <1>5, <1>6

LEMMA PayloadForm ==
    ASSUME NEW d \in Payloads
    PROVE  /\ d.e \in {"trade", "other"} /\ d.u = Absent
           /\ d.E \in Json /\ d.s \in Json /\ d.t \in Json /\ d.p \in Json /\ d.q \in Json
           /\ d.b \in Json /\ d.a \in Json /\ d.T \in Json /\ d.m \in Json /\ d.M \in Json
           /\ d = [e |-> d.e, E |-> d.E, s |-> d.s, t |-> d.t, p |-> d.p, q |-> d.q, b |-> d.b,
                   a |-> d.a, T |-> d.T, m |-> d.m, M |-> d.M, u |-> d.u]
BY PayloadsAssumption

LEMMA NormalisedForm ==
    ASSUME NEW d \in Payloads
    PROVE  /\ Normalised(d).t = Num(d.t.val) /\ Normalised(d).T = Num(d.T.val)
           /\ Normalised(d).m = Bool(d.m.val)
           /\ Normalised(d).p = Str(d.p.val) /\ Normalised(d).q = Str(d.q.val)
           /\ Normalised(d).u = Absent
<1>1. d = [e |-> d.e, E |-> d.E, s |-> d.s, t |-> d.t, p |-> d.p, q |-> d.q, b |-> d.b,
           a |-> d.a, T |-> d.T, m |-> d.m, M |-> d.M, u |-> d.u]
  BY PayloadForm
<1>2. d.u = Absent
  BY PayloadForm
<1> QED
  BY <1>1, <1>2 DEF Normalised

(* Without an update id there is no BBO row. *)
LEMMA NoBbo ==
    ASSUME NEW d, d.u = Absent
    PROVE  ToBboRow(d) = {}
<1>1. AsInt(d.u) = None
  BY DEF AsInt, IsU64, Absent
<1> QED
  BY <1>1 DEF ToBboRow

(* A trade that the ingestor takes is sound if price and quantity are finite *)
(* decimals; one that it does not take is not sound.                        *)
LEMMA SoundForm ==
    ASSUME NEW d \in Payloads
    PROVE  Sound(d) <=> TradeParses(d) /\ {d.p.val, d.q.val} \subseteq Nat \union {Frac}
<1>1. {d.E, d.t, d.T} \subseteq Whole <=> IsU64(d.E) /\ IsU64(d.t) /\ IsU64(d.T)
  BY PayloadForm, Fits
<1>2. {d.p, d.q} \subseteq Decimal <=> /\ IsText(d.p) /\ IsText(d.q)
                                      /\ {d.p.val, d.q.val} \subseteq Nat \union {Frac}
  BY PayloadForm, Fits
<1>3. {d.b, d.a} \subseteq Whole \union {Null, Absent} <=> IsOptU64(d.b) /\ IsOptU64(d.a)
  <2>1. d.b \in Whole \union {Null, Absent} <=> IsOptU64(d.b)
    BY PayloadForm, Fits
  <2>2. d.a \in Whole \union {Null, Absent} <=> IsOptU64(d.a)
    BY PayloadForm, Fits
  <2> QED
    BY <2>1, <2>2
<1>4. d.m \in Truth \union [form : {"num"}, val : {0, 1}] <=> IsFlag(d.m)
  BY PayloadForm, Fits
<1>5. d.M \in Truth \union {Absent} <=> d.M.form \in {"absent", "bool"}
  BY PayloadForm, Fits
<1> QED
  BY <1>1, <1>2, <1>3, <1>4, <1>5 DEF Sound, TradeParses

TradeRow(d) ==
    [kind |-> "trade", ts |-> d.T.val, id |-> d.t.val, price |-> d.p.val,
     qty |-> d.q.val, buyerMaker |-> d.m.val = 1]

(* A trade that is published becomes its row, or nothing if its price or    *)
(* its quantity cannot be read.                                             *)
LEMMA Stored ==
    ASSUME NEW d \in Payloads, TradeParses(d)
    PROVE  Rows(Normalised(d)) = IF Sound(d) THEN {TradeRow(d)} ELSE {}
<1> DEFINE n == Normalised(d)
<1>1. d.t.val \in Nat /\ d.T.val \in Nat
  BY DEF TradeParses, IsU64
<1>2. d.m.val \in {0, 1}
  BY PayloadForm, JsonForm DEF TradeParses, IsFlag
<1>3. /\ d.p.val \in Nat \union {Frac, Inf, Yes, Junk}
      /\ d.q.val \in Nat \union {Frac, Inf, Yes, Junk}
  BY PayloadForm, JsonForm DEF TradeParses, IsText
<1>4. AsInt(n.t) = d.t.val /\ AsInt(n.T) = d.T.val
  BY <1>1, NormalisedForm, Read
<1>5. ExtractTs(n) = d.T.val
  BY <1>1, <1>4, ValuesAssumption DEF ExtractTs
<1>6. ExtractBool(n.m) = (d.m.val = 1)
  BY <1>2, NormalisedForm, Read
<1>7. /\ AsF64(n.p) = IF d.p.val \notin {Yes, Junk} THEN d.p.val ELSE None
      /\ AsF64(n.q) = IF d.q.val \notin {Yes, Junk} THEN d.q.val ELSE None
  BY NormalisedForm, Read
<1>8. ToBboRow(n) = {}
  BY NormalisedForm, NoBbo
<1> DEFINE r == [kind |-> "trade", ts |-> ExtractTs(n), id |-> AsInt(n.t), price |-> AsF64(n.p),
                 qty |-> AsF64(n.q), buyerMaker |-> ExtractBool(n.m)]
<1>9. Sound(d) <=> d.p.val \in Nat \union {Frac} /\ d.q.val \in Nat \union {Frac}
  BY SoundForm
<1>10. CASE Sound(d)
  <2>1. r = TradeRow(d)
    BY <1>4, <1>5, <1>6, <1>7, <1>9, <1>10, ValuesAssumption DEF TradeRow
  <2>2. /\ r.ts # None /\ r.id # None
        /\ {r.price, r.qty} \intersect {None, Inf} = {}
    BY <1>1, <1>4, <1>5, <1>7, <1>9, <1>10, ValuesAssumption
  <2>3. ToTradeRow(n) = {r}
    BY <2>2 DEF ToTradeRow
  <2> QED
    BY <1>10, <2>1, <2>3 DEF Rows
<1>11. CASE ~Sound(d)
  <2>1. {r.price, r.qty} \intersect {None, Inf} # {}
    BY <1>3, <1>7, <1>9, <1>11
  <2>2. ToTradeRow(n) = {}
    BY <2>1 DEF ToTradeRow
  <2> QED
    BY <1>8, <1>11, <2>2 DEF Rows
<1> QED
  BY <1>10, <1>11

(* The rows of a payload of another event type are trade rows with values   *)
(* that were read.                                                          *)
LEMMA OtherRows ==
    ASSUME NEW d \in Payloads, NEW r \in Rows(d)
    PROVE  r \in RowType /\ r.kind = "trade"
<1>1. ToBboRow(d) = {}
  BY PayloadForm, NoBbo
<1>2. r \in ToTradeRow(d)
  BY <1>1 DEF Rows
<1>3. /\ r = [kind |-> "trade", ts |-> ExtractTs(d), id |-> AsInt(d.t), price |-> AsF64(d.p),
              qty |-> AsF64(d.q), buyerMaker |-> ExtractBool(d.m)]
      /\ ExtractTs(d) # None /\ AsInt(d.t) # None
      /\ {AsF64(d.p), AsF64(d.q)} \intersect {None, Inf} = {}
  BY <1>2 DEF ToTradeRow
<1>4. ExtractTs(d) \in Nat /\ AsInt(d.t) \in Nat
  BY <1>3, PayloadForm, NumericRead DEF ExtractTs
<1>5. AsF64(d.p) \in Nat \union {Frac} /\ AsF64(d.q) \in Nat \union {Frac}
  BY <1>3, PayloadForm, NumericRead
<1>6. ExtractBool(d.m) \in BOOLEAN
  BY DEF ExtractBool
<1> QED
  BY <1>3, <1>4, <1>5, <1>6 DEF RowType

(* The row of a depth message: levels of the book it is of. *)
LEMMA DepthRows ==
    ASSUME NEW w, Carried(w), IsDepth(w), NEW r \in Rows(w.data)
    PROVE  /\ r \in RowType /\ r.kind = "bbo"
           /\ w.bids[r.bid] = r.bidQty /\ w.asks[r.ask] = r.askQty
           /\ (r.bidQty > 0 /\ r.askQty > 0) => r.bid < r.ask
<1> DEFINE d == w.data
<1>1. ToTradeRow(d) = {}
  <2>1. AsInt(d.t) = None
    BY DEF IsDepth, AsInt, IsU64, Absent
  <2> QED
    BY <2>1 DEF ToTradeRow
<1>2. r \in ToBboRow(d)
  BY <1>1 DEF Rows
<1>3. PICK x \in BestBid(ParseLevels(d.b)), y \in BestAsk(ParseLevels(d.a)) :
          r = [kind |-> "bbo", ts |-> ExtractTs(d), bid |-> x.price, bidQty |-> x.qty,
               ask |-> y.price, askQty |-> y.qty]
  BY <1>2 DEF ToBboRow
<1>4. ExtractTs(d) = 1
  BY ValuesAssumption DEF IsDepth, ExtractTs, AsInt, IsU64, Absent, Num
<1>5. x \in d.b.val /\ x.qty \notin {Inf, Junk, None}
  BY <1>3 DEF BestBid, ParseLevels
<1>6. y \in d.a.val /\ y.qty \notin {Inf, Junk, None}
  BY <1>3 DEF BestAsk, ParseLevels
<1>7. x.price \in Prices /\ x.qty = w.bids[x.price]
  BY <1>5 DEF IsDepth, OfSide
<1>8. y.price \in Prices /\ y.qty = w.asks[y.price]
  BY <1>6 DEF IsDepth, OfSide
<1>9. x.qty \in Nat /\ y.qty \in Nat
  BY <1>7, <1>8 DEF Carried
<1>10. (x.qty > 0 /\ y.qty > 0) => x.price < y.price
  BY <1>7, <1>8 DEF Carried, NotCrossed
<1>11. r \in RowType
  BY <1>3, <1>4, <1>7, <1>8, <1>9 DEF RowType
<1> QED
  BY <1>3, <1>7, <1>8, <1>10, <1>11

--------------------------------------------------------------------------------
(* The steps.                                                               *)

LEMMA InitInv == Init => IInv
<1> SUFFICES ASSUME Init PROVE IInv
  OBVIOUS
<1>1. Book
  BY MaxQtyAssumption DEF Init, Book, NoneTouched, NotCrossed
<1>2. OnTheWay /\ RowsTyped /\ TradeStoredIffSound /\ BboIsOfTheBook
  BY DEF Init, OnTheWay, RowsTyped, TradeStoredIffSound, BboIsOfTheBook
<1> QED
  BY <1>1, <1>2 DEF IInv

LEMMA PlaceBidInv ==
    ASSUME IInv, NEW x \in Prices, NEW n \in 0..MaxQty, PlaceBid(x, n) PROVE IInv'
<1>1. bids' \in [Prices -> 0..MaxQty] /\ asks' \in [Prices -> 0..MaxQty]
  BY DEF IInv, Book, PlaceBid
<1>2. touched' \in [bids : SUBSET Prices, asks : SUBSET Prices]
  BY DEF IInv, Book, PlaceBid
<1>3. NotCrossed(bids, asks)'
  <2> SUFFICES ASSUME NEW y \in Prices, NEW z \in Prices, bids'[y] > 0, asks'[z] > 0
               PROVE  y < z
    BY DEF NotCrossed
  <2>1. CASE y = x
    BY <2>1 DEF IInv, Book, PlaceBid
  <2>2. CASE y # x
    BY <2>2 DEF IInv, Book, NotCrossed, PlaceBid
  <2> QED
    BY <2>1, <2>2
<1>4. (OnTheWay /\ RowsTyped /\ TradeStoredIffSound /\ BboIsOfTheBook)'
  BY DEF IInv, OnTheWay, RowsTyped, TradeStoredIffSound, BboIsOfTheBook, PlaceBid
<1> QED
  BY <1>1, <1>2, <1>3, <1>4 DEF IInv, Book

LEMMA PlaceAskInv ==
    ASSUME IInv, NEW x \in Prices, NEW n \in 0..MaxQty, PlaceAsk(x, n) PROVE IInv'
<1>1. bids' \in [Prices -> 0..MaxQty] /\ asks' \in [Prices -> 0..MaxQty]
  BY DEF IInv, Book, PlaceAsk
<1>2. touched' \in [bids : SUBSET Prices, asks : SUBSET Prices]
  BY DEF IInv, Book, PlaceAsk
<1>3. NotCrossed(bids, asks)'
  <2> SUFFICES ASSUME NEW y \in Prices, NEW z \in Prices, bids'[y] > 0, asks'[z] > 0
               PROVE  y < z
    BY DEF NotCrossed
  <2>1. CASE z = x
    BY <2>1 DEF IInv, Book, PlaceAsk
  <2>2. CASE z # x
    BY <2>2 DEF IInv, Book, NotCrossed, PlaceAsk
  <2> QED
    BY <2>1, <2>2
<1>4. (OnTheWay /\ RowsTyped /\ TradeStoredIffSound /\ BboIsOfTheBook)'
  BY DEF IInv, OnTheWay, RowsTyped, TradeStoredIffSound, BboIsOfTheBook, PlaceAsk
<1> QED
  BY <1>1, <1>2, <1>3, <1>4 DEF IInv, Book

(* Sending a message takes a copy of the book along. *)
LEMMA SendInv ==
    ASSUME IInv, NEW d, Send(d),
           touched' \in [bids : SUBSET Prices, asks : SUBSET Prices],
           d \in Payloads \/ IsDepth([data |-> d, bids |-> bids, asks |-> asks])
    PROVE  IInv'
<1> DEFINE w == [data |-> d, bids |-> bids, asks |-> asks]
<1>1. w.data = d /\ w.bids = bids /\ w.asks = asks
  OBVIOUS
<1>2. bids \in [Prices -> Nat] /\ asks \in [Prices -> Nat] /\ NotCrossed(bids, asks)
  BY DEF IInv, Book
<1>3. Carried(w)
  BY <1>1, <1>2 DEF Carried
<1>4. wire' = w /\ topic' = None /\ outcome' = None
  BY DEF Send, Quiet
<1>5. Book'
  BY DEF IInv, Book, NotCrossed, Send
<1>6. (OnTheWay /\ RowsTyped /\ TradeStoredIffSound /\ BboIsOfTheBook)'
  BY <1>3, <1>4 DEF OnTheWay, RowsTyped, TradeStoredIffSound, BboIsOfTheBook
<1> QED
  BY <1>5, <1>6 DEF IInv

(* The changed levels are of the book. *)
LEMMA SendDepthInv ==
    ASSUME IInv, NEW noise \in Noise, NEW B \in SUBSET touched.bids,
           NEW A \in SUBSET touched.asks, SendDepth(noise, B, A)
    PROVE  IInv'
<1>1. touched.bids \subseteq Prices /\ touched.asks \subseteq Prices
  BY DEF IInv, Book
<1> DEFINE L == Changed(bids, touched.bids, B, noise)
<1> DEFINE M == Changed(asks, touched.asks, A, noise)
<1> DEFINE w == [data |-> DepthUpdate(L, M), bids |-> bids, asks |-> asks]
<1>2. OfSide(L, bids)
  BY <1>1, ValuesAssumption DEF OfSide, Changed
<1>3. OfSide(M, asks)
  BY <1>1, ValuesAssumption DEF OfSide, Changed
<1> HIDE DEF L, M
<1>4. IsDepth(w)
  BY <1>2, <1>3 DEF IsDepth, DepthUpdate, Levels
<1>5. Send(DepthUpdate(L, M)) /\ touched' = NoneTouched
  BY DEF SendDepth, L, M
<1>6. touched' \in [bids : SUBSET Prices, asks : SUBSET Prices]
  BY <1>5 DEF NoneTouched
<1> QED
  BY <1>4, <1>5, <1>6, SendInv

LEMMA PublishInv ==
    ASSUME IInv, NEW d, wire # None, Publish(d), Published(wire, d)
    PROVE  IInv'
<1>1. Carried(wire)
  BY DEF IInv, OnTheWay
<1>2. OnTheWay'
  BY <1>1 DEF OnTheWay, Publish
<1>3. (Book /\ RowsTyped /\ TradeStoredIffSound /\ BboIsOfTheBook)'
  BY DEF IInv, Book, RowsTyped, TradeStoredIffSound, BboIsOfTheBook, BboRows, Publish
<1> QED
  BY <1>2, <1>3 DEF IInv

LEMMA HandleErrInv == ASSUME IInv, HandleErr PROVE IInv'
<1>1. Carried(wire)
  BY DEF IInv, OnTheWay, HandleErr
<1>2. wire.data.e = "trade" => wire.data \in Payloads /\ ~TradeParses(wire.data)
  BY <1>1 DEF Carried, IsDepth, HandleErr
<1>3. wire.data.e = "trade" => ~Sound(wire.data)
  BY <1>2, SoundForm
<1>4. outcome' = [rows |-> {}, of |-> wire]
  BY DEF HandleErr
<1>5. (RowsTyped /\ TradeStoredIffSound /\ BboIsOfTheBook)'
  BY <1>3, <1>4 DEF RowsTyped, TradeStoredIffSound, BboIsOfTheBook, BboRows
<1>6. (Book /\ OnTheWay)'
  BY DEF IInv, Book, OnTheWay, HandleErr
<1> QED
  BY <1>5, <1>6 DEF IInv

LEMMA IngestRawInv == ASSUME IInv, IngestRaw PROVE IInv'
<1> DEFINE w == topic.of
<1>1. Carried(w) /\ Published(w, topic.data)
  BY DEF IInv, OnTheWay, IngestRaw
<1>2. PICK R \in SUBSET Rows(topic.data) :
          /\ outcome' = [rows |-> R, of |-> w]
          /\ R = {} <=> Rows(topic.data) = {}
          /\ \A r \in R, s \in R : r = s
  <2>1. ASSUME NEW r \in Rows(topic.data), outcome' = [rows |-> {r}, of |-> topic.of]
        PROVE  \E R \in SUBSET Rows(topic.data) :
                  /\ outcome' = [rows |-> R, of |-> w]
                  /\ R = {} <=> Rows(topic.data) = {}
                  /\ \A p \in R, s \in R : p = s
    BY <2>1
  <2> QED
    BY <2>1 DEF IngestRaw
<1>3. outcome'.rows = R /\ outcome'.of = w
  BY <1>2
<1>4. RowsTyped' /\ TradeStoredIffSound' /\ BboIsOfTheBook'
  <2>1. CASE w.data.e = "trade"
    <3>1. w.data \in Payloads
      BY <1>1, <2>1 DEF Carried, IsDepth
    <3>2. TradeParses(w.data) /\ topic.data = Normalised(w.data)
      BY <1>1, <2>1 DEF Published
    <3>3. Rows(topic.data) = IF Sound(w.data) THEN {TradeRow(w.data)} ELSE {}
      BY <3>1, <3>2, Stored
    <3>4. R = IF Sound(w.data) THEN {TradeRow(w.data)} ELSE {}
      BY <1>2, <3>3
    <3>5. Sound(w.data) => TradeRow(w.data) \in RowType /\ TradeRow(w.data).kind = "trade"
      <4>1. Sound(w.data) => /\ w.data.t.val \in Nat /\ w.data.T.val \in Nat
                             /\ {w.data.p.val, w.data.q.val} \subseteq Nat \union {Frac}
        BY <3>1, <3>2, SoundForm DEF TradeParses, IsU64
      <4> QED
        BY <4>1 DEF TradeRow, RowType
    <3>6. RowsTyped'
      BY <1>3, <3>4, <3>5 DEF RowsTyped
    <3>7. TradeStoredIffSound'
      BY <1>3, <3>4 DEF TradeStoredIffSound, TradeRow
    <3>8. BboIsOfTheBook'
      BY <1>3, <3>4, <3>5 DEF BboIsOfTheBook, BboRows
    <3> QED
      BY <3>6, <3>7, <3>8
  <2>2. CASE w.data.e # "trade"
    <3>1. topic.data = w.data
      BY <1>1, <2>2 DEF Published
    <3>2. TradeStoredIffSound'
      BY <1>3, <2>2 DEF TradeStoredIffSound
    <3>3. CASE w.data \in Payloads
      <4>1. \A r \in R : r \in RowType /\ r.kind = "trade"
        BY <1>2, <3>1, <3>3, OtherRows
      <4> QED
        BY <1>3, <3>2, <4>1 DEF RowsTyped, BboIsOfTheBook, BboRows
    <3>4. CASE IsDepth(w)
      <4>1. \A r \in R : /\ r \in RowType
                         /\ w.bids[r.bid] = r.bidQty /\ w.asks[r.ask] = r.askQty
                         /\ (r.bidQty > 0 /\ r.askQty > 0) => r.bid < r.ask
        BY <1>1, <1>2, <3>1, <3>4, DepthRows
      <4> QED
        BY <1>3, <3>2, <4>1 DEF RowsTyped, BboIsOfTheBook, BboRows
    <3> QED
      BY <1>1, <3>3, <3>4 DEF Carried
  <2> QED
    BY <2>1, <2>2
<1>5. (Book /\ OnTheWay)'
  BY DEF IInv, Book, OnTheWay, IngestRaw
<1> QED
  BY <1>4, <1>5 DEF IInv

LEMMA NextInv == ASSUME IInv, [Next]_vars PROVE IInv'
<1>1. ASSUME NEW d \in Payloads, SendPayload(d) PROVE IInv'
  <2>1. touched' \in [bids : SUBSET Prices, asks : SUBSET Prices]
    BY <1>1 DEF IInv, Book, SendPayload
  <2> QED
    BY <1>1, <2>1, SendInv DEF SendPayload
<1>2. CASE HandleTrade
  <2>1. Published(wire, Normalised(wire.data))
    BY <1>2 DEF HandleTrade, Published
  <2> QED
    BY <1>2, <2>1, PublishInv DEF HandleTrade
<1>3. CASE HandleOther
  <2>1. Published(wire, wire.data)
    BY <1>3 DEF HandleOther, Published
  <2> QED
    BY <1>3, <2>1, PublishInv DEF HandleOther
<1>4. CASE Lose
  BY <1>4 DEF IInv, Book, OnTheWay, RowsTyped, TradeStoredIffSound, BboIsOfTheBook, BboRows, Lose
<1>5. CASE UNCHANGED vars
  BY <1>5 DEF IInv, Book, OnTheWay, RowsTyped, TradeStoredIffSound, BboIsOfTheBook, BboRows, vars
<1> QED
  BY <1>1, <1>2, <1>3, <1>4, <1>5, PlaceBidInv, PlaceAskInv, SendDepthInv, HandleErrInv,
     IngestRawInv DEF Next

--------------------------------------------------------------------------------
LEMMA InductiveInv == Spec => []IInv
<1>1. Init => IInv
  BY InitInv
<1>2. IInv /\ [Next]_vars => IInv'
  BY NextInv
<1> QED
  BY <1>1, <1>2, PTL DEF Spec

(* No row of trade_ticks or bbo_ticks holds a value that is missing or not  *)
(* finite.                                                                  *)
THEOREM TypeCorrect == Spec => []TypeOK
<1>1. IInv => TypeOK
  BY DEF IInv, Book, OnTheWay, RowsTyped, TypeOK
<1> QED
  BY <1>1, InductiveInv, PTL

(* A trade is stored if and only if all its fields come in the forms that   *)
(* the ingestor's comments name, whatever JSON value stands for each.       *)
THEOREM TradeStoredCorrect == Spec => []TradeStoredIffSound
<1>1. IInv => TradeStoredIffSound
  BY DEF IInv
<1> QED
  BY <1>1, InductiveInv, PTL

(* A BBO row is of the book its message was sent of, for every book and     *)
(* every set of changed or unreadable levels.                               *)
THEOREM BboIsOfTheBookCorrect == Spec => []BboIsOfTheBook
<1>1. IInv => BboIsOfTheBook
  BY DEF IInv
<1> QED
  BY <1>1, InductiveInv, PTL
================================================================================
