------------------------------ MODULE FuturesContext -----------------------------
(***************************************************************************)
(* market-ingestor: what the futures manager publishes (stream.rs,         *)
(* handle_futures_message) and the cache of open interest it shares with   *)
(* the REST fetcher (run_oi_fetcher).                                      *)
(*                                                                         *)
(* Open interest is counted by its changes: the value oi[s] is the number  *)
(* of changes at the exchange, so an older value is a smaller one.  A      *)
(* string is what Rust's parse makes of it: a number, Inf (not finite) or  *)
(* Junk (not a number).  Waiting for an empty universe to change is in     *)
(* UniverseHotSwap, the wait for NATS in NatsPublisher, ts_ingest in       *)
(* ClockSync; times of the exchange are left out.                          *)
(***************************************************************************)
EXTENDS Integers, Sequences

CONSTANTS
    Symbols,
    MaxOi,          \* bound of the model: changes of an open interest
    MaxFrames,      \* bound of the model: frames waiting in the socket
    WsOi,           \* symbols whose openInterest stream the exchange sends
    Marks,          \* readings of a mark price update, [price, rate]
    Depths,         \* readings of a depth message, [bids, asks] of levels
    Orders,         \* readings of a force order, [price, ap, qty, filled]
    Inf, Junk, None

ASSUME BoundsAssumption == MaxOi \in Nat /\ MaxFrames \in Nat /\ WsOi \subseteq Symbols
ASSUME NoneAssumption == None \notin Nat \union {Inf, Junk}

(* What parse makes of a string, and a level of a depth message.            *)
Number == Int \union {Inf, Junk}
Levels == [price : Number, qty : Number]

IsFinite(x) == x \notin {None, Inf, Junk}
Readable(level) == IsFinite(level.price) /\ IsFinite(level.qty)

(* The exchange sends each side from its best price to its worst, a price   *)
(* once; the levels that cannot be read stand anywhere between.             *)
ASSUME DepthsAssumption ==
    \A d \in Depths :
        /\ d.bids \in Seq(Levels) /\ d.asks \in Seq(Levels)
        /\ \A i, j \in DOMAIN d.bids :
              i < j /\ Readable(d.bids[i]) /\ Readable(d.bids[j]) => d.bids[i].price > d.bids[j].price
        /\ \A i, j \in DOMAIN d.asks :
              i < j /\ Readable(d.asks[i]) /\ Readable(d.asks[j]) => d.asks[i].price < d.asks[j].price

VARIABLES
    oi,             \* the open interest of each symbol at the exchange
    frames,         \* text frames of the futures socket, oldest first
    universe,       \* what the fetcher's receiver borrows
    todo,           \* symbols left in the sweep of the fetcher
    request,        \* [sym, answer] of the request in flight, None if none
    cache,          \* oi_cache: None for a symbol without entry
    published       \* history: the last event given to NATS, None at first

exchange == <<oi, universe>>
fetcher == <<todo, request>>
vars == <<oi, frames, universe, todo, request, cache, published>>

Init ==
    /\ oi = [s \in Symbols |-> 0]
    /\ frames = <<>>
    /\ universe = {}
    /\ todo = {}
    /\ request = None
    /\ cache = [s \in Symbols |-> None]
    /\ published = None

--------------------------------------------------------------------------------
(* The exchange and the universe.                                           *)

OiChanges(s) ==
    /\ oi[s] < MaxOi
    /\ oi' = [oi EXCEPT ![s] = @ + 1]
    /\ UNCHANGED <<frames, universe, fetcher, cache, published>>

Broadcast(U) ==
    /\ universe' = U
    /\ UNCHANGED <<oi, frames, fetcher, cache, published>>

Arrive(frame) ==
    /\ Len(frames) < MaxFrames
    /\ frames' = Append(frames, frame)
    /\ UNCHANGED <<exchange, fetcher, cache, published>>

ArriveOi(s) == s \in WsOi /\ Arrive([e |-> "openInterest", sym |-> s, body |-> oi[s]])
ArriveJunkOi(s) == s \in WsOi /\ Arrive([e |-> "openInterest", sym |-> s, body |-> Junk])
ArriveMark(s, m) == Arrive([e |-> "markPriceUpdate", sym |-> s, body |-> m])
ArriveDepth(s, d) == Arrive([e |-> "depthUpdate", sym |-> s, body |-> d])
ArriveOrder(s, o) == Arrive([e |-> "forceOrder", sym |-> s, body |-> o])

(* A lost connection takes its frames along. *)
SocketLost ==
    /\ frames # <<>>
    /\ frames' = <<>>
    /\ UNCHANGED <<exchange, fetcher, cache, published>>

(* The server reads the value it is going to answer with. *)
ServerReads(s) ==
    /\ request # None /\ request.sym = s
    /\ request.answer = None
    /\ request' = [request EXCEPT !.answer = oi[s]]
    /\ UNCHANGED <<exchange, frames, todo, cache, published>>

--------------------------------------------------------------------------------
(* run_oi_fetcher.                                                          *)

(* The universe is read once for the sweep. *)
Sweep ==
    /\ todo = {} /\ request = None
    /\ universe # {}
    /\ todo' = universe
    /\ UNCHANGED <<exchange, frames, request, cache, published>>

Get(s) ==
    /\ request = None
    /\ s \in todo
    /\ request' = [sym |-> s, answer |-> None]
    /\ todo' = todo \ {s}
    /\ UNCHANGED <<exchange, frames, cache, published>>

(* Mutant: the answer of a former request is stored when there is one       *)
(* already: the first value stays.                                          *)
RestOk_OnlyMissing(s) ==
    /\ request # None /\ request.sym = s
    /\ request.answer # None
    /\ cache' = IF cache[s] = None THEN [cache EXCEPT ![s] = request.answer] ELSE cache
    /\ request' = None
    /\ UNCHANGED <<exchange, frames, todo, published>>

(* The answer is stored under the symbol it names, which is the one asked   *)
(* for.                                                                     *)
RestOk(s) ==
    /\ request # None /\ request.sym = s
    /\ request.answer # None
    /\ cache' = [cache EXCEPT ![s] = request.answer]
    /\ request' = None
    /\ UNCHANGED <<exchange, frames, todo, published>>

(* Mutant: a value that cannot be had is 0.                                 *)
RestErr_Zero ==
    /\ request # None
    /\ cache' = [cache EXCEPT ![request.sym] = 0]
    /\ request' = None
    /\ UNCHANGED <<exchange, frames, todo, published>>

(* No answer, a status that is not success, or a value that is unreadable.  *)
RestErr ==
    /\ request # None
    /\ request' = None
    /\ UNCHANGED <<exchange, frames, todo, cache, published>>

--------------------------------------------------------------------------------
(* handle_futures_message.                                                  *)

(* parse_f64 *)
ParseF64(x) == IF IsFinite(x) THEN x ELSE None

(* Mutant: prices and quantities are filtered each for itself.              *)
Columns_Apart(levels) ==
    LET price(i) == levels[i].price  qty(i) == levels[i].qty IN
    [price |-> SelectSeq([i \in DOMAIN levels |-> price(i)], IsFinite),
     qty |-> SelectSeq([i \in DOMAIN levels |-> qty(i)], IsFinite)]

(* One side of from_depth5: the readable levels as two columns, filled in   *)
(* the order of the message.                                                *)
Columns(levels) ==
    LET push(c, l) == [price |-> Append(c.price, l.price), qty |-> Append(c.qty, l.qty)]
        read[n \in 0..Len(levels)] ==
            IF n = 0 THEN [price |-> <<>>, qty |-> <<>>]
            ELSE IF Readable(levels[n]) THEN push(read[n - 1], levels[n])
            ELSE read[n - 1]
    IN  read[Len(levels)]

FromDepth5(d) == [bids |-> Columns(d.bids), asks |-> Columns(d.asks)]

(* Mutant: without an average price that can be read, the order's price.    *)
FromForceOrder_NoFilter(o) ==
    {[price |-> IF o.ap = None THEN o.price ELSE o.ap,
      qty |-> o.qty, filled |-> IF o.filled = None THEN 0 ELSE o.filled]}

(* from_force_order: the average price if there is one, else the price of   *)
(* the order; the quantity last filled is 0 by default; no tick if one of   *)
(* them is unreadable.                                                      *)
FromForceOrder(o) ==
    {t \in {[price |-> IF o.ap = None THEN o.price ELSE o.ap,
             qty |-> o.qty, filled |-> IF o.filled = None THEN 0 ELSE o.filled]} :
        IsFinite(t.price) /\ IsFinite(t.qty) /\ IsFinite(t.filled)}

(* from_mark *)
FromMark(s, m) ==
    [mark |-> ParseF64(m.price), rate |-> ParseF64(m.rate), oi |-> cache[s]]

Read == frames # <<>> /\ frames' = Tail(frames) /\ UNCHANGED <<exchange, fetcher>>

HandleDepth ==
    /\ Read
    /\ Head(frames).e = "depthUpdate"
    /\ published' = [subject |-> "depth", sym |-> Head(frames).sym,
                     event |-> FromDepth5(Head(frames).body), of |-> Head(frames).body]
    /\ UNCHANGED cache

HandleForceOrder ==
    /\ Read
    /\ Head(frames).e = "forceOrder"
    /\ \/ \E t \in FromForceOrder(Head(frames).body) :
              published' = [subject |-> "liq", sym |-> Head(frames).sym,
                            event |-> t, of |-> Head(frames).body]
       \/ FromForceOrder(Head(frames).body) = {} /\ UNCHANGED published
    /\ UNCHANGED cache

HandleMark ==
    /\ Read
    /\ Head(frames).e = "markPriceUpdate"
    /\ published' = [subject |-> "context", sym |-> Head(frames).sym,
                     event |-> FromMark(Head(frames).sym, Head(frames).body),
                     of |-> Head(frames).body]
    /\ UNCHANGED cache

(* Nothing is published: the next mark price of the symbol takes it along.  *)
HandleOpenInterest ==
    /\ Read
    /\ Head(frames).e = "openInterest"
    /\ cache' = IF IsFinite(Head(frames).body)
                    THEN [cache EXCEPT ![Head(frames).sym] = Head(frames).body] ELSE cache
    /\ UNCHANGED published

HandleFuturesMessage ==
    HandleDepth \/ HandleForceOrder \/ HandleMark \/ HandleOpenInterest

Next ==
    \/ \E s \in Symbols : OiChanges(s)
    \/ \E U \in SUBSET Symbols : Broadcast(U)
    \/ \E s \in Symbols : ArriveOi(s)
    \/ \E s \in Symbols : ArriveJunkOi(s)
    \/ \E s \in Symbols, m \in Marks : ArriveMark(s, m)
    \/ \E s \in Symbols, d \in Depths : ArriveDepth(s, d)
    \/ \E s \in Symbols, o \in Orders : ArriveOrder(s, o)
    \/ SocketLost
    \/ \E s \in Symbols : ServerReads(s)
    \/ Sweep
    \/ \E s \in Symbols : Get(s)
    \/ \E s \in Symbols : RestOk(s)
    \/ RestErr
    \/ HandleDepth
    \/ HandleForceOrder
    \/ HandleMark
    \/ HandleOpenInterest

(* The tasks are run, requests end, and a symbol that is asked for again    *)
(* and again is answered in the end.                                        *)
Fairness ==
    /\ WF_vars(Sweep)
    /\ \A s \in Symbols : WF_vars(Get(s)) /\ SF_vars(ServerReads(s)) /\ SF_vars(RestOk(s))
    /\ WF_vars(RestErr)
    /\ WF_vars(HandleFuturesMessage)

Spec == Init /\ [][Next]_vars
LiveSpec == Spec /\ Fairness

--------------------------------------------------------------------------------
Finite(S) == \A x \in S : IsFinite(x)
ElementsOf(q) == {q[i] : i \in DOMAIN q}

(* Nothing that is published holds a value that is not finite.              *)
TypeOK ==
    /\ oi \in [Symbols -> 0..MaxOi]
    /\ universe \subseteq Symbols /\ todo \subseteq Symbols
    /\ request \in [sym : Symbols, answer : 0..MaxOi \union {None}] \union {None}
    /\ cache \in [Symbols -> 0..MaxOi \union {None}]
    /\ Len(frames) <= MaxFrames
    /\ published # None =>
          LET x == published.event IN
          CASE published.subject = "context" -> {x.mark, x.rate} \intersect {Inf, Junk} = {}
            [] published.subject = "liq" -> Finite({x.price, x.qty, x.filled})
            [] published.subject = "depth" ->
                 \A side \in {x.bids, x.asks} :
                    Finite(ElementsOf(side.price) \union ElementsOf(side.qty))

(* The rows of a side: price and quantity that stand at the same place.     *)
Pairs(side) == [i \in DOMAIN side.price |-> [price |-> side.price[i], qty |-> side.qty[i]]]

IsBestFirst(side, raw, better(_, _)) ==
    /\ Len(side.price) = Len(side.qty)
    /\ \A i \in DOMAIN raw : Readable(raw[i]) <=> raw[i] \in ElementsOf(Pairs(side))
    /\ \A i \in DOMAIN side.price : i > 1 => better(side.price[1], side.price[i])

(* Whatever levels of a depth message are unreadable, each quantity stays   *)
(* with its price, no readable level is lost, and the first level is the    *)
(* best: training reads bids_price[0] and asks_price[0]                     *)
(* (model.rs:358-393, scripts/prepare_tcn_data.py:111-112).                 *)
SnapshotWhole ==
    (published # None /\ published.subject = "depth") =>
        /\ IsBestFirst(published.event.bids, published.of.bids, LAMBDA x, y : x > y)
        /\ IsBestFirst(published.event.asks, published.of.asks, LAMBDA x, y : x < y)

NotOlder(s) == cache[s] # None => cache'[s] # None /\ cache'[s] >= cache[s]

(* Where REST alone fills the cache, as stream.rs:388 says it must be able  *)
(* to, the open interest of a symbol never goes back to an older value,     *)
(* whatever requests fail and whatever happens to the universe.             *)
OiNeverOlder == [][\A s \in Symbols \ WsOi : NotOlder(s)]_cache

(* With the frames of the socket overtaking the answers and the other way   *)
(* round, and with requests that fail: once the open interest of a symbol   *)
(* of the universe stays as it is, the cache gets it and keeps it.          *)
OiFreshInTheEnd ==
    \A s \in Symbols, v \in 0..MaxOi :
        <>[](oi[s] = v /\ s \in universe) => <>[](cache[s] = v)
================================================================================
