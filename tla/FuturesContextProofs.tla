--------------------------- MODULE FuturesContextProofs --------------------------
(***************************************************************************)
(* The cache of open interest of symbols that REST alone fills, for any    *)
(* symbols, universes, sweeps and failures; and what is published, for any *)
(* messages of the exchange.                                               *)
(***************************************************************************)
EXTENDS FuturesContext, WellFoundedInduction, TLAPS

Values == 0..MaxOi

Frame == [e : {"openInterest", "markPriceUpdate", "depthUpdate", "forceOrder"},
          sym : Symbols, body : Values \union {Junk} \union Marks \union Depths \union Orders]

(* What the cache rests on: no frame carries open interest of a symbol that *)
(* is left to REST, and a request for one has an answer that lies between   *)
(* the cached value and the exchange's.                                     *)
Rest == Symbols \ WsOi

OiFrame(f) == f.e = "openInterest" => f.sym \notin Rest /\ f.body \in Values \union {Junk}

IInv ==
    /\ oi \in [Symbols -> Values]
    /\ universe \subseteq Symbols /\ todo \subseteq Symbols
    /\ request \in [sym : Symbols, answer : Values \union {None}] \union {None}
    /\ cache \in [Symbols -> Values \union {None}]
    /\ frames \in Seq(Frame)
    /\ \A i \in 1..Len(frames) : OiFrame(frames[i])
    /\ \A s \in Rest : cache[s] # None => cache[s] <= oi[s]
    /\ (request # None /\ request.answer # None /\ request.sym \in Rest) =>
          /\ request.answer <= oi[request.sym]
          /\ cache[request.sym] # None => cache[request.sym] <= request.answer

LEMMA InitInv == Init => IInv
BY BoundsAssumption, NoneAssumption DEF Init, IInv, Values, Rest

(* A frame comes in. *)
LEMMA ArriveInv ==
    ASSUME IInv, NEW f \in Frame, OiFrame(f), Arrive(f)
    PROVE  IInv' /\ UNCHANGED cache
<1>1. frames' = Append(frames, f) /\ frames \in Seq(Frame)
  BY DEF IInv, Arrive
<1>2. frames' \in Seq(Frame)
  BY <1>1
<1>3. \A i \in 1..Len(frames') : OiFrame(frames'[i])
  BY <1>1 DEF IInv
<1>4. UNCHANGED <<oi, universe, todo, request, cache>>
  BY DEF Arrive, exchange, fetcher
<1> QED
  BY <1>2, <1>3, <1>4 DEF IInv

(* A frame is read: of symbols left to REST the cache stays as it is. *)
LEMMA ReadInv ==
    ASSUME IInv, HandleFuturesMessage
    PROVE  IInv' /\ \A s \in Rest : cache'[s] = cache[s]
<1>1. Read
  BY DEF HandleFuturesMessage, HandleDepth, HandleForceOrder, HandleMark, HandleOpenInterest
<1>2. frames \in Seq(Frame) /\ frames # <<>> /\ frames' = Tail(frames)
  BY <1>1 DEF IInv, Read
<1>3. Head(frames) \in Frame /\ OiFrame(Head(frames))
  BY <1>2 DEF IInv
<1>4. /\ cache' \in [Symbols -> Values \union {None}]
      /\ \A s \in Rest : cache'[s] = cache[s]
  <2>1. CASE UNCHANGED cache
    BY <2>1 DEF IInv
  <2>2. CASE /\ Head(frames).e = "openInterest" /\ Head(frames).body # Junk
             /\ cache' = [cache EXCEPT ![Head(frames).sym] = Head(frames).body]
    <3>1. Head(frames).sym \in Symbols \ Rest /\ Head(frames).body \in Values
      BY <1>3, <2>2 DEF OiFrame, Frame, Rest
    <3> QED
      BY <2>2, <3>1 DEF IInv, Rest
  <2> QED
    BY <2>1, <2>2 DEF HandleFuturesMessage, HandleDepth, HandleForceOrder, HandleMark,
                      HandleOpenInterest, IsFinite
<1>5. frames' \in Seq(Frame)
  BY <1>2
<1>6. \A i \in 1..Len(frames') : OiFrame(frames'[i])
  <2>1. Len(frames') = Len(frames) - 1
    BY <1>2
  <2>2. \A i \in 1..Len(frames') : frames'[i] = frames[i + 1] /\ i + 1 \in 1..Len(frames)
    BY <1>2, <2>1
  <2> QED
    BY <2>2 DEF IInv
<1>7. UNCHANGED <<oi, universe, todo, request>>
  BY <1>1 DEF Read, exchange, fetcher
<1> QED
  BY <1>4, <1>5, <1>6, <1>7 DEF IInv, Rest

LEMMA OiChangesInv ==
    ASSUME IInv, NEW s \in Symbols, OiChanges(s)
    PROVE  IInv' /\ UNCHANGED cache
<1>1. oi' = [oi EXCEPT ![s] = oi[s] + 1] /\ oi[s] < MaxOi
  BY DEF OiChanges
<1>2. UNCHANGED <<frames, universe, todo, request, cache>>
  BY DEF OiChanges, fetcher
<1>3. oi' \in [Symbols -> Values]
  BY <1>1, BoundsAssumption DEF IInv, Values
<1>4. \A t \in Symbols : oi[t] \in Int /\ oi[t] <= oi'[t] /\ oi'[t] \in Int
  BY <1>1, <1>3 DEF IInv, Values
<1>5. \A t \in Rest : t \in Symbols /\ (cache[t] # None => cache[t] \in Int)
  BY DEF IInv, Values, Rest
<1>6. \A t \in Rest : cache'[t] # None => cache'[t] <= oi'[t]
  BY <1>2, <1>4, <1>5 DEF IInv
<1>7. ASSUME request # None, request.answer # None, request.sym \in Rest
      PROVE  request.answer <= oi'[request.sym]
  <2>1. request.sym \in Symbols /\ request.answer \in Int
    BY <1>7 DEF IInv, Values
  <2> QED
    BY <1>4, <1>7, <2>1 DEF IInv
<1> QED
  BY <1>2, <1>3, <1>6, <1>7 DEF IInv

LEMMA ServerReadsInv ==
    ASSUME IInv, NEW s \in Symbols, ServerReads(s)
    PROVE  IInv' /\ UNCHANGED cache
<1>1. /\ request # None /\ request.sym = s
      /\ request' = [request EXCEPT !.answer = oi[s]]
      /\ UNCHANGED <<oi, universe, frames, todo, cache>>
  BY DEF ServerReads, exchange
<1>2. request \in [sym : Symbols, answer : Values \union {None}] /\ oi[s] \in Values
  BY <1>1 DEF IInv
<1>3. /\ request' \in [sym : Symbols, answer : Values \union {None}]
      /\ request'.sym = s /\ request'.answer = oi[s]
  BY <1>1, <1>2
<1>4. oi[s] <= oi[s]
  BY <1>2 DEF Values
<1> QED
  BY <1>1, <1>3, <1>4 DEF IInv

(* The answer lies between what is cached and what is true. *)
LEMMA RestOkInv ==
    ASSUME IInv, NEW s \in Symbols, RestOk(s)
    PROVE  IInv' /\ \A t \in Rest : NotOlder(t)
<1>1. /\ request # None /\ request.sym = s /\ request.answer # None
      /\ cache' = [cache EXCEPT ![s] = request.answer] /\ request' = None
      /\ UNCHANGED <<oi, universe, frames, todo>>
  BY DEF RestOk, exchange
<1>2. /\ request.answer \in Values
      /\ s \in Rest => /\ request.answer <= oi[s]
                       /\ cache[s] # None => cache[s] <= request.answer
  BY <1>1 DEF IInv
<1>3. cache' \in [Symbols -> Values \union {None}]
  BY <1>1, <1>2 DEF IInv
<1>4. \A t \in Symbols : cache'[t] = IF t = s THEN request.answer ELSE cache[t]
  BY <1>1 DEF IInv
<1>5. \A t \in Rest : cache'[t] # None => cache'[t] <= oi[t]
  BY <1>2, <1>4 DEF IInv, Rest
<1>6. IInv'
  BY <1>1, <1>3, <1>5 DEF IInv, Rest
<1>7. \A t \in Rest : NotOlder(t)
  <2> SUFFICES ASSUME NEW t \in Rest, cache[t] # None
               PROVE  cache'[t] # None /\ cache'[t] >= cache[t]
    BY DEF NotOlder
  <2>1. t \in Symbols /\ cache[t] \in Int
    BY DEF IInv, Values, Rest
  <2>2. CASE t = s
    <3>1. cache'[t] = request.answer /\ request.answer \in Int
      BY <1>2, <1>4, <2>1, <2>2 DEF Values
    <3> QED
      BY <1>1, <1>2, <2>1, <2>2, <3>1
  <2>3. CASE t # s
    BY <1>4, <2>1, <2>3
  <2> QED
    BY <2>2, <2>3
<1> QED
  BY <1>6, <1>7

LEMMA SameCache == IInv /\ (\A t \in Rest : cache'[t] = cache[t]) => \A t \in Rest : NotOlder(t)
BY DEF NotOlder, IInv, Values, Rest

LEMMA NextInv ==
    ASSUME IInv, [Next]_vars
    PROVE  IInv' /\ \A s \in Rest : NotOlder(s)
<1>1. ASSUME NEW U \in SUBSET Symbols, Broadcast(U) PROVE IInv' /\ UNCHANGED cache
  BY <1>1 DEF IInv, Broadcast, fetcher
<1>2. ASSUME NEW s \in Symbols, ArriveOi(s) \/ ArriveJunkOi(s)
      PROVE  IInv' /\ UNCHANGED cache
  <2>1. \A v \in {oi[s], Junk} :
            /\ [e |-> "openInterest", sym |-> s, body |-> v] \in Frame
            /\ s \in WsOi => OiFrame([e |-> "openInterest", sym |-> s, body |-> v])
    BY DEF Frame, OiFrame, Rest, IInv
  <2> QED
    BY <1>2, <2>1, ArriveInv DEF ArriveOi, ArriveJunkOi
<1>3. ASSUME NEW s \in Symbols, NEW m \in Marks, ArriveMark(s, m)
      PROVE  IInv' /\ UNCHANGED cache
  <2>1. LET f == [e |-> "markPriceUpdate", sym |-> s, body |-> m] IN f \in Frame /\ OiFrame(f)
    BY DEF Frame, OiFrame
  <2> QED
    BY <1>3, <2>1, ArriveInv DEF ArriveMark
<1>4. ASSUME NEW s \in Symbols, NEW d \in Depths, ArriveDepth(s, d)
      PROVE  IInv' /\ UNCHANGED cache
  <2>1. LET f == [e |-> "depthUpdate", sym |-> s, body |-> d] IN f \in Frame /\ OiFrame(f)
    BY DEF Frame, OiFrame
  <2> QED
    BY <1>4, <2>1, ArriveInv DEF ArriveDepth
<1>5. ASSUME NEW s \in Symbols, NEW o \in Orders, ArriveOrder(s, o)
      PROVE  IInv' /\ UNCHANGED cache
  <2>1. LET f == [e |-> "forceOrder", sym |-> s, body |-> o] IN f \in Frame /\ OiFrame(f)
    BY DEF Frame, OiFrame
  <2> QED
    BY <1>5, <2>1, ArriveInv DEF ArriveOrder
<1>6. ASSUME SocketLost PROVE IInv' /\ UNCHANGED cache
  <2>1. frames' = <<>> /\ UNCHANGED <<oi, universe, todo, request, cache>>
    BY <1>6 DEF SocketLost, exchange, fetcher
  <2>2. frames' \in Seq(Frame) /\ Len(frames') = 0
    BY <2>1
  <2> QED
    BY <2>1, <2>2 DEF IInv
<1>7. ASSUME Sweep PROVE IInv' /\ UNCHANGED cache
  BY <1>7 DEF IInv, Sweep, exchange
<1>8. ASSUME NEW s \in Symbols, Get(s) PROVE IInv' /\ UNCHANGED cache
  <2>1. /\ request' = [sym |-> s, answer |-> None]
        /\ todo' \subseteq Symbols
        /\ UNCHANGED <<oi, universe, frames, cache>>
    BY <1>8 DEF IInv, Get, exchange
  <2>2. request' \in [sym : Symbols, answer : Values \union {None}] /\ request'.answer = None
    BY <2>1
  <2> QED
    BY <2>1, <2>2 DEF IInv
<1>9. ASSUME RestErr PROVE IInv' /\ UNCHANGED cache
  BY <1>9 DEF IInv, RestErr, exchange
<1>10. ASSUME UNCHANGED vars PROVE IInv' /\ UNCHANGED cache
  BY <1>10 DEF IInv, vars, fetcher
<1>11. CASE HandleDepth \/ HandleForceOrder \/ HandleMark \/ HandleOpenInterest
  BY <1>11, ReadInv, SameCache DEF HandleFuturesMessage
<1>12. ASSUME UNCHANGED cache PROVE \A s \in Rest : NotOlder(s)
  BY <1>12, SameCache
<1> QED
  BY <1>1, <1>2, <1>3, <1>4, <1>5, <1>6, <1>7, <1>8, <1>9, <1>10, <1>11, <1>12,
     OiChangesInv, ServerReadsInv, RestOkInv DEF Next

--------------------------------------------------------------------------------
(* The cached open interest of a symbol whose openInterest stream does not  *)
(* come is only ever replaced by one that is not older: a request is        *)
(* answered before the next one is sent, and nothing else writes.           *)
THEOREM OiNeverOlderCorrect == Spec => OiNeverOlder
<1>1. Init => IInv
  BY InitInv
<1>2. IInv /\ [Next]_vars => IInv'
  BY NextInv
<1>3. IInv /\ [Next]_vars => [\A s \in Symbols \ WsOi : NotOlder(s)]_cache
  BY NextInv DEF Rest
<1> QED
  BY <1>1, <1>2, <1>3, PTL DEF Spec, OiNeverOlder

--------------------------------------------------------------------------------
(* The columns of a side.  read in Columns is a recursive function: that a  *)
(* function with its equation exists, and what its values are, is shown by  *)
(* looking at the least number of levels for which it would fail.           *)

LEMMA LeastNat ==
    ASSUME NEW B, B \subseteq Nat, B # {}
    PROVE  \E n \in B : \A m \in B : n <= m
<1>1. PICK n \in B : \A m \in B : ~(<<m, n>> \in OpToRel(<, Nat))
  BY NatLessThanWellFounded, WFMin, Zenon
<1>2. ASSUME NEW m \in B
      PROVE  n <= m
  <2>1. <<m, n>> \in Nat \X Nat
    OBVIOUS
  <2>2. ~(m < n)
    BY <1>1, <2>1 DEF OpToRel
  <2> QED
    BY <2>2
<1> QED
  BY <1>2

Empty == [price |-> <<>>, qty |-> <<>>]

Push(c, l) == [price |-> Append(c.price, l.price), qty |-> Append(c.qty, l.qty)]

ReadBody(q, g, n) ==
    IF n = 0 THEN Empty
    ELSE IF Readable(q[n]) THEN Push(g[n - 1], q[n])
    ELSE g[n - 1]

IsRead(q, g, m) == g = [n \in 0..m |-> ReadBody(q, g, n)]

LEMMA ReadExists ==
    ASSUME NEW q, NEW m \in Nat
    PROVE  \E g : IsRead(q, g, m)
<1> DEFINE B == {n \in Nat : ~ \E g : IsRead(q, g, n)}
<1>1. ASSUME B # {} PROVE FALSE
  <2>1. PICK n \in B : \A k \in B : n <= k
    <3>1. B \subseteq Nat
      OBVIOUS
    <3> HIDE DEF B
    <3> QED
      BY <1>1, <3>1, LeastNat
  <2>2. n \in Nat /\ ~ \E g : IsRead(q, g, n)
    BY <2>1
  <2>3. n # 0
    <3>1. PICK g : g = [k \in 0..0 |-> Empty]
      OBVIOUS
    <3>2. g = [k \in 0..0 |-> ReadBody(q, g, k)]
      BY <3>1 DEF ReadBody
    <3> QED
      BY <2>2, <3>2 DEF IsRead
  <2>4. n - 1 \in Nat /\ ~(n <= n - 1)
    BY <2>2, <2>3
  <2>5. n - 1 \notin B
    BY <2>1, <2>4
  <2>6. PICK g : IsRead(q, g, n - 1)
    BY <2>4, <2>5
  <2> DEFINE h == [k \in 0..n |-> IF k = n THEN ReadBody(q, g, n) ELSE g[k]]
  <2>7. \A k \in 0..(n - 1) : h[k] = g[k] /\ g[k] = ReadBody(q, g, k)
    BY <2>2, <2>6 DEF IsRead
  <2>8. ASSUME NEW k \in 0..n
        PROVE  h[k] = ReadBody(q, h, k)
    <3>1. h[k] = ReadBody(q, g, k)
      <4>1. k # n => k \in 0..(n - 1)
        BY <2>2
      <4>2. k = n => h[k] = ReadBody(q, g, n)
        OBVIOUS
      <4> HIDE DEF h
      <4> QED
        BY <2>7, <4>1, <4>2
    <3>2. k # 0 => k - 1 \in 0..(n - 1)
      BY <2>2
    <3>3. k # 0 => h[k - 1] = g[k - 1]
      BY <2>7, <3>2
    <3> HIDE DEF h
    <3> QED
      BY <3>1, <3>3 DEF ReadBody
  <2>9. h = [k \in 0..n |-> h[k]]
    OBVIOUS
  <2> HIDE DEF h
  <2>10. h = [k \in 0..n |-> ReadBody(q, h, k)]
    BY <2>8, <2>9
  <2> QED
    BY <2>2, <2>10 DEF IsRead
<1> QED
  BY <1>1

LEMMA ColumnsRead ==
    ASSUME NEW q, Len(q) \in Nat
    PROVE  \E g : IsRead(q, g, Len(q)) /\ Columns(q) = g[Len(q)]
<1> DEFINE g == CHOOSE g : g = [n \in 0..Len(q) |-> ReadBody(q, g, n)]
<1>1. Columns(q) = g[Len(q)]
  BY Zenon DEF Columns, ReadBody, Empty, Push
<1>2. PICK h : IsRead(q, h, Len(q))
  BY ReadExists
<1>3. h = [n \in 0..Len(q) |-> ReadBody(q, h, n)]
  BY <1>2, Zenon DEF IsRead
<1>4. g = [n \in 0..Len(q) |-> ReadBody(q, g, n)]
  BY <1>3, Zenon
<1> QED
  BY <1>1, <1>4, Zenon DEF IsRead

(* The columns c hold the readable ones of the first n levels of q, and at  *)
(* tells at which place of q each row comes from: at rising places.         *)
IsChoice(q, n, c, at) ==
    /\ c = [price |-> c.price, qty |-> c.qty]
    /\ c.price \in Seq(Number) /\ c.qty \in Seq(Number) /\ at \in Seq(Nat)
    /\ Len(c.price) = Len(at) /\ Len(c.qty) = Len(at)
    /\ \A j \in 1..Len(at) :
          /\ at[j] \in 1..n /\ Readable(q[at[j]])
          /\ c.price[j] = q[at[j]].price /\ c.qty[j] = q[at[j]].qty
    /\ \A j, k \in 1..Len(at) : j < k => at[j] < at[k]
    /\ \A i \in 1..n : Readable(q[i]) => \E j \in 1..Len(at) : at[j] = i

(* A readable level comes in. *)
LEMMA PushChoice ==
    ASSUME NEW q, NEW n \in Nat, n # 0, q[n] \in Levels, Readable(q[n]),
           NEW c, NEW at, IsChoice(q, n - 1, c, at)
    PROVE  IsChoice(q, n, Push(c, q[n]), Append(at, n))
<1> DEFINE a == Append(at, n)
           d == Push(c, q[n])
<1>1. /\ c.price \in Seq(Number) /\ c.qty \in Seq(Number) /\ at \in Seq(Nat)
      /\ Len(c.price) = Len(at) /\ Len(c.qty) = Len(at) /\ Len(at) \in Nat
      /\ q[n].price \in Number /\ q[n].qty \in Number
  BY DEF IsChoice, Levels
<1>2. /\ d = [price |-> d.price, qty |-> d.qty]
      /\ d.price = Append(c.price, q[n].price) /\ d.qty = Append(c.qty, q[n].qty)
  BY DEF Push
<1>3. /\ d.price \in Seq(Number) /\ d.qty \in Seq(Number) /\ a \in Seq(Nat)
      /\ Len(d.price) = Len(at) + 1 /\ Len(d.qty) = Len(at) + 1 /\ Len(a) = Len(at) + 1
  BY <1>1, <1>2
<1>4. /\ a[Len(at) + 1] = n /\ d.price[Len(at) + 1] = q[n].price
      /\ d.qty[Len(at) + 1] = q[n].qty
  BY <1>1, <1>2
<1>5. \A j \in 1..Len(at) : a[j] = at[j] /\ d.price[j] = c.price[j] /\ d.qty[j] = c.qty[j]
  BY <1>1, <1>2
<1> HIDE DEF a, d
<1>6. ASSUME NEW j \in 1..Len(a)
      PROVE  /\ a[j] \in 1..n /\ Readable(q[a[j]])
             /\ d.price[j] = q[a[j]].price /\ d.qty[j] = q[a[j]].qty
  <2>1. CASE j = Len(at) + 1
    BY <1>4, <2>1
  <2>2. CASE j # Len(at) + 1
    <3>1. j \in 1..Len(at)
      BY <1>1, <1>3, <2>2
    <3>2. /\ at[j] \in 1..(n - 1) /\ Readable(q[at[j]])
          /\ c.price[j] = q[at[j]].price /\ c.qty[j] = q[at[j]].qty
      BY <3>1 DEF IsChoice
    <3> QED
      BY <1>5, <3>1, <3>2
  <2> QED
    BY <2>1, <2>2
<1>7. ASSUME NEW j \in 1..Len(a), NEW k \in 1..Len(a), j < k
      PROVE  a[j] < a[k]
  <2>1. j \in 1..Len(at)
    BY <1>1, <1>3, <1>7
  <2>2. at[j] \in 1..(n - 1) /\ a[j] = at[j]
    BY <1>5, <2>1 DEF IsChoice
  <2>3. CASE k = Len(at) + 1
    BY <1>4, <2>2, <2>3
  <2>4. CASE k # Len(at) + 1
    <3>1. k \in 1..Len(at)
      BY <1>1, <1>3, <2>4
    <3> QED
      BY <1>5, <1>7, <2>1, <3>1 DEF IsChoice
  <2> QED
    BY <2>3, <2>4
<1>8. ASSUME NEW i \in 1..n, Readable(q[i])
      PROVE  \E j \in 1..Len(a) : a[j] = i
  <2>1. CASE i = n
    <3>1. Len(at) + 1 \in 1..Len(a)
      BY <1>1, <1>3
    <3> QED
      BY <1>4, <2>1, <3>1
  <2>2. CASE i # n
    <3>1. i \in 1..(n - 1)
      BY <2>2
    <3>2. PICK j \in 1..Len(at) : at[j] = i
      BY <1>8, <3>1 DEF IsChoice
    <3>3. j \in 1..Len(a)
      BY <1>1, <1>3
    <3> QED
      BY <1>5, <3>2, <3>3
  <2> QED
    BY <2>1, <2>2
<1>9. IsChoice(q, n, d, a)
  BY <1>2, <1>3, <1>6, <1>7, <1>8 DEF IsChoice
<1> QED
  BY <1>9 DEF a, d

(* A level that is not readable leaves no trace. *)
LEMMA SkipChoice ==
    ASSUME NEW q, NEW n \in Nat, n # 0, ~Readable(q[n]),
           NEW c, NEW at, IsChoice(q, n - 1, c, at)
    PROVE  IsChoice(q, n, c, at)
<1>1. \A i \in 1..n : i # n => i \in 1..(n - 1)
  OBVIOUS
<1>2. \A i \in 1..(n - 1) : i \in 1..n
  OBVIOUS
<1>3. \A i \in 1..n : Readable(q[i]) => i \in 1..(n - 1)
  BY <1>1
<1> QED
  BY <1>2, <1>3 DEF IsChoice

(* Columns keeps the readable levels, each whole, in the order they come.   *)
LEMMA ColumnsChoice ==
    ASSUME NEW q \in Seq(Levels)
    PROVE  \E at : IsChoice(q, Len(q), Columns(q), at)
<1>1. PICK g : IsRead(q, g, Len(q)) /\ Columns(q) = g[Len(q)]
  BY ColumnsRead
<1>2. \A n \in 0..Len(q) : g[n] = ReadBody(q, g, n)
  BY <1>1 DEF IsRead
<1> DEFINE B == {n \in 0..Len(q) : ~ \E at : IsChoice(q, n, g[n], at)}
<1>3. ASSUME B # {} PROVE FALSE
  <2>1. PICK n \in B : \A k \in B : n <= k
    <3>1. B \subseteq Nat
      OBVIOUS
    <3> HIDE DEF B
    <3> QED
      BY <1>3, <3>1, LeastNat
  <2>2. n \in 0..Len(q) /\ n \in Nat /\ ~ \E at : IsChoice(q, n, g[n], at)
    BY <2>1
  <2>3. n # 0
    <3>1. ASSUME n = 0 PROVE IsChoice(q, n, g[n], <<>>)
      <4>1. g[n] = Empty
        BY <1>2, <2>2, <3>1 DEF ReadBody
      <4> QED
        BY <3>1, <4>1 DEF IsChoice, Empty
    <3> QED
      BY <2>2, <3>1
  <2>4. n - 1 \in 0..Len(q) /\ n \in 1..Len(q) /\ ~(n <= n - 1)
    BY <2>2, <2>3
  <2>5. n - 1 \notin B
    BY <2>1, <2>4
  <2>6. PICK at : IsChoice(q, n - 1, g[n - 1], at)
    BY <2>4, <2>5
  <2>7. q[n] \in Levels
    BY <2>4
  <2>8. g[n] = IF Readable(q[n]) THEN Push(g[n - 1], q[n]) ELSE g[n - 1]
    BY <1>2, <2>2, <2>3 DEF ReadBody
  <2>9. CASE Readable(q[n])
    BY <2>2, <2>3, <2>6, <2>7, <2>8, <2>9, PushChoice
  <2>10. CASE ~Readable(q[n])
    BY <2>2, <2>3, <2>6, <2>8, <2>10, SkipChoice
  <2> QED
    BY <2>9, <2>10
<1>4. Len(q) \in 0..Len(q)
  OBVIOUS
<1> QED
  BY <1>1, <1>3, <1>4

(* The columns hold finite numbers only. *)
LEMMA ColumnsFinite ==
    ASSUME NEW q \in Seq(Levels), NEW c, c = Columns(q)
    PROVE  Finite(ElementsOf(c.price) \union ElementsOf(c.qty))
<1>1. PICK at : IsChoice(q, Len(q), c, at)
  BY ColumnsChoice
<1>2. \A j \in 1..Len(at) : IsFinite(c.price[j]) /\ IsFinite(c.qty[j])
  BY <1>1 DEF IsChoice, Readable
<1>3. DOMAIN c.price = 1..Len(at) /\ DOMAIN c.qty = 1..Len(at)
  BY <1>1 DEF IsChoice
<1> QED
  BY <1>2, <1>3 DEF Finite, ElementsOf

(* A readable level is a row of the columns, and every row is one. *)
LEMMA ColumnsWhole ==
    ASSUME NEW q \in Seq(Levels), NEW c, c = Columns(q)
    PROVE  /\ Len(c.price) = Len(c.qty)
           /\ \A i \in DOMAIN q : Readable(q[i]) <=> q[i] \in ElementsOf(Pairs(c))
<1>1. PICK at : IsChoice(q, Len(q), c, at)
  BY ColumnsChoice
<1>2. /\ DOMAIN c.price = 1..Len(at) /\ Len(c.price) = Len(c.qty)
      /\ DOMAIN q = 1..Len(q)
  BY <1>1 DEF IsChoice
<1>3. ASSUME NEW j \in 1..Len(at)
      PROVE  Pairs(c)[j] = q[at[j]] /\ at[j] \in 1..Len(q) /\ Readable(q[at[j]])
  <2>1. /\ at[j] \in 1..Len(q) /\ Readable(q[at[j]])
        /\ c.price[j] = q[at[j]].price /\ c.qty[j] = q[at[j]].qty
    BY <1>1 DEF IsChoice
  <2>2. q[at[j]] \in Levels
    BY <2>1
  <2>3. q[at[j]] = [price |-> q[at[j]].price, qty |-> q[at[j]].qty]
    BY <2>2 DEF Levels
  <2>4. Pairs(c)[j] = [price |-> c.price[j], qty |-> c.qty[j]]
    BY <1>2 DEF Pairs
  <2> QED
    BY <2>1, <2>3, <2>4
<1>4. ElementsOf(Pairs(c)) = {q[at[j]] : j \in 1..Len(at)}
  <2>1. DOMAIN Pairs(c) = 1..Len(at)
    BY <1>2 DEF Pairs
  <2> QED
    BY <1>3, <2>1 DEF ElementsOf
<1>5. ASSUME NEW i \in DOMAIN q
      PROVE  Readable(q[i]) <=> q[i] \in ElementsOf(Pairs(c))
  <2>1. ASSUME Readable(q[i]) PROVE q[i] \in ElementsOf(Pairs(c))
    BY <1>1, <1>2, <1>4, <2>1 DEF IsChoice
  <2>2. ASSUME q[i] \in ElementsOf(Pairs(c)) PROVE Readable(q[i])
    BY <1>3, <1>4, <2>2
  <2> QED
    BY <2>1, <2>2
<1> QED
  BY <1>2, <1>5

(* The rows stand in the order of the message. *)
LEMMA ColumnsInOrder ==
    ASSUME NEW q \in Seq(Levels), NEW c, c = Columns(q), NEW i \in DOMAIN c.price, i > 1
    PROVE  \E k, l \in DOMAIN q :
              /\ k < l /\ Readable(q[k]) /\ Readable(q[l])
              /\ c.price[1] = q[k].price /\ c.price[i] = q[l].price
<1>1. PICK at : IsChoice(q, Len(q), c, at)
  BY ColumnsChoice
<1>2. DOMAIN c.price = 1..Len(at) /\ DOMAIN q = 1..Len(q) /\ Len(at) \in Nat
  BY <1>1 DEF IsChoice
<1>3. 1 \in 1..Len(at) /\ i \in 1..Len(at)
  BY <1>2
<1>4. at[1] < at[i]
  BY <1>1, <1>3 DEF IsChoice
<1>5. \A j \in {1, i} : /\ at[j] \in 1..Len(q) /\ Readable(q[at[j]])
                        /\ c.price[j] = q[at[j]].price
  BY <1>1, <1>3 DEF IsChoice
<1> QED
  BY <1>2, <1>4, <1>5

LEMMA SnapshotOf ==
    ASSUME NEW d \in Depths
    PROVE  /\ IsBestFirst(FromDepth5(d).bids, d.bids, LAMBDA x, y : x > y)
           /\ IsBestFirst(FromDepth5(d).asks, d.asks, LAMBDA x, y : x < y)
<1>1. d.bids \in Seq(Levels) /\ d.asks \in Seq(Levels)
  BY DepthsAssumption
<1>2. PICK b, a : b = Columns(d.bids) /\ a = Columns(d.asks)
  OBVIOUS
<1>3. FromDepth5(d).bids = b /\ FromDepth5(d).asks = a
  BY <1>2 DEF FromDepth5
<1>4. ASSUME NEW i \in DOMAIN b.price, i > 1
      PROVE  b.price[1] > b.price[i]
  <2>1. PICK k \in DOMAIN d.bids, l \in DOMAIN d.bids :
            /\ k < l /\ Readable(d.bids[k]) /\ Readable(d.bids[l])
            /\ b.price[1] = d.bids[k].price /\ b.price[i] = d.bids[l].price
    BY <1>1, <1>2, <1>4, ColumnsInOrder
  <2> QED
    BY <2>1, DepthsAssumption
<1>5. ASSUME NEW i \in DOMAIN a.price, i > 1
      PROVE  a.price[1] < a.price[i]
  <2>1. PICK k \in DOMAIN d.asks, l \in DOMAIN d.asks :
            /\ k < l /\ Readable(d.asks[k]) /\ Readable(d.asks[l])
            /\ a.price[1] = d.asks[k].price /\ a.price[i] = d.asks[l].price
    BY <1>1, <1>2, <1>5, ColumnsInOrder
  <2> QED
    BY <2>1, DepthsAssumption
<1>6. /\ Len(b.price) = Len(b.qty)
      /\ \A i \in DOMAIN d.bids : Readable(d.bids[i]) <=> d.bids[i] \in ElementsOf(Pairs(b))
  BY <1>1, <1>2, ColumnsWhole
<1>7. /\ Len(a.price) = Len(a.qty)
      /\ \A i \in DOMAIN d.asks : Readable(d.asks[i]) <=> d.asks[i] \in ElementsOf(Pairs(a))
  BY <1>1, <1>2, ColumnsWhole
<1> QED
  BY <1>3, <1>4, <1>5, <1>6, <1>7 DEF IsBestFirst

--------------------------------------------------------------------------------
(* What is published: each event is made of what can be read, a depth       *)
(* snapshot of a message of the exchange.                                   *)

Depthly(f) == f.e = "depthUpdate" => f.body \in Depths

EventOK ==
    published # None =>
        \/ /\ published.subject = "context"
           /\ {published.event.mark, published.event.rate} \intersect {Inf, Junk} = {}
        \/ /\ published.subject = "liq"
           /\ Finite({published.event.price, published.event.qty, published.event.filled})
        \/ /\ published.subject = "depth"
           /\ published.of \in Depths
           /\ published.event = FromDepth5(published.of)

PublishInv ==
    /\ IInv
    /\ Len(frames) <= MaxFrames
    /\ \A i \in 1..Len(frames) : Depthly(frames[i])
    /\ EventOK

LEMMA PublishInit == Init => PublishInv
BY InitInv, BoundsAssumption DEF PublishInv, EventOK, Init

LEMMA PublishArrive ==
    ASSUME PublishInv, NEW f \in Frame, Depthly(f), Arrive(f)
    PROVE  /\ Len(frames') <= MaxFrames
           /\ \A i \in 1..Len(frames') : Depthly(frames'[i])
           /\ UNCHANGED published
<1>1. frames \in Seq(Frame) /\ Len(frames) < MaxFrames /\ frames' = Append(frames, f)
  BY DEF PublishInv, IInv, Arrive
<1>2. Len(frames') = Len(frames) + 1 /\ Len(frames) \in Nat
  BY <1>1
<1>3. Len(frames') <= MaxFrames
  BY <1>1, <1>2, BoundsAssumption
<1>4. ASSUME NEW i \in 1..Len(frames')
      PROVE  Depthly(frames'[i])
  <2>1. frames'[i] = f \/ (i \in 1..Len(frames) /\ frames'[i] = frames[i])
    BY <1>1, <1>2
  <2>2. CASE frames'[i] = f
    BY <2>2 DEF Depthly
  <2>3. CASE i \in 1..Len(frames) /\ frames'[i] = frames[i]
    BY <2>3 DEF PublishInv, Depthly
  <2> QED
    BY <2>1, <2>2, <2>3
<1> QED
  BY <1>3, <1>4 DEF Arrive

LEMMA PublishRead ==
    ASSUME PublishInv, Read
    PROVE  /\ Len(frames') <= MaxFrames
           /\ \A i \in 1..Len(frames') : Depthly(frames'[i])
           /\ Depthly(Head(frames))
<1>1. frames \in Seq(Frame) /\ frames # <<>> /\ frames' = Tail(frames)
  BY DEF PublishInv, IInv, Read
<1>2. Len(frames') = Len(frames) - 1 /\ Len(frames) \in Nat /\ Len(frames) # 0
  BY <1>1
<1>3. \A i \in 1..Len(frames') : frames'[i] = frames[i + 1] /\ i + 1 \in 1..Len(frames)
  BY <1>1, <1>2
<1>4. Head(frames) = frames[1] /\ 1 \in 1..Len(frames)
  BY <1>1, <1>2
<1>5. Len(frames') <= MaxFrames
  BY <1>2, BoundsAssumption DEF PublishInv
<1> QED
  BY <1>3, <1>4, <1>5 DEF PublishInv

(* One lemma for each of the handlers that publish. *)
LEMMA DepthPublished ==
    ASSUME PublishInv, HandleDepth
    PROVE  EventOK'
<1>1. /\ Head(frames).body \in Depths
      /\ published' = [subject |-> "depth", sym |-> Head(frames).sym,
                       event |-> FromDepth5(Head(frames).body), of |-> Head(frames).body]
  BY PublishRead DEF HandleDepth, Depthly
<1>2. /\ published'.subject = "depth" /\ published'.of \in Depths
      /\ published'.event = FromDepth5(published'.of)
  BY <1>1, Zenon
<1> QED
  BY <1>2, Zenon DEF EventOK

LEMMA OrderPublished ==
    ASSUME PublishInv, HandleForceOrder
    PROVE  EventOK'
<1>1. CASE UNCHANGED published
  BY <1>1 DEF PublishInv, EventOK
<1>2. ASSUME NEW t \in FromForceOrder(Head(frames).body),
             published' = [subject |-> "liq", sym |-> Head(frames).sym,
                           event |-> t, of |-> Head(frames).body]
      PROVE  EventOK'
  <2>1. Finite({t.price, t.qty, t.filled})
    BY DEF FromForceOrder, Finite
  <2> QED
    BY <1>2, <2>1 DEF EventOK, Finite, IsFinite
<1> QED
  BY <1>1, <1>2 DEF HandleForceOrder

LEMMA MarkPublished ==
    ASSUME PublishInv, HandleMark
    PROVE  EventOK'
<1>1. \A s, m : LET x == FromMark(s, m) IN {x.mark, x.rate} \intersect {Inf, Junk} = {}
  BY NoneAssumption DEF FromMark, ParseF64, IsFinite
<1> QED
  BY <1>1 DEF HandleMark, EventOK

LEMMA PublishNext ==
    ASSUME PublishInv, [Next]_vars
    PROVE  PublishInv'
<1>1. IInv'
  BY NextInv DEF PublishInv
<1>2. ASSUME UNCHANGED <<frames, published>> PROVE PublishInv'
  BY <1>1, <1>2 DEF PublishInv, EventOK
<1>3. ASSUME NEW f \in Frame, Depthly(f), Arrive(f) PROVE PublishInv'
  BY <1>1, <1>3, PublishArrive DEF PublishInv, EventOK
<1>4. ASSUME Read, EventOK' PROVE PublishInv'
  BY <1>1, <1>4, PublishRead DEF PublishInv
<1>5. ASSUME NEW s \in Symbols, ArriveOi(s) \/ ArriveJunkOi(s) PROVE PublishInv'
  <2>1. \A v \in {oi[s], Junk} :
            LET f == [e |-> "openInterest", sym |-> s, body |-> v] IN f \in Frame /\ Depthly(f)
    BY DEF Depthly, Frame, PublishInv, IInv
  <2> QED
    BY <1>3, <1>5, <2>1 DEF ArriveOi, ArriveJunkOi
<1>6. ASSUME NEW s \in Symbols, NEW m \in Marks, ArriveMark(s, m) PROVE PublishInv'
  <2>1. LET f == [e |-> "markPriceUpdate", sym |-> s, body |-> m] IN f \in Frame /\ Depthly(f)
    BY DEF Depthly, Frame
  <2> QED
    BY <1>3, <1>6, <2>1 DEF ArriveMark
<1>7. ASSUME NEW s \in Symbols, NEW d \in Depths, ArriveDepth(s, d) PROVE PublishInv'
  <2>1. LET f == [e |-> "depthUpdate", sym |-> s, body |-> d] IN f \in Frame /\ Depthly(f)
    BY DEF Depthly, Frame
  <2> QED
    BY <1>3, <1>7, <2>1 DEF ArriveDepth
<1>8. ASSUME NEW s \in Symbols, NEW o \in Orders, ArriveOrder(s, o) PROVE PublishInv'
  <2>1. LET f == [e |-> "forceOrder", sym |-> s, body |-> o] IN f \in Frame /\ Depthly(f)
    BY DEF Depthly, Frame
  <2> QED
    BY <1>3, <1>8, <2>1 DEF ArriveOrder
<1>9. ASSUME SocketLost PROVE PublishInv'
  <2>1. Len(frames') = 0 /\ UNCHANGED published
    BY <1>9 DEF SocketLost
  <2> QED
    BY <1>1, <2>1, BoundsAssumption DEF PublishInv, EventOK
<1>10. CASE HandleDepth
  BY <1>4, <1>10, DepthPublished DEF HandleDepth
<1>11. CASE HandleForceOrder
  BY <1>4, <1>11, OrderPublished DEF HandleForceOrder
<1>12. CASE HandleMark
  BY <1>4, <1>12, MarkPublished DEF HandleMark
<1>13. CASE HandleOpenInterest
  <2>1. EventOK'
    BY <1>13 DEF HandleOpenInterest, PublishInv, EventOK
  <2> QED
    BY <1>4, <1>13, <2>1 DEF HandleOpenInterest
<1>14. ASSUME NEW s \in Symbols, OiChanges(s) \/ ServerReads(s) \/ Get(s) \/ RestOk(s)
       PROVE  PublishInv'
  BY <1>2, <1>14 DEF OiChanges, ServerReads, Get, RestOk
<1>15. ASSUME NEW U \in SUBSET Symbols, Broadcast(U) PROVE PublishInv'
  BY <1>2, <1>15 DEF Broadcast
<1>16. CASE Sweep \/ RestErr \/ UNCHANGED vars
  BY <1>2, <1>16 DEF Sweep, RestErr, vars
<1> QED
  BY <1>5, <1>6, <1>7, <1>8, <1>9, <1>10, <1>11, <1>12, <1>13, <1>14, <1>15, <1>16 DEF Next

LEMMA PublishImpliesType == PublishInv => TypeOK
<1> SUFFICES ASSUME PublishInv PROVE TypeOK
  OBVIOUS
<1>1. /\ oi \in [Symbols -> 0..MaxOi]
      /\ universe \subseteq Symbols /\ todo \subseteq Symbols
      /\ request \in [sym : Symbols, answer : 0..MaxOi \union {None}] \union {None}
      /\ cache \in [Symbols -> 0..MaxOi \union {None}]
      /\ Len(frames) <= MaxFrames
  BY DEF PublishInv, IInv, Values
<1> DEFINE x == published.event
           Sides == \A side \in {x.bids, x.asks} :
                       Finite(ElementsOf(side.price) \union ElementsOf(side.qty))
<1>2. ASSUME published # None, published.subject = "depth" PROVE Sides
  <2>1. published.of \in Depths /\ x = FromDepth5(published.of)
    BY <1>2 DEF PublishInv, EventOK
  <2>2. PICK d \in Depths : d = published.of
    BY <2>1
  <2>3. d.bids \in Seq(Levels) /\ d.asks \in Seq(Levels)
    BY DepthsAssumption
  <2>4. x = FromDepth5(d)
    BY <2>1, <2>2, Zenon
  <2>5. x.bids = Columns(d.bids) /\ x.asks = Columns(d.asks)
    BY <2>4 DEF FromDepth5
  <2> QED
    BY <2>3, <2>5, ColumnsFinite
<1>3. published # None =>
         \/ published.subject = "context" /\ {x.mark, x.rate} \intersect {Inf, Junk} = {}
         \/ published.subject = "liq" /\ Finite({x.price, x.qty, x.filled})
         \/ published.subject = "depth" /\ Sides
  BY <1>2 DEF PublishInv, EventOK
<1>4. published # None =>
         CASE published.subject = "context" -> {x.mark, x.rate} \intersect {Inf, Junk} = {}
           [] published.subject = "liq" -> Finite({x.price, x.qty, x.filled})
           [] published.subject = "depth" -> Sides
  <2> HIDE DEF x, Sides
  <2> QED
    BY <1>3
<1> QED
  BY <1>1, <1>4 DEF TypeOK

LEMMA PublishImpliesWhole == PublishInv => SnapshotWhole
<1> SUFFICES ASSUME PublishInv, published # None, published.subject = "depth"
             PROVE  /\ IsBestFirst(published.event.bids, published.of.bids, LAMBDA x, y : x > y)
                    /\ IsBestFirst(published.event.asks, published.of.asks, LAMBDA x, y : x < y)
  BY DEF SnapshotWhole
<1>1. published.of \in Depths /\ published.event = FromDepth5(published.of)
  BY DEF PublishInv, EventOK
<1>2. PICK d \in Depths : d = published.of
  BY <1>1
<1>3. published.event = FromDepth5(d)
  BY <1>1, <1>2, Zenon
<1> QED
  BY <1>2, <1>3, SnapshotOf, Zenon

LEMMA PublishAlways == Spec => []PublishInv
BY PublishInit, PublishNext, PTL DEF Spec

(* The cache, the sweep and the requests stay in their bounds, and no event *)
(* is published with a number that is not finite, whatever the exchange     *)
(* writes where a number belongs.                                           *)
THEOREM TypeCorrect == Spec => []TypeOK
BY PublishAlways, PublishImpliesType, PTL

(* Of every depth message the snapshot that is published has each readable  *)
(* level, none else, each quantity beside its price, and the best first.    *)
THEOREM SnapshotWholeCorrect == Spec => []SnapshotWhole
BY PublishAlways, PublishImpliesWhole, PTL
================================================================================
