----------------------------- MODULE SimBrokerProofs -----------------------------
(***************************************************************************)
(* Proofs about SimBroker, for every set of symbols, every strategy, every *)
(* mark, price and rate, and every funding period.                         *)
(***************************************************************************)
EXTENDS SimBroker, FiniteSetTheorems, WellFoundedInduction, TLAPS

--------------------------------------------------------------------------------
(* Sums over finite sets.  SumFunctionOnSet of the community modules is a   *)
(* recursive function, so that its defining equation has to be proved: a    *)
(* function satisfying it exists, and any two agree.  Each induction on the *)
(* set is an argument about a least counterexample.                         *)

Chosen(s) == CHOOSE x \in s : TRUE

SumBody(f, g, s) == IF s = {} THEN 0 ELSE f[Chosen(s)] + g[s \ {Chosen(s)}]

IsSum(f, g, S) == g = [s \in SUBSET S |-> SumBody(f, g, s)]

(* A non-empty family of subsets of a finite set has a minimal member. *)
LEMMA MinimalSubset ==
    ASSUME NEW S, IsFiniteSet(S), NEW B, B \subseteq SUBSET S, B # {}
    PROVE  \E x \in B : \A y \in B : y \subseteq x => y = x
<1>1. IsWellFoundedOn(StrictSubsetOrdering(S), SUBSET S)
  BY FS_FiniteSubsetsOfFinite, FS_StrictSubsetOrderingWellFounded
<1>2. PICK x \in B : \A y \in B : ~(<<y, x>> \in StrictSubsetOrdering(S))
  BY <1>1, WFMin, Zenon
<1>3. ASSUME NEW y \in B, y \subseteq x
      PROVE  y = x
  <2>1. y \in SUBSET S /\ x \in SUBSET S
    OBVIOUS
  <2>2. <<y, x>> \in (SUBSET S) \X (SUBSET S)
    BY <2>1
  <2>3. y # x => <<y, x>> \in StrictSubsetOrdering(S)
    BY <1>3, <2>2 DEF StrictSubsetOrdering
  <2> QED
    BY <1>2, <2>3
<1> QED
  BY <1>3

(* The set without its chosen member is smaller. *)
LEMMA ChosenIn ==
    ASSUME NEW s, s # {}
    PROVE  Chosen(s) \in s
BY DEF Chosen

LEMMA SumUnique ==
    ASSUME NEW S, IsFiniteSet(S), NEW f, NEW S1, NEW S2, NEW g, NEW h,
           S \subseteq S1, S \subseteq S2, IsSum(f, g, S1), IsSum(f, h, S2)
    PROVE  g[S] = h[S]
<1> DEFINE B == {s \in SUBSET S : g[s] # h[s]}
<1>1. \A s \in SUBSET S : g[s] = SumBody(f, g, s)
  BY DEF IsSum
<1>2. \A s \in SUBSET S : h[s] = SumBody(f, h, s)
  BY DEF IsSum
<1>3. ASSUME B # {} PROVE FALSE
  <2>1. PICK s \in B : \A t \in B : t \subseteq s => t = s
    <3>1. B \subseteq SUBSET S
      OBVIOUS
    <3> HIDE DEF B
    <3> QED
      BY <1>3, <3>1, MinimalSubset
  <2>2. s # {}
    BY <1>1, <1>2, <2>1 DEF SumBody
  <2>3. PICK t : t = s \ {Chosen(s)}
    OBVIOUS
  <2>4. t \in SUBSET S /\ t \subseteq s /\ t # s
    BY <2>2, <2>3, ChosenIn
  <2>5. g[t] = h[t]
    BY <2>1, <2>4
  <2>6. g[s] = f[Chosen(s)] + g[t] /\ h[s] = f[Chosen(s)] + h[t]
    BY <1>1, <1>2, <2>1, <2>2, <2>3 DEF SumBody
  <2> QED
    BY <2>1, <2>5, <2>6
<1> QED
  BY <1>3

LEMMA SumExists ==
    ASSUME NEW S, IsFiniteSet(S), NEW f
    PROVE  \E g : IsSum(f, g, S)
<1> DEFINE B == {s \in SUBSET S : ~ \E g : IsSum(f, g, s)}
<1>1. ASSUME B # {} PROVE FALSE
  <2>1. PICK x \in B : \A y \in B : y \subseteq x => y = x
    <3>1. B \subseteq SUBSET S
      OBVIOUS
    <3> HIDE DEF B
    <3> QED
      BY <1>1, <3>1, MinimalSubset
  <2>2. x \subseteq S
    BY <2>1
  <2> DEFINE G(y) == CHOOSE g : IsSum(f, g, y)
             V(y) == IF y = {} THEN 0
                     ELSE f[Chosen(y)] + G(y \ {Chosen(y)})[y \ {Chosen(y)}]
             h == [y \in SUBSET x |-> V(y)]
  <2>3. ASSUME NEW y \in SUBSET x, y # x
        PROVE  IsSum(f, G(y), y)
    <3>1. y \notin B
      BY <2>1, <2>3
    <3>2. \E g : IsSum(f, g, y)
      BY <2>2, <3>1
    <3> QED
      BY <3>2
  <2> HIDE DEF G
  <2>4. ASSUME NEW y \in SUBSET x, y # x
        PROVE  V(y) = G(y)[y]
    <3>1. G(y)[y] = SumBody(f, G(y), y)
      BY <2>3, <2>4 DEF IsSum
    <3>2. CASE y = {}
      BY <3>1, <3>2 DEF SumBody
    <3>3. CASE y # {}
      <4>1. PICK z : z = y \ {Chosen(y)}
        OBVIOUS
      <4>2. z \subseteq y /\ z \in SUBSET x /\ z # x
        BY <2>4, <3>3, <4>1, ChosenIn
      <4>3. IsFiniteSet(z)
        BY <2>2, <4>2, FS_Subset
      <4>4. G(y)[z] = G(z)[z]
        BY <2>3, <2>4, <4>2, <4>3, SumUnique
      <4>5. G(y)[y] = f[Chosen(y)] + G(y)[z]
        BY <3>1, <3>3, <4>1 DEF SumBody
      <4>6. V(y) = f[Chosen(y)] + G(z)[z]
        BY <3>3, <4>1
      <4> QED
        BY <4>4, <4>5, <4>6
    <3> QED
      BY <3>2, <3>3
  <2>5. ASSUME NEW y \in SUBSET x
        PROVE  V(y) = SumBody(f, h, y)
    <3>1. CASE y = {}
      BY <3>1 DEF SumBody
    <3>2. CASE y # {}
      <4>1. PICK z : z = y \ {Chosen(y)}
        OBVIOUS
      <4>2. z \in SUBSET x /\ z # x
        BY <3>2, <4>1, ChosenIn
      <4>3. h[z] = G(z)[z]
        BY <2>4, <4>2
      <4>4. V(y) = f[Chosen(y)] + G(z)[z]
        BY <3>2, <4>1
      <4>5. SumBody(f, h, y) = f[Chosen(y)] + h[z]
        BY <3>2, <4>1 DEF SumBody
      <4> QED
        BY <4>3, <4>4, <4>5
    <3> QED
      BY <3>1, <3>2
  <2>6. IsSum(f, h, x)
    BY <2>5, Zenon DEF IsSum
  <2> QED
    BY <2>1, <2>6
<1>2. S \notin B
  BY <1>1
<1> QED
  BY <1>2

LEMMA SumIs ==
    ASSUME NEW S, IsFiniteSet(S), NEW f
    PROVE  \E g : IsSum(f, g, S) /\ SumFunctionOnSet(f, S) = g[S]
<1> DEFINE g == CHOOSE g : g = [s \in SUBSET S |-> SumBody(f, g, s)]
<1>1. SumFunctionOnSet(f, S) = g[S]
  BY Zenon DEF SumFunctionOnSet, FoldFunctionOnSet, MapThenFoldSet, SumBody, Chosen
<1>2. PICK h : IsSum(f, h, S)
  BY SumExists
<1>3. h = [s \in SUBSET S |-> SumBody(f, h, s)]
  BY <1>2, Zenon DEF IsSum
<1>4. g = [s \in SUBSET S |-> SumBody(f, g, s)]
  BY <1>3, Zenon
<1> QED
  BY <1>1, <1>4, Zenon DEF IsSum

(* The defining equation. *)
LEMMA SumEquation ==
    ASSUME NEW S, IsFiniteSet(S), NEW f
    PROVE  /\ S = {} => SumFunctionOnSet(f, S) = 0
           /\ S # {} => SumFunctionOnSet(f, S) =
                          f[Chosen(S)] + SumFunctionOnSet(f, S \ {Chosen(S)})
<1>1. PICK g : IsSum(f, g, S) /\ SumFunctionOnSet(f, S) = g[S]
  BY SumIs
<1>2. g[S] = SumBody(f, g, S)
  BY <1>1 DEF IsSum
<1>3. PICK T : T = S \ {Chosen(S)}
  OBVIOUS
<1>4. T \subseteq S /\ IsFiniteSet(T)
  BY <1>3, FS_Subset
<1>5. PICK h : IsSum(f, h, T) /\ SumFunctionOnSet(f, T) = h[T]
  BY <1>4, SumIs
<1>6. g[T] = h[T]
  BY <1>1, <1>4, <1>5, SumUnique
<1> QED
  BY <1>1, <1>2, <1>3, <1>5, <1>6 DEF SumBody

LEMMA SumInt ==
    ASSUME NEW S, IsFiniteSet(S), NEW f, \A x \in S : f[x] \in Int
    PROVE  SumFunctionOnSet(f, S) \in Int
<1> DEFINE B == {s \in SUBSET S : SumFunctionOnSet(f, s) \notin Int}
<1>1. ASSUME B # {} PROVE FALSE
  <2>1. PICK s \in B : \A t \in B : t \subseteq s => t = s
    <3>1. B \subseteq SUBSET S
      OBVIOUS
    <3> HIDE DEF B
    <3> QED
      BY <1>1, <3>1, MinimalSubset
  <2>2. s \subseteq S /\ IsFiniteSet(s)
    BY <2>1, FS_Subset
  <2>3. s # {}
    BY <2>1, <2>2, SumEquation
  <2>4. PICK t : t = s \ {Chosen(s)}
    OBVIOUS
  <2>5. t \subseteq s /\ t # s /\ Chosen(s) \in s
    BY <2>3, <2>4, ChosenIn
  <2>6. SumFunctionOnSet(f, t) \in Int
    BY <2>1, <2>2, <2>5
  <2>7. SumFunctionOnSet(f, s) = f[Chosen(s)] + SumFunctionOnSet(f, t)
    BY <2>2, <2>3, <2>4, SumEquation
  <2> QED
    BY <2>1, <2>2, <2>5, <2>6, <2>7
<1> QED
  BY <1>1

(* The sum depends on the values at the members of the set only. *)
LEMMA SumSame ==
    ASSUME NEW S, IsFiniteSet(S), NEW f, NEW g, \A x \in S : f[x] = g[x]
    PROVE  SumFunctionOnSet(f, S) = SumFunctionOnSet(g, S)
<1> DEFINE B == {s \in SUBSET S : SumFunctionOnSet(f, s) # SumFunctionOnSet(g, s)}
<1>1. ASSUME B # {} PROVE FALSE
  <2>1. PICK s \in B : \A t \in B : t \subseteq s => t = s
    <3>1. B \subseteq SUBSET S
      OBVIOUS
    <3> HIDE DEF B
    <3> QED
      BY <1>1, <3>1, MinimalSubset
  <2>2. s \subseteq S /\ IsFiniteSet(s)
    BY <2>1, FS_Subset
  <2>3. s # {}
    BY <2>1, <2>2, SumEquation
  <2>4. PICK t : t = s \ {Chosen(s)}
    OBVIOUS
  <2>5. t \subseteq s /\ t # s /\ Chosen(s) \in s
    BY <2>3, <2>4, ChosenIn
  <2>6. SumFunctionOnSet(f, t) = SumFunctionOnSet(g, t)
    BY <2>1, <2>2, <2>5
  <2>7. /\ SumFunctionOnSet(f, s) = f[Chosen(s)] + SumFunctionOnSet(f, t)
        /\ SumFunctionOnSet(g, s) = g[Chosen(s)] + SumFunctionOnSet(g, t)
    BY <2>2, <2>3, <2>4, SumEquation
  <2>8. f[Chosen(s)] = g[Chosen(s)]
    BY <2>2, <2>5
  <2> QED
    BY <2>1, <2>6, <2>7, <2>8
<1> QED
  BY <1>1

(* Any member may be taken out of the sum, not only the chosen one. *)
LEMMA SumWithout ==
    ASSUME NEW S, IsFiniteSet(S), NEW f, \A x \in S : f[x] \in Int, NEW x \in S
    PROVE  SumFunctionOnSet(f, S) = f[x] + SumFunctionOnSet(f, S \ {x})
<1> DEFINE Fine(s) == \A m \in s : SumFunctionOnSet(f, s) = f[m] + SumFunctionOnSet(f, s \ {m})
           B == {s \in SUBSET S : ~ Fine(s)}
<1>1. ASSUME B # {} PROVE FALSE
  <2>1. PICK s \in B : \A t \in B : t \subseteq s => t = s
    <3>1. B \subseteq SUBSET S
      OBVIOUS
    <3> HIDE DEF B
    <3> QED
      BY <1>1, <3>1, MinimalSubset
  <2>2. s \subseteq S /\ IsFiniteSet(s)
    BY <2>1, FS_Subset
  <2>3. ASSUME NEW t, t \subseteq s, t # s
        PROVE  Fine(t)
    BY <2>1, <2>2, <2>3
  <2>4. PICK m \in s : SumFunctionOnSet(f, s) # f[m] + SumFunctionOnSet(f, s \ {m})
    BY <2>1
  <2>5. PICK c : c = Chosen(s)
    OBVIOUS
  <2>6. c \in s
    BY <2>4, <2>5, ChosenIn
  <2>7. SumFunctionOnSet(f, s) = f[c] + SumFunctionOnSet(f, s \ {c})
    BY <2>2, <2>4, <2>5, SumEquation
  <2>8. c # m
    BY <2>4, <2>7
  <2>9. PICK r : r = s \ {c, m}
    OBVIOUS
  <2>10. SumFunctionOnSet(f, s \ {c}) = f[m] + SumFunctionOnSet(f, r)
    <3>1. r = (s \ {c}) \ {m} /\ m \in s \ {c}
      BY <2>8, <2>9
    <3>2. Fine(s \ {c})
      BY <2>3, <2>6
    <3> QED
      BY <3>1, <3>2
  <2>11. SumFunctionOnSet(f, s \ {m}) = f[c] + SumFunctionOnSet(f, r)
    <3>1. r = (s \ {m}) \ {c} /\ c \in s \ {m}
      BY <2>6, <2>8, <2>9
    <3>2. Fine(s \ {m})
      BY <2>3
    <3> QED
      BY <3>1, <3>2
  <2>12. f[c] \in Int /\ f[m] \in Int /\ SumFunctionOnSet(f, r) \in Int
    <3>1. r \subseteq S /\ IsFiniteSet(r)
      BY <2>2, <2>9, FS_Subset
    <3> QED
      BY <2>2, <2>6, <3>1, SumInt
  <2> QED
    BY <2>4, <2>7, <2>10, <2>11, <2>12
<1>2. Fine(S)
  BY <1>1
<1> QED
  BY <1>2
(* The sum of a function over its whole domain, one member added or gone. *)
LEMMA SumRemoved ==
    ASSUME NEW f, NEW g, IsFiniteSet(DOMAIN f), NEW s \in DOMAIN f,
           DOMAIN g = DOMAIN f \ {s},
           \A x \in DOMAIN f : f[x] \in Int,
           \A x \in DOMAIN g : g[x] = f[x]
    PROVE  /\ SumFunction(f) \in Int /\ SumFunction(g) \in Int
           /\ SumFunction(f) = f[s] + SumFunction(g)
<1>1. IsFiniteSet(DOMAIN g)
  BY FS_Subset
<1>2. SumFunctionOnSet(g, DOMAIN g) = SumFunctionOnSet(f, DOMAIN g)
  BY <1>1, SumSame
<1>3. SumFunctionOnSet(f, DOMAIN f) = f[s] + SumFunctionOnSet(f, DOMAIN f \ {s})
  BY SumWithout
<1>4. SumFunctionOnSet(f, DOMAIN f) \in Int /\ SumFunctionOnSet(g, DOMAIN g) \in Int
  BY <1>1, SumInt
<1> QED
  BY <1>2, <1>3, <1>4 DEF SumFunction

--------------------------------------------------------------------------------
(* Arithmetic of money.                                                     *)

LEMMA WorthFacts ==
    ASSUME NEW a \in Int, NEW p \in Int
    PROVE  /\ Worth(a, p) = 10000 * (a * p)
           /\ Worth(a, p) \in Int
           /\ Fee(Worth(a, p)) = 4 * (a * p)
<1>1. PICK x \in Int : x = a * p
  OBVIOUS
<1>2. Usdt \div Coin = 10000
  BY DEF Usdt, Coin
<1>3. Worth(a, p) = x * 10000
  BY <1>1, <1>2 DEF Worth
<1>4. Fee(x * 10000) = 4 * x
  BY DEF Fee
<1> QED
  BY <1>1, <1>3, <1>4

LEMMA WorthInt ==
    ASSUME NEW a \in Int, NEW p \in Int
    PROVE  Worth(a, p) \in Int
BY WorthFacts

LEMMA ProductOrder ==
    ASSUME NEW a \in Nat, NEW x \in Int, NEW y \in Int, x <= y
    PROVE  a * x \in Int /\ a * y \in Int /\ a * x <= a * y
OBVIOUS

(* Whole division. *)
LEMMA QuotientFacts ==
    ASSUME NEW a \in Nat, NEW d \in Nat \ {0}
    PROVE  a \div d \in Nat /\ (d <= a => a \div d > 0)
OBVIOUS

--------------------------------------------------------------------------------
(* The shape of a wallet: its fields, and those of its positions.           *)

WalletFields == {"balance", "positions", "marks", "funding", "interest"}

PositionFields == {"side", "amount", "entry", "leverage", "margin", "notional",
                   "liquidation", "value", "pnl"}

Shaped(w) ==
    /\ DOMAIN w = WalletFields
    /\ \A s \in DOMAIN w.positions : DOMAIN w.positions[s] = PositionFields

(* Every position with a valid mark is valued at it. *)
Fresh(w) ==
    \A s \in DOMAIN w.positions : MarkValid(w, s) =>
        /\ w.positions[s].value = Worth(w.positions[s].amount, w.marks[s])
        /\ w.positions[s].pnl = Pnl(w.positions[s], w.marks[s])

(* update_context leaves positions and what was applied alone; a symbol     *)
(* whose funding is new starts with nothing applied.                        *)
LEMMA UpdateContextFacts ==
    ASSUME NEW w, Shaped(w), NEW t \in Int, NEW evt \in ContextEvents(t)
    PROVE  LET u == UpdateContext(w, evt) IN
           /\ Shaped(u)
           /\ u.positions = w.positions
           /\ DOMAIN u.funding \subseteq DOMAIN w.funding \union {evt.symbol}
           /\ DOMAIN w.funding \subseteq DOMAIN u.funding
           /\ \A s \in DOMAIN u.funding :
                \/ s \in DOMAIN w.funding /\ u.funding[s] = w.funding[s]
                \/ /\ u.funding[s] \in [rate : Rates, next : Int,
                         applied : {IF s \in DOMAIN w.funding THEN w.funding[s].applied ELSE 0}]
<1> DEFINE u == UpdateContext(w, evt)
           s0 == evt.symbol
<1>1. /\ DOMAIN u = WalletFields
      /\ u.positions = w.positions
      /\ u.funding = IF evt.funding = {} THEN w.funding
                     ELSE Put(w.funding, s0,
                              FundingUpdated(w, s0, CHOOSE f \in evt.funding : TRUE))
  BY DEF UpdateContext, Shaped, WalletFields
<1>2. NextFundingTime(t) \in Int
  BY FundingPeriodAssumption DEF NextFundingTime
<1>3. \/ evt.funding = {}
      \/ \E f \in [rate : Rates, next : Int] : evt.funding = {f}
  BY <1>2 DEF ContextEvents, Options
<1>4. CASE evt.funding = {}
  BY <1>1, <1>4 DEF Shaped
<1>5. ASSUME NEW f \in [rate : Rates, next : Int], evt.funding = {f} PROVE
           /\ DOMAIN u.funding = DOMAIN w.funding \union {s0}
           /\ \A s \in DOMAIN u.funding :
                \/ s \in DOMAIN w.funding /\ u.funding[s] = w.funding[s]
                \/ /\ u.funding[s] \in [rate : Rates, next : Int,
                         applied : {IF s \in DOMAIN w.funding THEN w.funding[s].applied ELSE 0}]
  <2>1. u.funding = Put(w.funding, s0, FundingUpdated(w, s0, f))
    BY <1>1, <1>5
  <2>2. FundingUpdated(w, s0, f) \in [rate : Rates, next : Int,
            applied : {IF s0 \in DOMAIN w.funding THEN w.funding[s0].applied ELSE 0}]
    BY DEF FundingUpdated
  <2> HIDE DEF u, s0
  <2> QED
    BY <2>1, <2>2 DEF Put
<1> QED
  BY <1>1, <1>3, <1>4, <1>5 DEF Shaped

(* update_pnl makes every valuation fresh and touches nothing else. *)
LEMMA UpdatePnlFacts ==
    ASSUME NEW w, Shaped(w)
    PROVE  LET u == UpdatePnl(w) IN
           /\ Shaped(u)
           /\ Fresh(u)
           /\ u.funding = w.funding
           /\ DOMAIN u.positions = DOMAIN w.positions
<1> DEFINE u == UpdatePnl(w)
<1>1. /\ DOMAIN u = WalletFields
      /\ u.funding = w.funding
      /\ u.marks = w.marks
      /\ u.positions = [s \in DOMAIN w.positions |->
            IF MarkValid(w, s) THEN Revalued(w.positions[s], w.marks[s])
                               ELSE w.positions[s]]
  BY DEF UpdatePnl, Shaped, WalletFields
<1> HIDE DEF u
<1>2. ASSUME NEW s \in DOMAIN w.positions
      PROVE  LET p == w.positions[s]
                 r == Revalued(p, w.marks[s]) IN
             /\ DOMAIN r = PositionFields
             /\ r.value = Worth(r.amount, w.marks[s])
             /\ r.pnl = Pnl(r, w.marks[s])
  <2>1. DOMAIN w.positions[s] = PositionFields
    BY DEF Shaped
  <2> QED
    BY <2>1 DEF Revalued, Pnl, PositionFields
<1>3. Shaped(u)
  BY <1>1, <1>2 DEF Shaped
<1>4. Fresh(u)
  BY <1>1, <1>2 DEF Fresh, MarkValid
<1> QED
  BY <1>1, <1>3, <1>4 DEF u

(* apply_funding_if_due keeps positions and marks, and remembers the        *)
(* timestamp of what it charged.                                            *)
LEMMA ApplyFundingFacts ==
    ASSUME NEW w, Shaped(w), NEW time
    PROVE  LET u == ApplyFundingIfDue(w, time) IN
           /\ Shaped(u)
           /\ u.positions = w.positions
           /\ u.marks = w.marks
           /\ u.funding = [s \in DOMAIN w.funding |->
                [w.funding[s] EXCEPT !.applied =
                    IF s \in FundingDue(w, time) THEN w.funding[s].next ELSE @]]
  BY DEF ApplyFundingIfDue, Shaped, WalletFields

(* Opening and closing touch balance and positions only. *)
LEMMA OpenAtFacts ==
    ASSUME NEW w, Shaped(w), NEW s, NEW side, NEW exec, NEW margin, NEW lev
    PROVE  LET u == OpenAt(w, s, side, exec, margin, lev) IN
           Shaped(u) /\ u.funding = w.funding
<1> DEFINE u == OpenAt(w, s, side, exec, margin, lev)
           pos == NewPosition(side, exec, margin, lev)
<1>1. u = [w EXCEPT !.balance = @ - (margin * Usdt + Fee(margin * lev * Usdt)),
                    !.positions = Put(@, s, pos)]
  BY DEF OpenAt
<1>0. DOMAIN pos = PositionFields
  BY DEF NewPosition, PositionFields
<1> HIDE DEF pos
<1> HIDE DEF u
<1>2. /\ DOMAIN u = WalletFields
      /\ u.funding = w.funding
      /\ u.positions = Put(w.positions, s, pos)
  BY <1>1 DEF Shaped, WalletFields
<1>3. \A x \in DOMAIN u.positions : DOMAIN u.positions[x] = PositionFields
  BY <1>0, <1>2 DEF Put, Shaped
<1> QED
  BY <1>2, <1>3 DEF Shaped, u

(* Opening a long leaves the funding state alone, executed or skipped. *)
LEMMA OpenLongFacts ==
    ASSUME NEW w, Shaped(w), NEW s, NEW price, NEW margin, NEW lev, NEW slip
    PROVE  LET u == ExecuteOpenLong(w, s, price, margin, lev, slip) IN
           Shaped(u) /\ u.funding = w.funding
<1> DEFINE u == ExecuteOpenLong(w, s, price, margin, lev, slip)
           opened == OpenAt(w, s, "long", ExecReferencePrice(w, s, price) + slip,
                            margin, AtLeastOne(lev))
<1>1. u = w \/ u = UpdatePnl(opened) \/ u = opened
  BY DEF ExecuteOpenLong
<1>2. Shaped(opened) /\ opened.funding = w.funding
  BY OpenAtFacts
<1> HIDE DEF u, opened
<1>3. Shaped(UpdatePnl(opened)) /\ UpdatePnl(opened).funding = w.funding
  BY <1>2, UpdatePnlFacts
<1>4. Shaped(u) /\ u.funding = w.funding
  BY <1>1, <1>2, <1>3
<1> QED
  BY <1>4 DEF u

(* Opening a short leaves the funding state alone, executed or skipped. *)
LEMMA OpenShortFacts ==
    ASSUME NEW w, Shaped(w), NEW s, NEW price, NEW margin, NEW lev, NEW slip
    PROVE  LET u == ExecuteOpenShort(w, s, price, margin, lev, slip) IN
           Shaped(u) /\ u.funding = w.funding
<1> DEFINE u == ExecuteOpenShort(w, s, price, margin, lev, slip)
           opened == OpenAt(w, s, "short", ExecReferencePrice(w, s, price) - slip,
                            margin, AtLeastOne(lev))
<1>1. u = w \/ u = UpdatePnl(opened)
  BY DEF ExecuteOpenShort
<1>2. Shaped(opened) /\ opened.funding = w.funding
  BY OpenAtFacts
<1> HIDE DEF u, opened
<1>3. Shaped(UpdatePnl(opened)) /\ UpdatePnl(opened).funding = w.funding
  BY <1>2, UpdatePnlFacts
<1>4. Shaped(u) /\ u.funding = w.funding
  BY <1>1, <1>3
<1> QED
  BY <1>4 DEF u

(* Closing leaves the funding state alone: it survives the position. *)
LEMMA CloseFacts ==
    ASSUME NEW w, Shaped(w), NEW s, NEW price, NEW slip
    PROVE  LET u == ExecuteClose(w, s, price, slip) IN
           Shaped(u) /\ u.funding = w.funding
<1> DEFINE u == ExecuteClose(w, s, price, slip)
<1>1. \/ u = w
      \/ \E b : u = [w EXCEPT !.positions = Remove(@, s), !.balance = b]
  BY DEF ExecuteClose
<1> HIDE DEF u
<1>2. ASSUME NEW b, u = [w EXCEPT !.positions = Remove(@, s), !.balance = b]
      PROVE  Shaped(u) /\ u.funding = w.funding
  <2>1. /\ DOMAIN u = WalletFields
        /\ u.funding = w.funding
        /\ u.positions = Remove(w.positions, s)
    BY <1>2 DEF Shaped, WalletFields
  <2> QED
    BY <2>1 DEF Remove, Shaped
<1> QED
  BY <1>1, <1>2 DEF u

(* Whatever the strategy answers, the listener leaves funding alone and the *)
(* positions valued at the marks.                                           *)
LEMMA ExecutedFacts ==
    ASSUME NEW w, Shaped(w), Fresh(w), NEW s, NEW price, NEW action, NEW slip
    PROVE  LET u == Executed(w, s, price, action, slip) IN
           Shaped(u) /\ Fresh(u) /\ u.funding = w.funding
<1> DEFINE u == Executed(w, s, price, action, slip)
           l == ExecuteOpenLong(w, s, price, action.margin, action.lev, slip)
           h == ExecuteOpenShort(w, s, price, action.margin, action.lev, slip)
           c == ExecuteClose(w, s, price, slip)
<1>1. u \in {UpdatePnl(l), UpdatePnl(h), UpdatePnl(c), w}
  BY DEF Executed
<1>2. /\ Shaped(l) /\ l.funding = w.funding
      /\ Shaped(h) /\ h.funding = w.funding
      /\ Shaped(c) /\ c.funding = w.funding
  BY OpenLongFacts, OpenShortFacts, CloseFacts
<1> HIDE DEF u, l, h, c
<1>3. \A x : Shaped(x) => /\ Shaped(UpdatePnl(x))
                          /\ Fresh(UpdatePnl(x))
                          /\ UpdatePnl(x).funding = x.funding
  BY UpdatePnlFacts
<1>4. Shaped(u) /\ Fresh(u) /\ u.funding = w.funding
  BY <1>1, <1>2, <1>3
<1> QED
  BY <1>4 DEF u

--------------------------------------------------------------------------------
(* The inductive invariant.                                                 *)

FundingTyped ==
    /\ now \in Int
    /\ DOMAIN wallet.funding \subseteq Symbols
    /\ \A s \in DOMAIN wallet.funding :
         wallet.funding[s] \in [rate : Rates, next : Int, applied : Int]
    /\ charges \in [Symbols -> Seq(Int)]
    /\ \A s \in Symbols \ DOMAIN wallet.funding : charges[s] = <<>>

(* What the wallet was applied last is at least every timestamp charged, so *)
(* a timestamp that is due is later than all of them.                       *)
BrokerInv == Shaped(wallet) /\ Fresh(wallet) /\ FundingTyped /\ FundingAtMostOnce

(* The new wallet has no position, no funding state and no charge. *)
LEMMA BrokerInit == Init => BrokerInv
<1> SUFFICES ASSUME Init PROVE BrokerInv
  OBVIOUS
<1>1. /\ wallet = NewWallet
      /\ DOMAIN NewWallet = WalletFields
      /\ DOMAIN NewWallet.positions = {} /\ DOMAIN NewWallet.funding = {}
  BY DEF Init, NewWallet, EmptyMap, WalletFields
<1>2. \A s \in Symbols : charges[s] = <<>>
  BY DEF Init
<1>3. Shaped(wallet) /\ Fresh(wallet)
  BY <1>1 DEF Shaped, Fresh
<1>4. FundingTyped
  <2>1. <<>> \in Seq(Int)
    OBVIOUS
  <2> QED
    BY <1>1, <1>2, <2>1 DEF Init, FundingTyped
<1>5. FundingAtMostOnce
  BY <1>2 DEF FundingAtMostOnce
<1> QED
  BY <1>3, <1>4, <1>5 DEF BrokerInv

(* A charge appended to a symbol is later than all charges before it. *)
LEMMA AppendCharge ==
    ASSUME NEW c \in Seq(Int), NEW applied \in Int, NEW x \in Int,
           \A i, j \in DOMAIN c : i < j => c[i] < c[j],
           \A i \in DOMAIN c : c[i] <= applied,
           applied < x
    PROVE  /\ Append(c, x) \in Seq(Int)
           /\ \A i, j \in DOMAIN Append(c, x) :
                 i < j => Append(c, x)[i] < Append(c, x)[j]
           /\ \A i \in DOMAIN Append(c, x) : Append(c, x)[i] <= x
<1> DEFINE d == Append(c, x)
<1>1. /\ d \in Seq(Int)
      /\ Len(c) \in Nat
      /\ DOMAIN c = 1..Len(c)
      /\ DOMAIN d = 1..(Len(c) + 1)
      /\ \A i \in 1..Len(c) : d[i] = c[i]
      /\ d[Len(c) + 1] = x
  OBVIOUS
<1>2. x \in Int /\ \A i \in 1..Len(c) : c[i] \in Int
  OBVIOUS
<1> HIDE DEF d
<1>3. ASSUME NEW i \in DOMAIN d PROVE d[i] <= x /\ (i <= Len(c) => d[i] < x)
  BY <1>1, <1>2, <1>3
<1>4. ASSUME NEW i \in DOMAIN d, NEW j \in DOMAIN d, i < j PROVE d[i] < d[j]
  <2>1. CASE j = Len(c) + 1
    BY <1>1, <1>3, <1>4, <2>1
  <2>2. CASE j # Len(c) + 1
    <3>1. i \in 1..Len(c) /\ j \in 1..Len(c)
      BY ONLY <1>1, <1>4, <2>2
    <3>2. c[i] < c[j] /\ d[i] = c[i] /\ d[j] = c[j]
      BY <1>1, <1>4, <3>1
    <3> QED
      BY <3>2
  <2> QED
    BY <2>1, <2>2
<1> QED
  BY <1>1, <1>3, <1>4 DEF d

(* Every step keeps the invariant: only a context event charges funding,    *)
(* and only what is later than the timestamp applied last.                  *)
LEMMA BrokerStep == BrokerInv /\ [Next]_vars => BrokerInv'
<1> SUFFICES ASSUME BrokerInv, [Next]_vars PROVE BrokerInv'
  OBVIOUS
<1>0. Shaped(wallet) /\ Fresh(wallet) /\ FundingTyped /\ FundingAtMostOnce
  BY DEF BrokerInv
<1>1. CASE UNCHANGED vars
  BY <1>0, <1>1 DEF vars, BrokerInv, FundingTyped, FundingAtMostOnce, Fresh, Shaped, MarkValid
<1>2. CASE Subscribe \/ StreamEnded \/ Advance
  <2>1. /\ UNCHANGED <<wallet, charges>>
        /\ now' \in Int
    BY <1>0, <1>2 DEF Subscribe, StreamEnded, Advance, FundingTyped
  <2> QED
    BY <1>0, <2>1 DEF BrokerInv, FundingTyped, FundingAtMostOnce, Fresh, Shaped, MarkValid
<1>3. ASSUME NEW s \in Symbols, NEW price \in Prices, NEW slip \in 0..MaxSlip,
             NEW action \in Evaluate(wallet, s, price), RawEvent(s, price, action, slip)
      PROVE  BrokerInv'
  <2>1. /\ wallet' = Executed(wallet, s, price, action, slip)
        /\ UNCHANGED <<now, charges>>
    BY <1>3 DEF RawEvent
  <2>2. Shaped(wallet') /\ Fresh(wallet') /\ wallet'.funding = wallet.funding
    BY <1>0, <2>1, ExecutedFacts
  <2>4. FundingTyped' /\ FundingAtMostOnce'
    BY <1>0, <2>1, <2>2 DEF FundingTyped, FundingAtMostOnce
  <2> QED
    BY <2>2, <2>4 DEF BrokerInv, Shaped, Fresh, MarkValid
<1>4. ASSUME NEW t \in 0..now, NEW skew \in Skews,
             NEW evt \in ContextEvents(t), ContextEvent(t, evt, skew)
      PROVE  BrokerInv'
  <2> DEFINE u == UpdateContext(wallet, evt)
             w == UpdatePnl(u)
             clock == now + skew
  <2>1. /\ wallet' = ApplyFundingIfDue(w, clock)
        /\ charges' = ChargesAfter(w, clock)
        /\ UNCHANGED now
    BY <1>4 DEF ContextEvent
  <2>2. t \in Int /\ evt.symbol \in Symbols
    BY DEF ContextEvents
  <2>3. /\ Shaped(u)
        /\ DOMAIN u.funding \subseteq DOMAIN wallet.funding \union {evt.symbol}
        /\ DOMAIN wallet.funding \subseteq DOMAIN u.funding
        /\ \A s \in DOMAIN u.funding :
             \/ s \in DOMAIN wallet.funding /\ u.funding[s] = wallet.funding[s]
             \/ u.funding[s] \in [rate : Rates, next : Int,
                   applied : {IF s \in DOMAIN wallet.funding
                              THEN wallet.funding[s].applied ELSE 0}]
    BY <1>0, <2>2, UpdateContextFacts
  <2> HIDE DEF u
  <2>4. Shaped(w) /\ Fresh(w) /\ w.funding = u.funding
    BY <2>3, UpdatePnlFacts
  <2>5. /\ Shaped(wallet')
        /\ wallet'.positions = w.positions
        /\ wallet'.marks = w.marks
        /\ wallet'.funding = [s \in DOMAIN u.funding |->
              [u.funding[s] EXCEPT !.applied =
                  IF s \in FundingDue(w, clock) THEN u.funding[s].next ELSE @]]
    BY <2>1, <2>4, ApplyFundingFacts
  <2>6. Fresh(wallet')
    BY <2>4, <2>5 DEF Fresh, MarkValid
  <2>7. /\ DOMAIN u.funding \subseteq Symbols
        /\ \A s \in DOMAIN u.funding :
             /\ u.funding[s] \in [rate : Rates, next : Int, applied : Int]
             /\ s \in DOMAIN wallet.funding => u.funding[s].applied = wallet.funding[s].applied
    BY <1>0, <2>2, <2>3 DEF FundingTyped
  <2>8. /\ DOMAIN wallet'.funding = DOMAIN u.funding
        /\ \A s \in DOMAIN u.funding :
             /\ wallet'.funding[s] \in [rate : Rates, next : Int, applied : Int]
             /\ wallet'.funding[s].applied =
                  IF s \in FundingDue(w, clock) THEN u.funding[s].next ELSE u.funding[s].applied
    BY <2>5, <2>7
  <2>9. \A s \in FundingDue(w, clock) :
           /\ s \in DOMAIN u.funding
           /\ u.funding[s].applied < u.funding[s].next
           /\ w.funding[s].next = u.funding[s].next
    BY <2>4 DEF FundingDue
  <2> HIDE DEF w
  <2>10. ASSUME NEW s \in Symbols
         PROVE  /\ charges'[s] \in Seq(Int)
                /\ s \notin DOMAIN u.funding => charges'[s] = <<>>
                /\ \A i, j \in DOMAIN charges'[s] : i < j => charges'[s][i] < charges'[s][j]
                /\ \A i \in DOMAIN charges'[s] : charges'[s][i] <= wallet'.funding[s].applied
    <3>1. charges[s] \in Seq(Int)
      BY <1>0 DEF FundingTyped
    <3>2. /\ \A i, j \in DOMAIN charges[s] : i < j => charges[s][i] < charges[s][j]
          /\ \A i \in DOMAIN charges[s] : charges[s][i] <= wallet.funding[s].applied
          /\ s \notin DOMAIN wallet.funding => charges[s] = <<>>
      BY <1>0 DEF FundingAtMostOnce, FundingTyped
    <3>3. s \in DOMAIN u.funding =>
             \A i \in DOMAIN charges[s] : charges[s][i] <= u.funding[s].applied
      BY <2>7, <3>2
    <3>4. CASE s \in FundingDue(w, clock)
      <4> DEFINE x == u.funding[s].next
      <4>1. charges'[s] = Append(charges[s], x)
        BY <2>1, <2>9, <3>4 DEF ChargesAfter
      <4>2. x \in Int /\ x = u.funding[s].next
        BY <2>7, <2>9, <3>4
      <4>3. wallet'.funding[s].applied = u.funding[s].next /\ s \in DOMAIN u.funding
        BY <2>8, <2>9, <3>4
      <4>4. u.funding[s].applied \in Int /\ u.funding[s].applied < x
        BY <2>7, <2>9, <3>4, <4>3
      <4> DEFINE c == charges[s]
                 applied == u.funding[s].applied
      <4>5. /\ c \in Seq(Int) /\ applied \in Int /\ x \in Int /\ applied < x
            /\ \A i, j \in DOMAIN c : i < j => c[i] < c[j]
            /\ \A i \in DOMAIN c : c[i] <= applied
        BY <3>1, <3>2, <3>3, <4>2, <4>3, <4>4
      <4>6. charges'[s] = Append(c, x)
        BY <4>1
      <4> HIDE DEF x, c, applied
      <4>7. /\ charges'[s] \in Seq(Int)
            /\ \A i, j \in DOMAIN charges'[s] : i < j => charges'[s][i] < charges'[s][j]
            /\ \A i \in DOMAIN charges'[s] : charges'[s][i] <= x
        BY ONLY <4>5, <4>6, AppendCharge
      <4>8. wallet'.funding[s].applied = x
        BY ONLY <4>2, <4>3
      <4>9. \A i \in DOMAIN charges'[s] : charges'[s][i] <= wallet'.funding[s].applied
        BY ONLY <4>7, <4>8
      <4> QED
        BY ONLY <4>3, <4>7, <4>9
    <3>5. CASE s \notin FundingDue(w, clock)
      <4>1. charges'[s] = charges[s]
        BY <2>1, <3>5 DEF ChargesAfter
      <4>2. CASE s \in DOMAIN u.funding
        BY <2>8, <3>1, <3>2, <3>3, <3>5, <4>1, <4>2
      <4>3. CASE s \notin DOMAIN u.funding
        BY <2>3, <3>1, <3>2, <4>1, <4>3
      <4> QED
        BY <4>2, <4>3
    <3> QED
      BY <3>4, <3>5
  <2>11. charges' = [s \in Symbols |-> charges'[s]]
    BY <2>1 DEF ChargesAfter
  <2>12. charges' \in [Symbols -> Seq(Int)]
    BY <2>10, <2>11
  <2>13. FundingTyped'
    BY <1>0, <2>1, <2>2, <2>7, <2>8, <2>10, <2>12 DEF FundingTyped
  <2>14. FundingAtMostOnce'
    BY <2>10 DEF FundingAtMostOnce
  <2> QED
    BY <2>5, <2>6, <2>13, <2>14 DEF BrokerInv, Shaped, Fresh, MarkValid
<1> QED
  BY <1>1, <1>2, <1>3, <1>4 DEF Next

(* Funding is applied at most once per funding timestamp and symbol: no     *)
(* order of context events, late or repeated, and no reconnect or reopening *)
(* charges a timestamp twice.                                               *)
THEOREM FundingAtMostOnceCorrect == Spec => []FundingAtMostOnce
<1>1. BrokerInv => FundingAtMostOnce
  BY DEF BrokerInv
<1> QED
  BY <1>1, BrokerInit, BrokerStep, PTL DEF Spec

(* Whenever the listener waits for a message, every position with a valid   *)
(* mark price is valued at it, whatever the strategy does.                  *)
THEOREM ValuationFreshCorrect == Spec => []ValuationFresh
<1>1. BrokerInv => ValuationFresh
  BY DEF BrokerInv, Fresh, ValuationFresh, Held
<1> QED
  BY <1>1, BrokerInit, BrokerStep, PTL DEF Spec
--------------------------------------------------------------------------------
(* Types.                                                                   *)

(* A wallet as the handlers leave it: besides the types, the positions are  *)
(* finitely many and none of them is empty.                                 *)
WalletOK(w) ==
    /\ Shaped(w)
    /\ w.balance \in Int
    /\ IsFiniteSet(DOMAIN w.positions)
    /\ DOMAIN w.positions \subseteq Symbols
    /\ \A s \in DOMAIN w.positions : w.positions[s] \in Positions /\ w.positions[s].amount > 0
    /\ DOMAIN w.marks \subseteq Symbols
    /\ \A s \in DOMAIN w.marks : w.marks[s] \in Marks
    /\ DOMAIN w.interest \subseteq Symbols
    /\ DOMAIN w.funding \subseteq Symbols
    /\ \A s \in DOMAIN w.funding :
         w.funding[s] \in [rate : Rates, next : Nat, applied : Nat]

TypeInv == TypeOK /\ WalletOK(wallet) /\ FundingTyped

(* What a strategy may answer. *)
Actions ==
    {Hold, Close} \union {Long(100, lev) : lev \in 0..2}
                  \union {Short(100, lev) : lev \in 0..2}

LEMMA EvaluateFacts ==
    ASSUME NEW w, NEW s, NEW price
    PROVE  Evaluate(w, s, price) \subseteq Actions
BY DEF Evaluate, TrendFollow, PingPong, AnyStrategy, Actions

LEMMA NextFundingFacts ==
    ASSUME NEW t \in Nat
    PROVE  NextFundingTime(t) \in Nat
<1>1. t \div FundingPeriod \in Nat
  BY QuotientFacts, FundingPeriodAssumption
<1>2. PICK n \in Nat : n = (t \div FundingPeriod) + 1
  BY <1>1
<1>3. n * FundingPeriod \in Nat
  BY <1>2, FundingPeriodAssumption
<1> QED
  BY <1>2, <1>3 DEF NextFundingTime

LEMMA PnlType ==
    ASSUME NEW pos \in Positions, NEW price \in Int
    PROVE  Pnl(pos, price) \in Int
<1>1. pos.amount \in Int /\ price - pos.entry \in Int /\ pos.entry - price \in Int
  BY DEF Positions
<1>2. /\ Worth(pos.amount, price - pos.entry) \in Int
      /\ Worth(pos.amount, pos.entry - price) \in Int
  BY <1>1, WorthInt
<1> QED
  BY <1>2 DEF Pnl

LEMMA UpdateContextType ==
    ASSUME NEW w, WalletOK(w), NEW t \in Nat, NEW evt \in ContextEvents(t)
    PROVE  WalletOK(UpdateContext(w, evt))
<1> DEFINE u == UpdateContext(w, evt)
           s0 == evt.symbol
<1>1. /\ Shaped(u)
      /\ u.positions = w.positions
      /\ DOMAIN u.funding \subseteq DOMAIN w.funding \union {s0}
      /\ \A s \in DOMAIN u.funding :
           \/ s \in DOMAIN w.funding /\ u.funding[s] = w.funding[s]
           \/ u.funding[s] \in [rate : Rates, next : Int,
                 applied : {IF s \in DOMAIN w.funding THEN w.funding[s].applied ELSE 0}]
  BY UpdateContextFacts DEF WalletOK
<1>2. s0 \in Symbols
  BY DEF ContextEvents
<1>3. /\ u.balance = w.balance
      /\ u.marks = IF evt.mark = {} THEN w.marks
                   ELSE Put(w.marks, s0, CHOOSE m \in evt.mark : TRUE)
      /\ u.interest = IF evt.interest = {} THEN w.interest
                      ELSE Put(w.interest, s0, CHOOSE i \in evt.interest : TRUE)
      /\ u.funding = IF evt.funding = {} THEN w.funding
                     ELSE Put(w.funding, s0,
                              FundingUpdated(w, s0, CHOOSE f \in evt.funding : TRUE))
  BY DEF UpdateContext, WalletOK, Shaped, WalletFields
<1>4. /\ evt.mark = {} \/ \E m \in Marks : evt.mark = {m}
      /\ evt.funding = {} \/ \E f \in [rate : Rates, next : {NextFundingTime(t)}] : evt.funding = {f}
  BY DEF ContextEvents, Options
<1> HIDE DEF u, s0
<1>5. DOMAIN u.marks \subseteq Symbols /\ \A s \in DOMAIN u.marks : u.marks[s] \in Marks
  <2>1. CASE evt.mark = {}
    BY <1>3, <2>1 DEF WalletOK
  <2>2. ASSUME NEW m \in Marks, evt.mark = {m}
        PROVE  DOMAIN u.marks \subseteq Symbols /\ \A s \in DOMAIN u.marks : u.marks[s] \in Marks
    <3>1. u.marks = Put(w.marks, s0, m)
      BY <1>3, <2>2
    <3> QED
      BY <1>2, <3>1 DEF Put, WalletOK
  <2> QED
    BY <1>4, <2>1, <2>2
<1>6. DOMAIN u.interest \subseteq Symbols
  BY <1>2, <1>3 DEF Put, WalletOK
<1>7. /\ DOMAIN u.funding \subseteq Symbols
      /\ \A s \in DOMAIN u.funding :
           u.funding[s] \in [rate : Rates, next : Nat, applied : Nat]
  <2>1. CASE evt.funding = {}
    BY <1>3, <2>1 DEF WalletOK
  <2>2. ASSUME NEW f \in [rate : Rates, next : {NextFundingTime(t)}], evt.funding = {f}
        PROVE  \A s \in DOMAIN u.funding :
                 u.funding[s] \in [rate : Rates, next : Nat, applied : Nat]
    <3>1. u.funding = Put(w.funding, s0, FundingUpdated(w, s0, f))
      BY <1>3, <2>2
    <3>2. f.rate \in Rates /\ f.next \in Nat
      BY <2>2, NextFundingFacts
    <3>3. FundingUpdated(w, s0, f) \in [rate : Rates, next : Nat, applied : Nat]
      BY <3>2 DEF FundingUpdated, WalletOK
    <3> QED
      BY <3>1, <3>3 DEF Put, WalletOK
  <2> QED
    BY <1>1, <1>2, <1>4, <2>1, <2>2 DEF WalletOK
<1>8. WalletOK(u)
  BY <1>1, <1>3, <1>5, <1>6, <1>7 DEF WalletOK
<1> QED
  BY <1>8 DEF u

LEMMA UpdatePnlType ==
    ASSUME NEW w, WalletOK(w)
    PROVE  /\ WalletOK(UpdatePnl(w))
           /\ UpdatePnl(w).balance = w.balance
           /\ UpdatePnl(w).marks = w.marks
           /\ DOMAIN UpdatePnl(w).positions = DOMAIN w.positions
           /\ \A s \in DOMAIN w.positions :
                LET p == w.positions[s]
                    q == UpdatePnl(w).positions[s] IN
                /\ q.side = p.side /\ q.amount = p.amount /\ q.entry = p.entry
                /\ q.margin = p.margin /\ q.notional = p.notional
<1> DEFINE u == UpdatePnl(w)
<1>1. Shaped(u) /\ u.funding = w.funding /\ DOMAIN u.positions = DOMAIN w.positions
  BY UpdatePnlFacts DEF WalletOK
<1>2. /\ u.balance = w.balance
      /\ u.marks = w.marks
      /\ u.interest = w.interest
      /\ u.positions = [s \in DOMAIN w.positions |->
            IF MarkValid(w, s) THEN Revalued(w.positions[s], w.marks[s])
                               ELSE w.positions[s]]
  BY DEF UpdatePnl, WalletOK, Shaped, WalletFields
<1> HIDE DEF u
<1>3. ASSUME NEW s \in DOMAIN w.positions
      PROVE  LET p == w.positions[s]
                 q == u.positions[s] IN
             /\ q.side = p.side /\ q.amount = p.amount /\ q.entry = p.entry
             /\ q.margin = p.margin /\ q.notional = p.notional
             /\ q \in Positions
  <2>1. PICK p : p = w.positions[s]
    OBVIOUS
  <2>2. p \in Positions
    BY <2>1 DEF WalletOK
  <2>3. CASE MarkValid(w, s)
    <3>1. PICK mark : mark = w.marks[s]
      OBVIOUS
    <3>2. mark \in Int
      BY <2>3, <3>1, MarketAssumption DEF WalletOK, MarkValid
    <3>3. u.positions[s] = [p EXCEPT !.value = Worth(p.amount, mark), !.pnl = Pnl(p, mark)]
      BY <1>2, <2>1, <2>3, <3>1 DEF Revalued
    <3>4. Worth(p.amount, mark) \in Int /\ Pnl(p, mark) \in Int
      <4>1. p.amount \in Int
        BY <2>2 DEF Positions
      <4> QED
        BY <2>2, <3>2, <4>1, WorthInt, PnlType
    <3> QED
      BY <2>1, <2>2, <3>3, <3>4 DEF Positions
  <2>4. CASE ~ MarkValid(w, s)
    BY <1>2, <2>1, <2>2, <2>4
  <2> QED
    BY <2>3, <2>4
<1>4. WalletOK(u)
  BY <1>1, <1>2, <1>3 DEF WalletOK
<1> QED
  BY <1>1, <1>2, <1>3, <1>4 DEF u

LEMMA ApplyFundingType ==
    ASSUME NEW w, WalletOK(w), NEW time \in Int
    PROVE  WalletOK(ApplyFundingIfDue(w, time))
<1> DEFINE u == ApplyFundingIfDue(w, time)
           due == FundingDue(w, time)
           fees == [s \in due |-> FundingFee(w.positions[s].notional, w.funding[s].rate)]
<1>1. /\ Shaped(u)
      /\ u.positions = w.positions
      /\ u.marks = w.marks
      /\ u.funding = [s \in DOMAIN w.funding |->
           [w.funding[s] EXCEPT !.applied =
               IF s \in FundingDue(w, time) THEN w.funding[s].next ELSE @]]
  BY ApplyFundingFacts DEF WalletOK
<1>2. u.balance = w.balance - SumFunction(fees) /\ u.interest = w.interest
  BY DEF ApplyFundingIfDue, WalletOK, Shaped, WalletFields
<1> HIDE DEF u
<1>3. due \subseteq DOMAIN w.positions /\ due \subseteq DOMAIN w.funding
  BY DEF FundingDue
<1>4. IsFiniteSet(due)
  BY <1>3, FS_Subset DEF WalletOK
<1>5. ASSUME NEW s \in due
      PROVE  FundingFee(w.positions[s].notional, w.funding[s].rate) \in Int
  <2>1. s \in DOMAIN w.positions /\ s \in DOMAIN w.funding
    BY <1>3, <1>5
  <2>2. w.positions[s] \in Positions
    BY <2>1 DEF WalletOK
  <2>3. w.positions[s].notional \in Int
    BY <2>2 DEF Positions
  <2>4. w.funding[s].rate \in Rates
    BY <2>1 DEF WalletOK
  <2>5. w.funding[s].rate \in Int
    BY <2>4, MarketAssumption
  <2>6. (w.positions[s].notional \div 10000) \in Int
    BY <2>3
  <2> QED
    BY <2>5, <2>6 DEF FundingFee
<1> HIDE DEF due
<1>6. SumFunction(fees) \in Int
  BY <1>4, <1>5, SumInt DEF SumFunction
<1> HIDE DEF fees
<1>7. \A s \in DOMAIN w.funding :
        u.funding[s] \in [rate : Rates, next : Nat, applied : Nat]
  BY <1>1 DEF WalletOK
<1>8. WalletOK(u)
  BY <1>1, <1>2, <1>6, <1>7 DEF WalletOK
<1> QED
  BY <1>8 DEF u
(* The leverage a strategy may ask for, and with which a position may be    *)
(* opened; the prices an order may be executed at; slippage.                *)
Requested == 0..2
Leverages == 1..2
ExecPrices == 1..6000
Slips == 0..MaxSlip

(* The reference price of an order is positive and leaves room to slip. *)
LEMMA ReferenceFacts ==
    ASSUME NEW w, WalletOK(w), NEW s, NEW price \in Prices
    PROVE  /\ ExecReferencePrice(w, s, price) \in Nat \ {0}
           /\ ExecReferencePrice(w, s, price) + MaxSlip <= 6000
<1>1. MaxSlip \in Nat
  BY TimeAssumption
<1>2. \A x \in Marks \union Prices : x \in Int /\ x + MaxSlip <= 6000
  BY MarketAssumption, AmountsAssumption DEF Coin
<1>3. CASE MarkValid(w, s)
  <2>1. w.marks[s] \in Marks /\ w.marks[s] > 0
    BY <1>3 DEF MarkValid, WalletOK
  <2> QED
    BY <1>2, <1>3, <2>1 DEF ExecReferencePrice
<1>4. CASE ~ MarkValid(w, s)
  BY <1>2, <1>4, MarketAssumption DEF ExecReferencePrice
<1> QED
  BY <1>3, <1>4

(* The fee for opening with 100 USDT is positive. *)
LEMMA OpenFee ==
    ASSUME NEW lev \in Leverages
    PROVE  /\ 100 * Usdt \in Nat
           /\ 100 * lev * Usdt \in Nat
           /\ Fee(100 * lev * Usdt) \in Nat \ {0}
BY SMT DEF Usdt, Fee, Leverages

(* The position that 100 USDT buy is not empty. *)
LEMMA NewPositionFacts ==
    ASSUME NEW side \in {"long", "short"}, NEW exec \in ExecPrices, NEW lev \in Leverages
    PROVE  LET pos == NewPosition(side, exec, 100, lev) IN
           /\ pos \in Positions
           /\ pos.side = side /\ pos.entry = exec /\ pos.amount > 0
           /\ pos.margin = 100 * Usdt /\ pos.notional = 100 * lev * Usdt
<1> DEFINE amount == (100 * lev * Coin) \div exec
<1>1. amount \in Nat /\ amount > 0
  <2>1. PICK a \in Nat : a = 100 * lev * Coin /\ exec <= a
    BY SMT DEF Coin, Leverages, ExecPrices
  <2>2. exec \in Nat \ {0}
    BY DEF ExecPrices
  <2>3. a \div exec \in Nat /\ a \div exec > 0
    BY <2>1, <2>2, QuotientFacts
  <2> QED
    BY <2>1, <2>3
<1>2. 100 * Usdt \in Nat /\ 100 * lev * Usdt \in Nat
  BY OpenFee
<1> HIDE DEF amount
<1>3. LiquidationPriceEstimate(side, exec, lev) \in Int
  <2>1. exec \in Int /\ exec \div lev \in Int
    BY DEF ExecPrices, Leverages
  <2> QED
    BY <2>1 DEF LiquidationPriceEstimate
<1>4. Worth(amount, exec) \in Int
  BY <1>1, WorthInt DEF ExecPrices
<1>5. lev \in Nat /\ exec \in Int
  BY DEF ExecPrices, Leverages
<1>6. NewPosition(side, exec, 100, lev) =
        [side |-> side, amount |-> amount, entry |-> exec,
         leverage |-> lev, margin |-> 100 * Usdt, notional |-> 100 * lev * Usdt,
         liquidation |-> LiquidationPriceEstimate(side, exec, lev),
         value |-> Worth(amount, exec), pnl |-> 0]
  BY DEF NewPosition, amount
<1> QED
  BY <1>1, <1>2, <1>3, <1>4, <1>5, <1>6 DEF Positions

(* What opening a position of 100 USDT at a price does to the wallet: the   *)
(* margin and the fee are paid, the position is there.                      *)
LEMMA OpenAtType ==
    ASSUME NEW w, WalletOK(w), NEW s \in Symbols, s \notin DOMAIN w.positions,
           NEW side \in {"long", "short"}, NEW exec \in ExecPrices, NEW lev \in Leverages
    PROVE  LET u == OpenAt(w, s, side, exec, 100, lev) IN
           /\ WalletOK(u)
           /\ DOMAIN u.positions = DOMAIN w.positions \union {s}
           /\ \A x \in DOMAIN w.positions : u.positions[x] = w.positions[x]
           /\ u.positions[s] = NewPosition(side, exec, 100, lev)
           /\ u.balance = w.balance - (100 * Usdt + Fee(100 * lev * Usdt))
           /\ u.marks = w.marks
<1> DEFINE u == OpenAt(w, s, side, exec, 100, lev)
           pos == NewPosition(side, exec, 100, lev)
<1>1. pos \in Positions /\ pos.amount > 0
  BY NewPositionFacts
<1>2. 100 * Usdt \in Nat /\ Fee(100 * lev * Usdt) \in Nat
  BY OpenFee
<1>3. u = [w EXCEPT !.balance = @ - (100 * Usdt + Fee(100 * lev * Usdt)),
                    !.positions = Put(@, s, pos)]
  BY DEF OpenAt
<1>4. Shaped(u) /\ u.funding = w.funding
  BY OpenAtFacts DEF WalletOK
<1> HIDE DEF u, pos
<1>5. /\ u.balance = w.balance - (100 * Usdt + Fee(100 * lev * Usdt))
      /\ u.positions = Put(w.positions, s, pos)
      /\ u.marks = w.marks
      /\ u.interest = w.interest
  BY <1>3 DEF WalletOK, Shaped, WalletFields
<1>6. /\ DOMAIN u.positions = DOMAIN w.positions \union {s}
      /\ u.positions[s] = pos
      /\ \A x \in DOMAIN w.positions : u.positions[x] = w.positions[x]
  BY <1>5 DEF Put
<1>7. u.balance \in Int
  BY <1>2, <1>5 DEF WalletOK
<1>8. IsFiniteSet(DOMAIN u.positions)
  BY <1>6, FS_AddElement DEF WalletOK
<1>9. \A x \in DOMAIN u.positions : u.positions[x] \in Positions /\ u.positions[x].amount > 0
  BY <1>1, <1>6 DEF WalletOK
<1>10. WalletOK(u)
  BY <1>4, <1>5, <1>6, <1>7, <1>8, <1>9 DEF WalletOK
<1> QED
  BY <1>5, <1>6, <1>10 DEF u, pos

(* The price an order to open is executed at, and the order. *)
OpenPrice(w, s, side, price, slip) ==
    IF side = "long" THEN ExecReferencePrice(w, s, price) + slip
                     ELSE ExecReferencePrice(w, s, price) - slip

OpenOrder(w, s, side, price, leverage, slip) ==
    IF side = "long" THEN ExecuteOpenLong(w, s, price, 100, leverage, slip)
                     ELSE ExecuteOpenShort(w, s, price, 100, leverage, slip)

(* An order to open: skipped, or the position is opened at the reference    *)
(* price and slip against the trader, and revalued or not.                  *)
LEMMA OpenCases ==
    ASSUME NEW w, WalletOK(w), NEW s \in Symbols, NEW price \in Prices,
           NEW leverage \in Requested, NEW slip \in Slips,
           NEW side \in {"long", "short"},
           OpenOrder(w, s, side, price, leverage, slip) # w
    PROVE  LET u == OpenOrder(w, s, side, price, leverage, slip)
               exec == OpenPrice(w, s, side, price, slip) IN
           /\ s \notin DOMAIN w.positions
           /\ exec \in ExecPrices
           /\ \E lev \in Leverages :
                LET opened == OpenAt(w, s, side, exec, 100, lev) IN
                u = opened \/ u = UpdatePnl(opened)
<1> DEFINE lev == AtLeastOne(leverage)
           u == OpenOrder(w, s, side, price, leverage, slip)
           exec == OpenPrice(w, s, side, price, slip)
           opened == OpenAt(w, s, side, exec, 100, lev)
<1>1. lev \in Leverages
  BY DEF AtLeastOne, Requested, Leverages
<1>2. PICK ref : ref = ExecReferencePrice(w, s, price)
  OBVIOUS
<1>3. ref \in Nat \ {0} /\ ref + MaxSlip <= 6000 /\ MaxSlip \in Nat
  BY <1>2, ReferenceFacts, TimeAssumption
<1>4. exec = IF side = "long" THEN ref + slip ELSE ref - slip
  BY <1>2 DEF OpenPrice
<1>5. side = "short" => ~(ref - slip <= 0)
  BY <1>2 DEF OpenOrder, ExecuteOpenShort
<1>6. s \notin DOMAIN w.positions
  BY DEF OpenOrder, ExecuteOpenLong, ExecuteOpenShort, MayOpen, HasPosition
<1>7. u = opened \/ u = UpdatePnl(opened)
  BY DEF OpenOrder, OpenPrice, ExecuteOpenLong, ExecuteOpenShort
<1> HIDE DEF lev, u, exec
<1>8. exec \in ExecPrices
  BY <1>3, <1>4, <1>5 DEF ExecPrices, Slips
<1>9. \E l \in Leverages : u = OpenAt(w, s, side, exec, 100, l)
                    \/ u = UpdatePnl(OpenAt(w, s, side, exec, 100, l))
  BY <1>1, <1>7
<1> QED
  BY <1>6, <1>8, <1>9 DEF u, exec

LEMMA CloseType ==
    ASSUME NEW w, WalletOK(w), NEW s \in Symbols, NEW price \in Prices,
           NEW slip \in Slips
    PROVE  LET u == ExecuteClose(w, s, price, slip)
               pos == w.positions[s]
               ref == ExecReferencePrice(w, s, price)
               exec == IF pos.side = "long" THEN ref - slip ELSE ref + slip IN
           /\ WalletOK(u)
           /\ s \notin DOMAIN w.positions => u = w
           /\ s \in DOMAIN w.positions =>
                /\ DOMAIN u.positions = DOMAIN w.positions \ {s}
                /\ \A x \in DOMAIN u.positions : u.positions[x] = w.positions[x]
                /\ u.balance = w.balance + pos.margin + Pnl(pos, exec)
                                 - Fee(Worth(pos.amount, exec))
                /\ u.marks = w.marks
<1> DEFINE u == ExecuteClose(w, s, price, slip)
           pos == w.positions[s]
           ref == ExecReferencePrice(w, s, price)
           exec == IF pos.side = "long" THEN ref - slip ELSE ref + slip
<1>1. CASE s \notin DOMAIN w.positions
  BY <1>1 DEF ExecuteClose, HasPosition
<1>2. CASE s \in DOMAIN w.positions
  <2>1. /\ u = [w EXCEPT !.positions = Remove(@, s),
                         !.balance = @ + pos.margin + Pnl(pos, exec)
                                       - Fee(Worth(pos.amount, exec))]
    BY <1>2 DEF ExecuteClose, HasPosition
  <2>2. Shaped(u) /\ u.funding = w.funding
    BY CloseFacts DEF WalletOK
  <2>3. ref \in Int /\ slip \in Int
    BY ReferenceFacts, TimeAssumption DEF Slips
  <2>4. exec \in Int
    <3> HIDE DEF ref
    <3> QED
      BY <2>3
  <2> HIDE DEF u, exec
  <2>5. /\ u.balance = w.balance + pos.margin + Pnl(pos, exec)
                         - Fee(Worth(pos.amount, exec))
        /\ u.positions = Remove(w.positions, s)
        /\ u.marks = w.marks
        /\ u.interest = w.interest
    BY <2>1 DEF WalletOK, Shaped, WalletFields
  <2>6. /\ DOMAIN u.positions = DOMAIN w.positions \ {s}
        /\ \A x \in DOMAIN u.positions : u.positions[x] = w.positions[x]
    BY <2>5 DEF Remove
  <2>7. pos \in Positions
    BY <1>2 DEF WalletOK
  <2> HIDE DEF pos
  <2>8. pos.amount \in Int /\ pos.margin \in Int
    BY <2>7 DEF Positions
  <2>9. Pnl(pos, exec) \in Int /\ Worth(pos.amount, exec) \in Int
    BY <2>4, <2>7, <2>8, PnlType, WorthInt
  <2>10. Fee(Worth(pos.amount, exec)) \in Int
    BY <2>9 DEF Fee
  <2>11. u.balance \in Int
    BY <2>5, <2>8, <2>9, <2>10 DEF WalletOK
  <2>12. IsFiniteSet(DOMAIN u.positions)
    BY <2>6, FS_Subset DEF WalletOK
  <2>13. WalletOK(u)
    BY <2>2, <2>5, <2>6, <2>11, <2>12 DEF WalletOK
  <2> QED
    BY <1>2, <2>5, <2>6, <2>13 DEF u, pos, exec
<1> QED
  BY <1>1, <1>2

LEMMA ExecutedType ==
    ASSUME NEW w, WalletOK(w), NEW s \in Symbols, NEW price \in Prices,
           NEW action \in Actions, NEW slip \in Slips
    PROVE  WalletOK(Executed(w, s, price, action, slip))
<1>1. CASE action = Hold
  BY <1>1 DEF Executed, Hold
<1>2. CASE action = Close
  <2>1. Executed(w, s, price, action, slip) = UpdatePnl(ExecuteClose(w, s, price, slip))
    BY <1>2 DEF Executed, Close
  <2> QED
    BY <2>1, CloseType, UpdatePnlType
<1>3. ASSUME NEW lev \in Requested, NEW side \in {"long", "short"}
      PROVE  WalletOK(UpdatePnl(OpenOrder(w, s, side, price, lev, slip)))
  <2> DEFINE u == OpenOrder(w, s, side, price, lev, slip)
             exec == OpenPrice(w, s, side, price, slip)
  <2>1. CASE u = w
    BY <2>1, UpdatePnlType
  <2>2. CASE u # w
    <3>1. s \notin DOMAIN w.positions /\ exec \in ExecPrices
      BY <2>2, OpenCases
    <3>2. PICK l \in Leverages : \/ u = OpenAt(w, s, side, exec, 100, l)
                            \/ u = UpdatePnl(OpenAt(w, s, side, exec, 100, l))
      BY <2>2, OpenCases
    <3>3. WalletOK(OpenAt(w, s, side, exec, 100, l))
      BY <3>1, OpenAtType
    <3> QED
      BY <3>2, <3>3, UpdatePnlType
  <2> QED
    BY <2>1, <2>2
<1>4. ASSUME NEW lev \in Requested, action = Long(100, lev)
      PROVE  WalletOK(Executed(w, s, price, action, slip))
  <2>1. Executed(w, s, price, action, slip) =
          UpdatePnl(OpenOrder(w, s, "long", price, lev, slip))
    BY <1>4 DEF Executed, Long, OpenOrder
  <2> QED
    BY <1>3, <1>4, <2>1
<1>5. ASSUME NEW lev \in Requested, action = Short(100, lev)
      PROVE  WalletOK(Executed(w, s, price, action, slip))
  <2>1. Executed(w, s, price, action, slip) =
          UpdatePnl(OpenOrder(w, s, "short", price, lev, slip))
    BY <1>5 DEF Executed, Short, OpenOrder
  <2> QED
    BY <1>3, <1>5, <2>1
<1> QED
  BY <1>1, <1>2, <1>4, <1>5 DEF Actions, Requested

(* What TypeOK says of the wallet is in WalletOK. *)
LEMMA TypeOKFrom ==
    ASSUME WalletOK(wallet), FundingTyped, listening \in BOOLEAN, now \in 0..MaxTime,
           trades \in 0..MaxTrades,
           owed \in [Symbols -> SUBSET (1..now)]
    PROVE  TypeInv
BY DEF WalletOK, FundingTyped, TypeOK, TypeInv

LEMMA TypeInit == Init => TypeInv
<1> SUFFICES ASSUME Init PROVE TypeInv
  OBVIOUS
<1>1. /\ wallet = NewWallet
      /\ DOMAIN NewWallet.positions = {} /\ DOMAIN NewWallet.funding = {}
      /\ DOMAIN NewWallet.marks = {} /\ DOMAIN NewWallet.interest = {}
      /\ NewWallet.balance \in Int
  BY DEF Init, NewWallet, EmptyMap, Usdt
<1>2. Shaped(wallet) /\ FundingTyped
  BY BrokerInit DEF BrokerInv
<1>3. WalletOK(wallet)
  BY <1>1, <1>2, FS_EmptySet DEF WalletOK
<1>4. /\ listening \in BOOLEAN /\ now \in 0..MaxTime
      /\ trades \in 0..MaxTrades
  <2>1. now = 0 /\ trades = 0
    BY DEF Init
  <2>2. MaxTime \in Nat /\ MaxTrades \in Nat
    BY TimeAssumption
  <2>3. now \in 0..MaxTime /\ trades \in 0..MaxTrades
    BY <2>1, <2>2
  <2>4. listening \in BOOLEAN
    BY Zenon DEF Init
  <2> QED
    BY <2>3, <2>4
<1>5. owed \in [Symbols -> SUBSET (1..now)]
  BY DEF Init
<1> QED
  BY <1>2, <1>3, <1>4, <1>5, TypeOKFrom

LEMMA TypeStep == TypeInv /\ BrokerInv /\ [Next]_vars => TypeInv'
<1> SUFFICES ASSUME TypeInv, BrokerInv, [Next]_vars PROVE TypeInv'
  OBVIOUS
<1>0. /\ WalletOK(wallet) /\ FundingTyped /\ FundingTyped'
      /\ listening \in BOOLEAN /\ now \in 0..MaxTime
      /\ trades \in 0..MaxTrades /\ owed \in [Symbols -> SUBSET (1..now)]
  BY BrokerStep DEF TypeInv, TypeOK, BrokerInv
<1>1. ASSUME WalletOK(wallet)', listening' \in BOOLEAN, now' \in 0..MaxTime,
             trades' \in 0..MaxTrades,
             owed' \in [Symbols -> SUBSET (1..now')]
      PROVE  TypeInv'
  BY <1>0, <1>1 DEF WalletOK, FundingTyped, TypeOK, TypeInv
<1>2. wallet' = wallet => WalletOK(wallet)'
  BY <1>0 DEF WalletOK, Shaped
<1>3. CASE UNCHANGED vars \/ Subscribe \/ StreamEnded
  BY <1>0, <1>1, <1>2, <1>3 DEF vars, Subscribe, StreamEnded
<1>4. CASE Advance
  <2>1. now' \in 0..MaxTime /\ now + 1 \in 1..now'
    BY <1>0, <1>4, TimeAssumption DEF Advance
  <2>2. owed' \in [Symbols -> SUBSET (1..now')]
    BY <1>0, <1>4, <2>1 DEF Advance
  <2> QED
    BY <1>0, <1>1, <1>2, <1>4, <2>1, <2>2 DEF Advance
<1>5. ASSUME NEW s \in Symbols, NEW price \in Prices, NEW slip \in 0..MaxSlip,
             NEW action \in Evaluate(wallet, s, price), RawEvent(s, price, action, slip)
      PROVE  TypeInv'
  <2>1. action \in Actions
    BY <1>5, EvaluateFacts
  <2>2. wallet' = Executed(wallet, s, price, action, slip)
    BY <1>5 DEF RawEvent
  <2>3. WalletOK(wallet')
    BY <1>0, <1>5, <2>1, <2>2, ExecutedType DEF Slips
  <2>4. WalletOK(wallet)'
    BY <2>3 DEF WalletOK, Shaped
  <2>5. trades' \in 0..MaxTrades
    BY <1>0, <1>5, TimeAssumption DEF RawEvent
  <2>6. owed' \in [Symbols -> SUBSET (1..now)]
    BY <1>0, <1>5 DEF RawEvent
  <2> QED
    BY <1>0, <1>1, <1>5, <2>4, <2>5, <2>6 DEF RawEvent
<1>6. ASSUME NEW t \in 0..now, NEW skew \in Skews,
             NEW evt \in ContextEvents(t), ContextEvent(t, evt, skew)
      PROVE  TypeInv'
  <2>1. t \in Nat /\ now + skew \in Int /\ t \in 0..now
    BY <1>0, SkewsAssumption
  <2>2. wallet' = ApplyFundingIfDue(UpdatePnl(UpdateContext(wallet, evt)), now + skew)
    BY <1>6 DEF ContextEvent
  <2>3. WalletOK(UpdateContext(wallet, evt))
    BY <1>0, <1>6, <2>1, UpdateContextType
  <2>4. WalletOK(UpdatePnl(UpdateContext(wallet, evt)))
    BY <2>3, UpdatePnlType
  <2>5. WalletOK(wallet')
    BY <2>1, <2>2, <2>4, ApplyFundingType
  <2>6. WalletOK(wallet)'
    BY <2>5 DEF WalletOK, Shaped
  <2> QED
    BY <1>0, <1>1, <1>6, <2>1, <2>6 DEF ContextEvent
<1> QED
  BY <1>3, <1>4, <1>5, <1>6 DEF Next

(* Type correctness, for every strategy and market: in particular the       *)
(* positions stay finitely many, so that the sums over them exist, and a    *)
(* position never has an empty or negative amount.                          *)
THEOREM TypeCorrect == Spec => []TypeOK
<1>1. TypeInv => TypeOK
  BY DEF TypeInv
<1> QED
  BY <1>1, BrokerInit, BrokerStep, TypeInit, TypeStep, PTL DEF Spec
--------------------------------------------------------------------------------
(* What a trade costs.                                                      *)

LEMMA MarkType ==
    ASSUME NEW w, WalletOK(w), NEW s \in DOMAIN w.marks
    PROVE  w.marks[s] \in Int
<1>1. w.marks[s] \in Marks
  BY DEF WalletOK
<1> QED
  BY <1>1, MarketAssumption

LEMMA SlipType ==
    ASSUME NEW slip \in Slips
    PROVE  slip \in Nat /\ slip <= MaxSlip /\ MaxSlip \in Nat
BY TimeAssumption DEF Slips

LEMMA EquityType ==
    ASSUME NEW w, WalletOK(w), NEW s \in DOMAIN w.positions
    PROVE  Equity(w, s) \in Int
<1>1. PICK mark : mark = IF s \in DOMAIN w.marks THEN w.marks[s] ELSE 0
  OBVIOUS
<1>2. mark \in Int
  BY <1>1, MarkType
<1>3. w.positions[s] \in Positions
  BY DEF WalletOK
<1>4. w.positions[s].margin \in Int
  BY <1>3 DEF Positions
<1>5. Pnl(w.positions[s], mark) \in Int
  BY <1>2, <1>3, PnlType
<1> QED
  BY <1>1, <1>4, <1>5 DEF Equity

LEMMA NetWorthType ==
    ASSUME NEW w, WalletOK(w)
    PROVE  NetWorth(w) \in Int
<1> DEFINE f == [s \in DOMAIN w.positions |-> Equity(w, s)]
<1>1. \A s \in DOMAIN f : f[s] \in Int
  BY EquityType
<1>2. DOMAIN f = DOMAIN w.positions /\ IsFiniteSet(DOMAIN w.positions)
  BY DEF WalletOK
<1> HIDE DEF f
<1>3. SumFunction(f) \in Int
  BY <1>1, <1>2, SumInt DEF SumFunction
<1> QED
  BY <1>3 DEF NetWorth, WalletOK, f

(* Revaluing the positions does not change the net worth. *)
LEMMA NetWorthRevalued ==
    ASSUME NEW w, WalletOK(w)
    PROVE  NetWorth(UpdatePnl(w)) = NetWorth(w)
<1> DEFINE u == UpdatePnl(w)
           f == [s \in DOMAIN w.positions |-> Equity(w, s)]
           g == [s \in DOMAIN u.positions |-> Equity(u, s)]
<1>1. /\ u.balance = w.balance
      /\ u.marks = w.marks
      /\ DOMAIN u.positions = DOMAIN w.positions
      /\ \A s \in DOMAIN w.positions :
           LET p == w.positions[s]
               q == u.positions[s] IN
           /\ q.side = p.side /\ q.amount = p.amount /\ q.entry = p.entry
           /\ q.margin = p.margin
  BY UpdatePnlType
<1> HIDE DEF u
<1>2. \A s \in DOMAIN w.positions : Equity(u, s) = Equity(w, s)
  BY <1>1 DEF Equity, Pnl
<1>3. f = g
  BY <1>1, <1>2
<1> QED
  BY <1>1, <1>3 DEF NetWorth, u

(* The net worth with and without the position of s. *)
LEMMA NetWorthWithout ==
    ASSUME NEW w, WalletOK(w), NEW u, WalletOK(u), NEW s \in DOMAIN w.positions,
           u.marks = w.marks,
           DOMAIN u.positions = DOMAIN w.positions \ {s},
           \A x \in DOMAIN u.positions : u.positions[x] = w.positions[x]
    PROVE  NetWorth(w) - w.balance = NetWorth(u) - u.balance + Equity(w, s)
<1> DEFINE f == [x \in DOMAIN w.positions |-> Equity(w, x)]
           g == [x \in DOMAIN u.positions |-> Equity(u, x)]
<1>1. \A x \in DOMAIN f : f[x] \in Int
  BY EquityType
<1>2. \A x \in DOMAIN g : g[x] = f[x]
  BY DEF Equity
<1>3. /\ s \in DOMAIN f /\ f[s] = Equity(w, s)
      /\ DOMAIN g = DOMAIN f \ {s} /\ DOMAIN f = DOMAIN w.positions
  OBVIOUS
<1>4. NetWorth(w) = w.balance + SumFunction(f) /\ NetWorth(u) = u.balance + SumFunction(g)
  BY DEF NetWorth
<1>5. IsFiniteSet(DOMAIN w.positions) /\ w.balance \in Int /\ u.balance \in Int
  BY DEF WalletOK
<1> HIDE DEF f, g
<1>6. /\ SumFunction(f) \in Int /\ SumFunction(g) \in Int
      /\ SumFunction(f) = f[s] + SumFunction(g)
  BY <1>1, <1>2, <1>3, <1>5, SumRemoved
<1>7. f[s] \in Int
  BY <1>1, <1>3
<1> QED
  BY <1>3, <1>4, <1>5, <1>6, <1>7

(* Slipping by d costs the worth of d, long or short. *)
LEMMA SlipCost ==
    ASSUME NEW a \in Int, NEW x \in Int, NEW y \in Int, NEW d \in Int, x - y = d
    PROVE  Worth(a, x) - Worth(a, y) = Worth(a, d)
<1>1. PICK p \in Int, q \in Int : p = a * x /\ q = a * y
  OBVIOUS
<1>2. a * d = a * x - a * y
  <2>1. a * (x - y) = a * x - a * y
    OBVIOUS
  <2> QED
    BY <2>1
<1>3. Worth(a, x) = 10000 * p /\ Worth(a, y) = 10000 * q
  BY <1>1, WorthFacts
<1>4. Worth(a, d) = 10000 * (a * d)
  BY WorthFacts
<1>5. Worth(a, d) = 10000 * (p - q)
  BY <1>1, <1>2, <1>4
<1> QED
  BY <1>3, <1>5

LEMMA WorthOrder ==
    ASSUME NEW a \in Nat, NEW x \in Int, NEW y \in Int, x <= y
    PROVE  /\ Worth(a, x) <= Worth(a, y)
           /\ Fee(Worth(a, x)) <= Fee(Worth(a, y))
           /\ Fee(Worth(a, x)) \in Int
<1>1. PICK p \in Int, q \in Int : p = a * x /\ q = a * y
  OBVIOUS
<1>2. p <= q
  BY <1>1, ProductOrder
<1>3. /\ Worth(a, x) = 10000 * p /\ Worth(a, y) = 10000 * q
      /\ Fee(Worth(a, x)) = 4 * p /\ Fee(Worth(a, y)) = 4 * q
  BY <1>1, WorthFacts
<1> QED
  BY <1>2, <1>3

(* The profit of a position at two prices. *)
LEMMA PnlSlipped ==
    ASSUME NEW pos \in Positions, NEW mark \in Int, NEW slip \in Int, NEW exec,
           exec = IF pos.side = "long" THEN mark - slip ELSE mark + slip
    PROVE  Pnl(pos, mark) - Pnl(pos, exec) = Worth(pos.amount, slip)
<1>1. pos.amount \in Int /\ pos.entry \in Int
  BY DEF Positions
<1>2. PICK a \in Int, e \in Int : a = pos.amount /\ e = pos.entry
  BY <1>1
<1>3. CASE pos.side = "long"
  <2>1. Worth(a, mark - e) - Worth(a, (mark - slip) - e) = Worth(a, slip)
    BY SlipCost
  <2> QED
    BY <1>2, <1>3, <2>1 DEF Pnl
<1>4. CASE pos.side # "long"
  <2>1. Worth(a, e - mark) - Worth(a, e - (mark + slip)) = Worth(a, slip)
    BY SlipCost
  <2> QED
    BY <1>2, <1>4, <2>1 DEF Pnl
<1> QED
  BY <1>3, <1>4

(* The whole property, of the wallets before and after a trade. *)
CostsItsFees(w, u) ==
    /\ NetWorth(u) <= NetWorth(w)
    /\ \A s \in Symbols :
         /\ s \in DOMAIN u.positions \ DOMAIN w.positions =>
              LET pos == u.positions[s] IN
              /\ NetWorth(u) < NetWorth(w)
              /\ NetWorth(w) - NetWorth(u) <= TradeCostBound(pos, pos.notional)
         /\ s \in DOMAIN w.positions \ DOMAIN u.positions =>
              LET pos == w.positions[s] IN
              /\ NetWorth(u) < NetWorth(w)
              /\ NetWorth(w) - NetWorth(u)
                   <= TradeCostBound(pos, Worth(pos.amount, w.marks[s] + MaxSlip))

(* A wallet that is only revalued after the trade costs the same. *)
LEMMA RevaluedCost ==
    ASSUME NEW w, WalletOK(w), NEW u, WalletOK(u), CostsItsFees(w, u)
    PROVE  CostsItsFees(w, UpdatePnl(u))
<1>1. NetWorth(UpdatePnl(u)) = NetWorth(u)
  BY NetWorthRevalued
<1>2. /\ DOMAIN UpdatePnl(u).positions = DOMAIN u.positions
      /\ \A s \in DOMAIN u.positions :
           /\ UpdatePnl(u).positions[s].amount = u.positions[s].amount
           /\ UpdatePnl(u).positions[s].notional = u.positions[s].notional
  BY UpdatePnlType
<1> QED
  BY <1>1, <1>2 DEF CostsItsFees, TradeCostBound

LEMMA UnchangedCost ==
    ASSUME NEW w, WalletOK(w)
    PROVE  CostsItsFees(w, w)
BY NetWorthType DEF CostsItsFees

(* Opening pays the fee, and the slippage at once as an unrealised loss. *)
LEMMA OpenCost ==
    ASSUME NEW w, WalletOK(w), NEW s \in Symbols, s \notin DOMAIN w.positions,
           MarkValid(w, s), NEW price \in Prices, NEW slip \in Slips,
           NEW side \in {"long", "short"}, NEW lev \in Leverages,
           OpenPrice(w, s, side, price, slip) \in ExecPrices
    PROVE  CostsItsFees(w, OpenAt(w, s, side, OpenPrice(w, s, side, price, slip), 100, lev))
<1> DEFINE exec == OpenPrice(w, s, side, price, slip)
           u == OpenAt(w, s, side, exec, 100, lev)
           pos == NewPosition(side, exec, 100, lev)
           mark == w.marks[s]
           margin == 100 * Usdt
           fee == Fee(100 * lev * Usdt)
<1>1. /\ WalletOK(u)
      /\ DOMAIN u.positions = DOMAIN w.positions \union {s}
      /\ \A x \in DOMAIN w.positions : u.positions[x] = w.positions[x]
      /\ u.positions[s] = pos
      /\ u.balance = w.balance - (margin + fee)
      /\ u.marks = w.marks
  BY OpenAtType
<1>2. /\ pos \in Positions /\ pos.side = side /\ pos.entry = exec /\ pos.amount > 0
      /\ pos.margin = margin /\ pos.notional = 100 * lev * Usdt
  BY NewPositionFacts
<1>3. margin \in Nat /\ fee \in Nat \ {0}
  BY OpenFee
<1>4. exec = IF side = "long" THEN mark + slip ELSE mark - slip
  BY DEF OpenPrice, ExecReferencePrice
<1>5. s \in DOMAIN w.marks /\ mark \in Int /\ slip \in Nat /\ slip <= MaxSlip /\ MaxSlip \in Nat
  BY MarkType, SlipType DEF MarkValid
<1>6. TradeCostBound(pos, pos.notional) = fee + Worth(pos.amount, MaxSlip)
  BY <1>2 DEF TradeCostBound
<1> HIDE DEF exec, u, pos, mark, margin, fee
<1>7. NetWorth(u) - u.balance = NetWorth(w) - w.balance + Equity(u, s)
  BY <1>1, NetWorthWithout
<1>8. Equity(u, s) = margin + Pnl(pos, mark)
  BY <1>1, <1>2, <1>5 DEF Equity, mark
<1>9. pos.amount \in Nat /\ pos.entry \in Int
  BY <1>2 DEF Positions
<1>10. Pnl(pos, mark) = 0 - Worth(pos.amount, slip)
  <2>1. PICK a \in Nat : a = pos.amount
    BY <1>9
  <2>2. Worth(a, 0) = 0
    BY WorthFacts
  <2>3. CASE side = "long"
    <3>1. mark - exec = 0 - slip
      BY <1>4, <1>5, <2>3
    <3>2. Worth(a, 0) - Worth(a, slip) = Worth(a, 0 - slip)
      BY <1>5, SlipCost
    <3> QED
      BY <1>2, <2>1, <2>2, <2>3, <3>1, <3>2 DEF Pnl
  <2>4. CASE side = "short"
    <3>1. exec - mark = 0 - slip
      BY <1>4, <1>5, <2>4
    <3>2. Worth(a, 0) - Worth(a, slip) = Worth(a, 0 - slip)
      BY <1>5, SlipCost
    <3> QED
      BY <1>2, <2>1, <2>2, <2>4, <3>1, <3>2 DEF Pnl
  <2> QED
    BY <2>3, <2>4
<1>11. /\ Worth(pos.amount, slip) \in Int /\ Worth(pos.amount, MaxSlip) \in Int
       /\ 0 <= Worth(pos.amount, slip) /\ Worth(pos.amount, slip) <= Worth(pos.amount, MaxSlip)
  <2>1. PICK a \in Nat : a = pos.amount
    BY <1>9
  <2>2. Worth(a, 0) = 0 /\ Worth(a, slip) \in Int /\ Worth(a, MaxSlip) \in Int
    BY <1>5, WorthFacts, WorthInt
  <2>3. Worth(a, 0) <= Worth(a, slip) /\ Worth(a, slip) <= Worth(a, MaxSlip)
    BY <1>5, WorthOrder
  <2> QED
    BY <2>1, <2>2, <2>3
<1>12. NetWorth(w) \in Int /\ NetWorth(u) \in Int /\ w.balance \in Int /\ u.balance \in Int
  BY <1>1, NetWorthType DEF WalletOK
<1>13. NetWorth(w) - NetWorth(u) = fee + Worth(pos.amount, slip)
  <2>1. u.balance = w.balance - (margin + fee)
    BY <1>1
  <2>2. Equity(u, s) = margin - Worth(pos.amount, slip)
    BY <1>3, <1>8, <1>10, <1>11
  <2>3. Worth(pos.amount, slip) \in Int
    BY <1>11
  <2> QED
    BY <1>3, <1>7, <1>12, <2>1, <2>2, <2>3
<1>14. /\ NetWorth(u) < NetWorth(w)
       /\ NetWorth(w) - NetWorth(u) <= TradeCostBound(pos, pos.notional)
  BY <1>3, <1>6, <1>11, <1>12, <1>13
<1>15. CostsItsFees(w, u)
  BY <1>1, <1>12, <1>14 DEF CostsItsFees
<1> QED
  BY <1>15 DEF u, exec

(* Closing turns the unrealised profit into money, minus fee and slippage. *)
LEMMA CloseCost ==
    ASSUME NEW w, WalletOK(w), NEW s \in Symbols, MarkValid(w, s),
           NEW price \in Prices, NEW slip \in Slips
    PROVE  CostsItsFees(w, ExecuteClose(w, s, price, slip))
<1> DEFINE u == ExecuteClose(w, s, price, slip)
           pos == w.positions[s]
           mark == w.marks[s]
           exec == IF pos.side = "long" THEN mark - slip ELSE mark + slip
<1>1. CASE s \notin DOMAIN w.positions
  <2>1. u = w
    BY <1>1, CloseType
  <2> QED
    BY <2>1, UnchangedCost
<1>2. CASE s \in DOMAIN w.positions
  <2>1. ExecReferencePrice(w, s, price) = mark
    BY DEF ExecReferencePrice
  <2>2. /\ WalletOK(u)
        /\ DOMAIN u.positions = DOMAIN w.positions \ {s}
        /\ \A x \in DOMAIN u.positions : u.positions[x] = w.positions[x]
        /\ u.balance = w.balance + pos.margin + Pnl(pos, exec)
                         - Fee(Worth(pos.amount, exec))
        /\ u.marks = w.marks
    BY <1>2, <2>1, CloseType
  <2>3. pos \in Positions /\ pos.amount > 0
    BY <1>2 DEF WalletOK
  <2>4. /\ s \in DOMAIN w.marks /\ mark \in Int /\ mark > 0
        /\ slip \in Nat /\ slip <= MaxSlip /\ MaxSlip \in Nat
    BY MarkType, SlipType DEF MarkValid
  <2>5. Equity(w, s) = pos.margin + Pnl(pos, mark)
    BY <2>4 DEF Equity
  <2>6. exec = IF pos.side = "long" THEN mark - slip ELSE mark + slip
    OBVIOUS
  <2> HIDE DEF u, pos, mark, exec
  <2>7. NetWorth(w) - w.balance = NetWorth(u) - u.balance + Equity(w, s)
    BY <1>2, <2>2, NetWorthWithout
  <2>8. pos.amount \in Nat /\ pos.margin \in Int
    BY <2>3 DEF Positions
  <2>9. exec \in Int /\ mark - slip <= exec /\ exec <= mark + MaxSlip
    BY <2>4, <2>6
  <2>10. Pnl(pos, mark) - Pnl(pos, exec) = Worth(pos.amount, slip)
    BY <2>3, <2>4, <2>6, PnlSlipped
  <2>11. Pnl(pos, mark) \in Int /\ Pnl(pos, exec) \in Int
    BY <2>3, <2>4, <2>9, PnlType
  <2>12. /\ Worth(pos.amount, slip) \in Int /\ Worth(pos.amount, MaxSlip) \in Int
         /\ Fee(Worth(pos.amount, exec)) \in Int
         /\ Fee(Worth(pos.amount, mark + MaxSlip)) \in Int
         /\ Fee(Worth(pos.amount, exec)) <= Fee(Worth(pos.amount, mark + MaxSlip))
         /\ Worth(pos.amount, slip) <= Worth(pos.amount, MaxSlip)
         /\ Fee(Worth(pos.amount, exec)) + Worth(pos.amount, slip) > 0
    <3>1. PICK a \in Nat : a = pos.amount /\ a > 0
      BY <2>3, <2>8
    <3>2. /\ Worth(a, slip) \in Int /\ Worth(a, MaxSlip) \in Int
          /\ Worth(a, slip) <= Worth(a, MaxSlip)
      <4>1. slip \in Int /\ MaxSlip \in Int /\ slip <= MaxSlip /\ a \in Int
        BY <2>4
      <4>2. Worth(a, slip) \in Int /\ Worth(a, MaxSlip) \in Int
        BY <4>1, WorthInt
      <4>3. Worth(a, slip) <= Worth(a, MaxSlip)
        BY <4>1, WorthOrder
      <4> QED
        BY <4>2, <4>3
    <3>3. /\ Fee(Worth(a, exec)) \in Int /\ Fee(Worth(a, mark + MaxSlip)) \in Int
          /\ Fee(Worth(a, exec)) <= Fee(Worth(a, mark + MaxSlip))
      <4>1. PICK top \in Int : top = mark + MaxSlip
        BY <2>4
      <4>2. exec <= top /\ exec \in Int
        BY <2>9, <4>1
      <4>3. /\ Fee(Worth(a, exec)) \in Int /\ Fee(Worth(a, top)) \in Int
            /\ Fee(Worth(a, exec)) <= Fee(Worth(a, top))
        BY <4>2, WorthOrder
      <4> QED
        BY <4>1, <4>3
    <3>4. PICK d \in Int : d = mark - slip
      BY <2>4
    <3>5. Fee(Worth(a, d)) <= Fee(Worth(a, exec)) /\ Fee(Worth(a, d)) \in Int
      BY <2>9, <3>4, WorthOrder
    <3>6. PICK m \in Int, l \in Int : m = a * mark /\ l = a * slip
      BY <2>4
    <3>7. a * d = m - l
      <4>1. a * (mark - slip) = a * mark - a * slip
        BY <2>4
      <4> QED
        BY <3>4, <3>6, <4>1
    <3>8. Fee(Worth(a, d)) = 4 * (m - l)
      <4>1. Fee(Worth(a, d)) = 4 * (a * d)
        BY WorthFacts
      <4> QED
        BY <3>7, <4>1
    <3>9. Worth(a, slip) = 10000 * l
      BY <2>4, <3>6, WorthFacts
    <3>10. m > 0 /\ l >= 0
      <4>1. a * 1 <= a * mark /\ a * 0 <= a * slip
        BY <2>4, ProductOrder
      <4> QED
        BY <3>1, <3>6, <4>1
    <3>11. Fee(Worth(a, exec)) + Worth(a, slip) > 0
      BY <3>2, <3>3, <3>5, <3>8, <3>9, <3>10
    <3> QED
      BY <3>1, <3>2, <3>3, <3>11
  <2>13. NetWorth(w) \in Int /\ NetWorth(u) \in Int /\ w.balance \in Int /\ u.balance \in Int
    BY <2>2, NetWorthType DEF WalletOK
  <2>14. NetWorth(w) - NetWorth(u) = Fee(Worth(pos.amount, exec)) + Worth(pos.amount, slip)
    BY <2>2, <2>5, <2>7, <2>8, <2>10, <2>11, <2>12, <2>13
  <2>15. TradeCostBound(pos, Worth(pos.amount, mark + MaxSlip)) =
           Fee(Worth(pos.amount, mark + MaxSlip)) + Worth(pos.amount, MaxSlip)
    BY DEF TradeCostBound
  <2>16. /\ NetWorth(u) < NetWorth(w)
         /\ NetWorth(w) - NetWorth(u)
              <= TradeCostBound(pos, Worth(pos.amount, mark + MaxSlip))
    BY <2>12, <2>13, <2>14, <2>15
  <2>17. CostsItsFees(w, u)
    BY <2>2, <2>13, <2>16 DEF CostsItsFees, pos, mark
  <2> QED
    BY <2>17 DEF u
<1> QED
  BY <1>1, <1>2

LEMMA ExecutedCost ==
    ASSUME NEW w, WalletOK(w), NEW s \in Symbols, MarkValid(w, s), NEW price \in Prices,
           NEW action \in Actions, NEW slip \in Slips
    PROVE  CostsItsFees(w, Executed(w, s, price, action, slip))
<1>1. CASE action = Hold
  <2>1. Executed(w, s, price, action, slip) = w
    BY <1>1 DEF Executed, Hold
  <2> QED
    BY <2>1, UnchangedCost
<1>2. CASE action = Close
  <2>1. Executed(w, s, price, action, slip) = UpdatePnl(ExecuteClose(w, s, price, slip))
    BY <1>2 DEF Executed, Close
  <2>2. WalletOK(ExecuteClose(w, s, price, slip))
    BY CloseType
  <2> QED
    BY <2>1, <2>2, CloseCost, RevaluedCost
<1>3. ASSUME NEW lev \in Requested, NEW side \in {"long", "short"}
      PROVE  CostsItsFees(w, UpdatePnl(OpenOrder(w, s, side, price, lev, slip)))
  <2> DEFINE u == OpenOrder(w, s, side, price, lev, slip)
             exec == OpenPrice(w, s, side, price, slip)
  <2>1. CASE u = w
    BY <2>1, UnchangedCost, RevaluedCost
  <2>2. CASE u # w
    <3>1. s \notin DOMAIN w.positions /\ exec \in ExecPrices
      BY <2>2, OpenCases
    <3>2. PICK l \in Leverages : \/ u = OpenAt(w, s, side, exec, 100, l)
                                 \/ u = UpdatePnl(OpenAt(w, s, side, exec, 100, l))
      BY <2>2, OpenCases
    <3>3. WalletOK(OpenAt(w, s, side, exec, 100, l))
      BY <3>1, OpenAtType
    <3>4. CostsItsFees(w, OpenAt(w, s, side, exec, 100, l))
      BY <3>1, OpenCost
    <3>5. /\ WalletOK(u)
          /\ CostsItsFees(w, u)
      BY <3>2, <3>3, <3>4, UpdatePnlType, RevaluedCost
    <3> QED
      BY <3>5, RevaluedCost
  <2> QED
    BY <2>1, <2>2
<1>4. ASSUME NEW lev \in Requested, action = Long(100, lev)
      PROVE  CostsItsFees(w, Executed(w, s, price, action, slip))
  <2>1. Executed(w, s, price, action, slip) =
          UpdatePnl(OpenOrder(w, s, "long", price, lev, slip))
    BY <1>4 DEF Executed, Long, OpenOrder
  <2> QED
    BY <1>3, <1>4, <2>1
<1>5. ASSUME NEW lev \in Requested, action = Short(100, lev)
      PROVE  CostsItsFees(w, Executed(w, s, price, action, slip))
  <2>1. Executed(w, s, price, action, slip) =
          UpdatePnl(OpenOrder(w, s, "short", price, lev, slip))
    BY <1>5 DEF Executed, Short, OpenOrder
  <2> QED
    BY <1>3, <1>5, <2>1
<1> QED
  BY <1>1, <1>2, <1>4, <1>5 DEF Actions, Requested

(* Trading never creates or destroys money, for every strategy, market and  *)
(* slippage: when every mark is valid, a step that trades lowers the net    *)
(* worth by the fee and the slippage of the position it opens or closes,    *)
(* and leaves it alone when the wallet refuses the trade.                   *)
THEOREM TradesCostTheirFeesCorrect == Spec => TradesCostTheirFees
<1> DEFINE A == trades' # trades /\ (\A s \in Symbols : MarkValid(wallet, s)) =>
                  CostsItsFees(wallet, wallet')
<1>1. TypeInv /\ [Next]_vars => A
  <2> SUFFICES ASSUME TypeInv, [Next]_vars, trades' # trades,
                      \A s \in Symbols : MarkValid(wallet, s)
               PROVE  CostsItsFees(wallet, wallet')
    OBVIOUS
  <2>1. PICK s \in Symbols, price \in Prices, slip \in 0..MaxSlip :
          \E action \in Evaluate(wallet, s, price) : RawEvent(s, price, action, slip)
    BY DEF Next, Subscribe, StreamEnded, ContextEvent, Advance, vars
  <2>2. PICK action \in Evaluate(wallet, s, price) : RawEvent(s, price, action, slip)
    BY <2>1
  <2>3. wallet' = Executed(wallet, s, price, action, slip)
    BY <2>2 DEF RawEvent
  <2>4. action \in Actions /\ slip \in Slips
    BY <2>1, <2>2, EvaluateFacts DEF Slips
  <2>5. WalletOK(wallet) /\ MarkValid(wallet, s)
    BY DEF TypeInv
  <2> QED
    BY <2>1, <2>3, <2>4, <2>5, ExecutedCost
<1>2. Spec => [][A]_vars
  BY <1>1, BrokerInit, BrokerStep, TypeInit, TypeStep, PTL DEF Spec
<1> QED
  BY <1>2 DEF TradesCostTheirFees, CostsItsFees, Held
================================================================================
