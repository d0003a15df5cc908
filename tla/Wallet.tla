--------------------------------- MODULE Wallet ---------------------------------
(***************************************************************************)
(* The wallet of sim-broker (sim-broker/src/wallet.rs) as operators from a *)
(* wallet to the wallet after the call.  A HashMap is a function whose     *)
(* domain is the set of keys present, an Option a set of at most one value.*)
(* Symbols are the normalised ones (norm_symbol).                          *)
(*                                                                         *)
(* Amounts of money are whole numbers of 1/600000 USDT, amounts of coin of *)
(* 1/60 coin, prices whole USDT: with prices that divide 60 amounts, fees  *)
(* and profits are exact, so what the properties compare is not rounding.  *)
(* Only the liquidation estimate, which nothing reads, is rounded.         *)
(* Slippage is a whole number of price steps against the trader instead of *)
(* a fraction of the price up to 0.0005.                                   *)
(***************************************************************************)
EXTENDS Integers, FiniteSets, Functions

Usdt == 600000     \* one USDT in units of money
Coin == 60         \* one coin in units of coin

(* The value of an amount of coin at a price. *)
Worth(amount, price) == amount * price * (Usdt \div Coin)

(* notional * 0.0004, and notional * funding_rate for a rate in 1/10000. *)
Fee(notional) == (notional \div 10000) * 4
FundingFee(notional, rate) == (notional \div 10000) * rate

(* HashMap insert and remove. *)
Put(map, key, value) ==
    [x \in DOMAIN map \union {key} |-> IF x = key THEN value ELSE map[x]]
Remove(map, key) == [x \in DOMAIN map \ {key} |-> map[x]]

EmptyMap == [x \in {} |-> 0]

NewWallet ==
    [balance |-> 1000 * Usdt, positions |-> EmptyMap, marks |-> EmptyMap,
     funding |-> EmptyMap, interest |-> EmptyMap]

HasPosition(w, s) == s \in DOMAIN w.positions

(* A mark price the valuations use: present and positive. *)
MarkValid(w, s) == s \in DOMAIN w.marks /\ w.marks[s] > 0

--------------------------------------------------------------------------------
(* market.context                                                           *)

(* The funding state of a symbol keeps what was applied last. *)
FundingUpdated(w, s, fund) ==
    [rate |-> fund.rate, next |-> fund.next,
     applied |-> IF s \in DOMAIN w.funding THEN w.funding[s].applied ELSE 0]

(* evt: symbol, and optional mark, interest and funding (rate and time). *)
UpdateContext(w, evt) ==
    LET s == evt.symbol IN
    [w EXCEPT
        !.marks = IF evt.mark = {} THEN @
                  ELSE Put(@, s, CHOOSE m \in evt.mark : TRUE),
        !.interest = IF evt.interest = {} THEN @
                     ELSE Put(@, s, CHOOSE i \in evt.interest : TRUE),
        !.funding = IF evt.funding = {} THEN @
                    ELSE Put(@, s, FundingUpdated(w, s, CHOOSE f \in evt.funding : TRUE))]

Pnl(pos, price) ==
    IF pos.side = "long" THEN Worth(pos.amount, price - pos.entry)
                         ELSE Worth(pos.amount, pos.entry - price)

Revalued(pos, mark) ==
    [pos EXCEPT !.value = Worth(pos.amount, mark), !.pnl = Pnl(pos, mark)]

(* Revalue every position whose mark price is valid. *)
UpdatePnl(w) ==
    [w EXCEPT !.positions =
        [s \in DOMAIN w.positions |->
            IF MarkValid(w, s) THEN Revalued(w.positions[s], w.marks[s])
                               ELSE w.positions[s]]]

(* Mutant: funding that was applied already is due again. *)
FundingDue_Again(w, now) ==
    {s \in DOMAIN w.positions \intersect DOMAIN w.funding : now >= w.funding[s].next}

(* Positions whose funding timestamp has come and was not applied yet. *)
FundingDue(w, now) ==
    {s \in DOMAIN w.positions \intersect DOMAIN w.funding :
        /\ now >= w.funding[s].next
        /\ w.funding[s].applied < w.funding[s].next}

ApplyFundingIfDue(w, now) ==
    LET due == FundingDue(w, now)
        fees == [s \in due |-> FundingFee(w.positions[s].notional, w.funding[s].rate)] IN
    [w EXCEPT
        !.balance = @ - SumFunction(fees),
        !.funding = [s \in DOMAIN w.funding |->
            [w.funding[s] EXCEPT !.applied = IF s \in due THEN w.funding[s].next ELSE @]]]

--------------------------------------------------------------------------------
(* market.raw                                                               *)

ExecReferencePrice(w, s, price) == IF MarkValid(w, s) THEN w.marks[s] ELSE price

LiquidationPriceEstimate(side, entry, lev) ==
    IF side = "long" THEN entry - entry \div lev ELSE entry + entry \div lev

(* The two early returns, and the check after the price is known. *)
MayOpen(w, s, margin, lev) ==
    /\ w.balance >= 10 * Usdt
    /\ ~HasPosition(w, s)
    /\ w.balance >= margin * Usdt + Fee(margin * lev * Usdt)

(* The position that margin and leverage buy at price exec. *)
NewPosition(side, exec, margin, lev) ==
    LET amount == (margin * lev * Coin) \div exec IN
    [side |-> side, amount |-> amount, entry |-> exec,
     leverage |-> lev, margin |-> margin * Usdt, notional |-> margin * lev * Usdt,
     liquidation |-> LiquidationPriceEstimate(side, exec, lev),
     value |-> Worth(amount, exec), pnl |-> 0]

(* Mutant: the position is inserted under a key that is not normalised. *)
OpenAt_OtherKey(w, s, side, exec, margin, lev) ==
    [w EXCEPT !.balance = @ - (margin * Usdt + Fee(margin * lev * Usdt)),
              !.positions = Put(@, <<s>>, NewPosition(side, exec, margin, lev))]

(* The position opened at price exec, and the wallet that pays for it. *)
OpenAt(w, s, side, exec, margin, lev) ==
    [w EXCEPT !.balance = @ - (margin * Usdt + Fee(margin * lev * Usdt)),
              !.positions = Put(@, s, NewPosition(side, exec, margin, lev))]

AtLeastOne(leverage) == IF leverage < 1 THEN 1 ELSE leverage

(* Buys at the reference price plus slip; revalues if there is a mark. *)
ExecuteOpenLong(w, s, price, margin, leverage, slip) ==
    LET lev == AtLeastOne(leverage)
        exec == ExecReferencePrice(w, s, price) + slip
        opened == OpenAt(w, s, "long", exec, margin, lev) IN
    IF ~MayOpen(w, s, margin, lev) THEN w
    ELSE IF s \in DOMAIN w.marks THEN UpdatePnl(opened) ELSE opened

(* Sells at the reference price minus slip, if that is a price. *)
ExecuteOpenShort(w, s, price, margin, leverage, slip) ==
    LET lev == AtLeastOne(leverage)
        exec == ExecReferencePrice(w, s, price) - slip IN
    IF ~MayOpen(w, s, margin, lev) \/ exec <= 0 THEN w
    ELSE UpdatePnl(OpenAt(w, s, "short", exec, margin, lev))

(* Mutant: closing slips in favour of the trader. *)
ExecuteClose_SlipSwapped(w, s, price, slip) ==
    IF ~HasPosition(w, s) THEN w
    ELSE LET pos == w.positions[s]
             ref == ExecReferencePrice(w, s, price)
             exec == IF pos.side = "long" THEN ref + slip ELSE ref - slip IN
         [w EXCEPT !.positions = Remove(@, s),
                   !.balance = @ + pos.margin + Pnl(pos, exec)
                                 - Fee(Worth(pos.amount, exec))]

(* Gives back the margin and the realized pnl, minus the fee. *)
ExecuteClose(w, s, price, slip) ==
    IF ~HasPosition(w, s) THEN w
    ELSE LET pos == w.positions[s]
             ref == ExecReferencePrice(w, s, price)
             exec == IF pos.side = "long" THEN ref - slip ELSE ref + slip
             fee == Fee(Worth(pos.amount, exec)) IN
         [w EXCEPT !.positions = Remove(@, s),
                   !.balance = @ + pos.margin + Pnl(pos, exec) - fee]

--------------------------------------------------------------------------------
(* Margin and profit of a position; without a mark it is valued at price zero. *)
Equity(w, s) ==
    w.positions[s].margin
        + Pnl(w.positions[s], IF s \in DOMAIN w.marks THEN w.marks[s] ELSE 0)

NetWorth(w) == w.balance + SumFunction([s \in DOMAIN w.positions |-> Equity(w, s)])
================================================================================
