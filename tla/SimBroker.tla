-------------------------------- MODULE SimBroker --------------------------------
(***************************************************************************)
(* sim-broker: the listener (sim-broker/src/listener.rs) feeds the wallet  *)
(* from two NATS subjects, market.context and market.raw, in whatever      *)
(* order its select picks, and trades what the strategy decides            *)
(* (strategy.rs).  Only the listener touches the wallet, so a handler is   *)
(* one action; time passes between handlers.                               *)
(*                                                                         *)
(* The market is external: a context event for a symbol is generated at    *)
(* some time, names the next funding timestamp after it (a multiple of     *)
(* FundingPeriod), and is delivered late, after newer ones, again, or not  *)
(* at all: the listener does not look at the time of an event.             *)
(***************************************************************************)
EXTENDS Wallet, Sequences

CONSTANTS
    Symbols,         \* the symbols the market trades
    StrategyName,    \* "TrendFollow", "PingPong", or "Any" for any Strategy
    Marks,           \* mark prices the market may announce
    Prices,          \* prices trades may have
    Rates,           \* funding rates, in 1/10000
    Interests,       \* open interest values
    FundingPeriod,   \* time between two funding timestamps of the market
    MaxSlip,         \* slippage is at most this many price steps
    Skews,           \* how far the clock of the host may be ahead of the exchange's
    MaxTime,         \* bound: the clock stops here
    MaxTrades        \* bound: how many trades the listener executes

ASSUME FundingPeriodAssumption == FundingPeriod \in Nat \ {0}
ASSUME TimeAssumption == MaxTime \in Nat /\ MaxTrades \in Nat /\ MaxSlip \in Nat
ASSUME SkewsAssumption == Skews \subseteq Int

(* The listener skips a trade whose price is not positive; a mark price may *)
(* be anything.                                                             *)
ASSUME MarketAssumption ==
    Marks \subseteq Int /\ Prices \subseteq Nat \ {0} /\ Rates \subseteq Int

(* The smallest position, 100 USDT, buys at least one unit of coin: amounts *)
(* are real numbers in the code and never round to zero.                    *)
ASSUME AmountsAssumption == \A x \in Marks \union Prices : x + MaxSlip <= 100 * Coin

VARIABLES
    wallet,          \* the wallet of the listener
    listening,       \* both subscriptions are up
    now,             \* the clock of the exchange
    trades,          \* how many trades were executed
    owed,            \* history: funding timestamps that passed over a position
    charges          \* history: charges[s], the funding timestamps charged to s

vars == <<wallet, listening, now, trades, owed, charges>>

Options(S) == {{}} \union {{x} : x \in S}

(* The first funding timestamp after t. *)
NextFundingTime(t) == ((t \div FundingPeriod) + 1) * FundingPeriod

(* What the market can say about a symbol at time t. *)
ContextEvents(t) ==
    [symbol : Symbols, mark : Options(Marks), interest : Options(Interests),
     funding : Options([rate : Rates, next : {NextFundingTime(t)}])]

Held == DOMAIN wallet.positions

Init ==
    /\ wallet = NewWallet
    /\ listening = FALSE
    /\ now = 0
    /\ trades = 0
    /\ owed = [s \in Symbols |-> {}]
    /\ charges = [s \in Symbols |-> <<>>]

--------------------------------------------------------------------------------
(* The strategies.                                                          *)

Hold == [do |-> "hold"]
Long(margin, lev) == [do |-> "long", margin |-> margin, lev |-> lev]
Short(margin, lev) == [do |-> "short", margin |-> margin, lev |-> lev]
Close == [do |-> "close"]

(* EMA and RSI are not modelled: the signal may come at any trade. *)
TrendFollow(w, s, price) ==
    {Hold} \union (IF HasPosition(w, s) THEN {Close} ELSE {Long(100, 1)})

PingPong(w, s, price) ==
    IF w.balance < 10 * Usdt THEN {Hold}
    ELSE IF ~HasPosition(w, s) THEN {Long(100, 1)}
    ELSE IF price * 1000 > w.positions[s].entry * 1005 THEN {Close}
    ELSE {Hold}

(* What another implementation of the trait may answer: either side, with a *)
(* leverage below one and above one, or a close, whatever is held.          *)
AnyStrategy(w, s, price) ==
    {Hold, Close, Long(100, 0), Short(100, 2)}

Evaluate(w, s, price) ==
    CASE StrategyName = "TrendFollow" -> TrendFollow(w, s, price)
      [] StrategyName = "PingPong" -> PingPong(w, s, price)
      [] OTHER -> AnyStrategy(w, s, price)

(* The wallet after the listener executed an action: every arm revalues. *)
Executed(w, s, price, action, slip) ==
    CASE action.do = "long" ->
            UpdatePnl(ExecuteOpenLong(w, s, price, action.margin, action.lev, slip))
      [] action.do = "short" ->
            UpdatePnl(ExecuteOpenShort(w, s, price, action.margin, action.lev, slip))
      [] action.do = "close" -> UpdatePnl(ExecuteClose(w, s, price, slip))
      [] OTHER -> w

--------------------------------------------------------------------------------
(* The listener.                                                            *)

(* Connected and subscribed to both subjects. *)
Subscribe ==
    /\ ~listening
    /\ listening' = TRUE
    /\ UNCHANGED <<wallet, now, trades, owed, charges>>

(* One of the streams ends: the listener reconnects; the wallet survives. *)
StreamEnded ==
    /\ listening
    /\ listening' = FALSE
    /\ UNCHANGED <<wallet, now, trades, owed, charges>>

(* A trade at a valid price: evaluate, execute, revalue. *)
RawEvent(s, price, action, slip) ==
    /\ listening
    /\ action \in Evaluate(wallet, s, price)
    /\ action # Hold => trades < MaxTrades
    /\ wallet' = Executed(wallet, s, price, action, slip)
    /\ trades' = IF action = Hold THEN trades ELSE trades + 1
    /\ owed' = IF s \in Held \ DOMAIN wallet'.positions
               THEN [owed EXCEPT ![s] = {}] ELSE owed
    /\ UNCHANGED <<listening, now, charges>>

(* What apply_funding_if_due charges when the host's clock shows clock.      *)
ChargesAfter(w, clock) ==
    [s \in Symbols |->
        IF s \in FundingDue(w, clock)
        THEN Append(charges[s], w.funding[s].next)
        ELSE charges[s]]

(* Mutant: the context arm does not revalue the positions. *)
ContextEvent_NoRevalue(t, evt, skew) ==
    /\ listening
    /\ LET updated == UpdateContext(wallet, evt) IN
         /\ wallet' = ApplyFundingIfDue(updated, now + skew)
         /\ charges' = ChargesAfter(updated, now + skew)
    /\ UNCHANGED <<listening, now, trades, owed>>

(* A context event generated at time t: update, revalue, apply funding, by  *)
(* the clock of the host.                                                   *)
ContextEvent(t, evt, skew) ==
    /\ listening
    /\ LET updated == UpdatePnl(UpdateContext(wallet, evt)) IN
         /\ wallet' = ApplyFundingIfDue(updated, now + skew)
         /\ charges' = ChargesAfter(updated, now + skew)
    /\ UNCHANGED <<listening, now, trades, owed>>

(* Time passes.  A position the broker knows a funding timestamp of owes    *)
(* funding for it when that timestamp comes.                                *)
Advance ==
    /\ now < MaxTime
    /\ now' = now + 1
    /\ owed' = [s \in Symbols |->
                  IF s \in Held \intersect DOMAIN wallet.funding
                       /\ wallet.funding[s].next = now + 1
                  THEN owed[s] \union {now + 1} ELSE owed[s]]
    /\ UNCHANGED <<wallet, listening, trades, charges>>

Next ==
    \/ Subscribe
    \/ StreamEnded
    \/ \E s \in Symbols, price \in Prices, slip \in 0..MaxSlip :
         \E action \in Evaluate(wallet, s, price) : RawEvent(s, price, action, slip)
    \/ \E t \in 0..now, skew \in Skews :
         \E evt \in ContextEvents(t) : ContextEvent(t, evt, skew)
    \/ Advance

Spec == Init /\ [][Next]_vars

--------------------------------------------------------------------------------
(* Correctness.                                                             *)

Positions ==
    [side : {"long", "short"}, amount : Nat, entry : Int, leverage : Nat,
     margin : Nat, notional : Nat, liquidation : Int, value : Int, pnl : Int]

(* The shape of the state: the maps of the wallet have symbols of the       *)
(* market for keys, and only a symbol whose funding is known was charged.   *)
TypeOK ==
    /\ wallet.balance \in Int
    /\ DOMAIN wallet.positions \subseteq Symbols
    /\ \A s \in DOMAIN wallet.positions : wallet.positions[s] \in Positions
    /\ DOMAIN wallet.marks \subseteq Symbols
    /\ DOMAIN wallet.interest \subseteq Symbols
    /\ DOMAIN wallet.funding \subseteq Symbols
    /\ \A s \in DOMAIN wallet.funding :
         wallet.funding[s] \in [rate : Rates, next : Nat, applied : Nat]
    /\ listening \in BOOLEAN
    /\ now \in 0..MaxTime
    /\ trades \in 0..MaxTrades
    /\ owed \in [Symbols -> SUBSET (1..now)]
    /\ \A s \in Symbols \ DOMAIN wallet.funding : charges[s] = <<>>

(* Funding is applied once per funding timestamp per symbol: the timestamps *)
(* charged to a symbol increase strictly, over reconnects, late messages    *)
(* and positions closed and opened again, and the last one is remembered.   *)
FundingAtMostOnce ==
    \A s \in Symbols :
        /\ \A i, j \in DOMAIN charges[s] : i < j => charges[s][i] < charges[s][j]
        /\ \A i \in DOMAIN charges[s] : charges[s][i] <= wallet.funding[s].applied

(* Positions use the mark price for unrealized PnL: whenever the listener   *)
(* waits for a message, every position with a valid mark is valued at it.   *)
ValuationFresh ==
    \A s \in Held : MarkValid(wallet, s) =>
        /\ wallet.positions[s].value = Worth(wallet.positions[s].amount, wallet.marks[s])
        /\ wallet.positions[s].pnl = Pnl(wallet.positions[s], wallet.marks[s])

(* What the whole step cost, at most: the fee on what was paid or received  *)
(* for the position, and its slippage.                                      *)
TradeCostBound(pos, notional) == Fee(notional) + Worth(pos.amount, MaxSlip)

(* Trading never creates or destroys money: when every mark is valid, an    *)
(* open or a close lowers the net worth by its fee and its slippage only,   *)
(* whatever was gained or lost while the position was held.                 *)
TradesCostTheirFees ==
    [][ trades' # trades /\ (\A s \in Symbols : MarkValid(wallet, s)) =>
          /\ NetWorth(wallet') <= NetWorth(wallet)
          /\ \A s \in Symbols :
               /\ s \in DOMAIN wallet'.positions \ Held =>
                    LET pos == wallet'.positions[s] IN
                    /\ NetWorth(wallet') < NetWorth(wallet)
                    /\ NetWorth(wallet) - NetWorth(wallet') <= TradeCostBound(pos, pos.notional)
               /\ s \in Held \ DOMAIN wallet'.positions =>
                    LET pos == wallet.positions[s] IN
                    /\ NetWorth(wallet') < NetWorth(wallet)
                    /\ NetWorth(wallet) - NetWorth(wallet')
                         <= TradeCostBound(pos, Worth(pos.amount, wallet.marks[s] + MaxSlip)) ]_vars

(* wallet.rs:2 and :120: funding is applied at the funding timestamps, once *)
(* per timestamp: once a context event of the symbol is handled after the   *)
(* timestamp, a position that was open when it passed has paid for it.  The *)
(* handler overwrites next_funding_time before it looks at what is due.     *)
FundingCollected ==
    [][ \A t \in 0..MaxTime, skew \in Skews : \A evt \in ContextEvents(t) :
          ContextEvent(t, evt, skew) =>
            owed[evt.symbol] \subseteq Range(charges'[evt.symbol]) ]_vars
================================================================================
