# A verification project for quantum-sentry

quantum-sentry moves market data from Binance over NATS to ClickHouse
(market-ingestor, market-persister), simulates a futures broker on the same
stream (sim-broker) and prepares training data from what was stored
(scripts/prepare_tcn_data.py). This directory holds TLA+ models of the parts
with state and concurrency, the TLC runs that check them on small instances,
and proofs of the central properties for all values of the constants.

Contents: inventory, plan, models and code, runs, fairness, proofs, limits.

## 1. Inventory

| Component | State | Operations | What makes it hard |
|---|---|---|---|
| **persister, ingest tasks** (4 loops in `market-persister/src/main.rs`) | NATS subscription, the row being sent | connect and subscribe, receive and decode, `tx.send().await`, reconnect | back pressure of a bounded channel; shutdown at any await |
| **persister, writers** (4 loops in `main.rs`) | row buffers (two in the raw writer), ClickHouse client, position in the loop | ping until ready, `ensure_schema`, `select!` of a 1 s tick and `recv`, flush, recovery after an error | an insert may fail after landing; retained buffers; four writers share one database |
| **ClickHouse** (`ch.rs`, external server) | tables, rows | `CREATE TABLE IF NOT EXISTS` in order, batch inserts | DDL stops at the first error; MergeTree does not deduplicate |
| **row decoding** (`market-persister/src/model.rs`) | none | JSON to trade, BBO, context, depth or liquidation row | which shape becomes which row; conversions that differ from the ingestor's; best bid and ask |
| **wallet** (`sim-broker/src/wallet.rs`) | balance, positions, marks, funding state, open interest | context update, revaluation, funding, open long or short, close, net worth | once-per-timestamp funding; money moved by separate formulas |
| **listener** (`sim-broker/src/listener.rs`) | wallet, subscriptions | raw event, context event, stream end, reconnect | two subjects in any relative order, late events, time passing |
| **strategies** (`sim-broker/src/strategy.rs`) | indicator series | evaluate a trade | decides the sequences of opens and closes |
| **universe task** (`market-ingestor/src/universe.rs`, `main.rs`) | value of a watch channel | fetch, compare, broadcast | may fall between any two steps of a receiver |
| **websocket managers** (`StreamManager`, `FuturesContextStreamManager` in `stream.rs`) | symbols in use, seen flag, socket, backoff | wait for a universe, connect, read, hot swap, reconnect | changed and borrow are two steps; empty universe; failures everywhere |
| **open interest fetcher** (`run_oi_fetcher`) | cache, shared with the futures handler | sweep by REST every 60 s | waits on the same channel with other rules; answers race the socket's frames |
| **clock sync** (`run_clock_sync`) | clock offset | estimate from a round trip | error of half a round trip; a host clock that moves during a request |
| **NatsPublisher** (`messaging.rs`) | client with its command channel, backoff | publish, connect on demand | sleeps on the caller's path and waits there for a full channel; doubling and reset spread over three functions |
| **message handlers** (`stream.rs`, `model.rs`) | none but the cache | parse, normalise, publish | every field in one of several JSON forms; unreadable levels dropped from parallel columns |
| **TCN data** (`scripts/prepare_tcn_data.py`) | data frame, feature array | query, drop rows, mask, windows, targets | window and target stay aligned over dropped and repeated rows |

The processes interact by NATS subjects: `market.raw`, `market.context`,
`market.depth.*` and `market.liq.*` go from the ingestor to the persister, the
first two to the sim-broker as well. NATS core delivery is at most once, so each
consumer is modelled against a bus that delivers anything or nothing. Within a
process tasks share an mpsc channel (persister) or a watch channel and a cache
(ingestor); the wallet has a single owner, the listener.

What makes each component correct:

* persister: a row that was taken is stored or still on its way unless the
  process ends; rows of a kind are not overtaken; duplicates come only from
  retries; buffers drain when ClickHouse answers again.
* sim-broker: money only moves by trading costs, profit and funding; funding is
  charged once for each timestamp that a position was held over; valuations
  follow the marks.
* ingestor: a broadcast universe is eventually the one every manager reads; no
  broadcast is missed; an empty one does not end the process. A message is given
  up only if NATS refused it; ingest times are right up to half a round trip; a
  trade is stored exactly if each of its fields comes in a form its comment names; a
  row of levels is of the book it came from; cached open interest does not become older.
* TCN data: a window ends with the row its target starts from, and holds nothing
  as late as what its target looks at.

The hazards behind these, each with its source line and the properties that
cover it, are listed in `PROJECT.json`.

## 2. Plan

Done:

1. `AtLeastOnceSink`, `Persister`: delivery, the core of the system, with its
   refinement and proofs.
2. `Wallet`, `SimBroker`: accounting and funding, with proofs.
3. `UniverseHotSwap`: the watch channel protocol, with proofs.
4. `AtMostOnceBus`, `NatsPublisher`: the publisher composed with the read loop that
   awaits it, with its refinement and proofs.
5. `ClockSync`: offset estimation and ingest times, with a proof of the error bound.
6. `RawFeed`: `market.raw` through both services, with proofs.
7. `FuturesContext`: the futures handlers and the cached open interest, with proofs.
8. `TcnWindows`: windows and targets over the table the persister leaves, with proofs.

Every invariant and every safety action property that a passing run checks is also
proved (section 6). To come: exact accounting of a funding step (the balance falls by the
fees of the positions due and by nothing else), and the hazards that no property covers.

## 3. Models and code

### Persister

`Persister` is parameterised by the set of pipelines that run; the four
pipelines of the program have the same shape, so one set of actions indexed by
the pipeline stands for the four ingest loops and the four writer loops.

| Model | Code |
|---|---|
| `connected`, `held` | the `sub` stream of an ingest loop; the row inside `tx.send(row).await` |
| `chan` | the mpsc channel, capacity `ChanCap` (200 000, 50 000 for liq) |
| `writer`, `todo` | where the writer loop is; which buffers the current `select!` arm has left to flush (trade before BBO) |
| `buffer` | `trade_buffer`, `bbo_buffer`, `buffer`, `buf` |
| `created` | how far `ensure_schema` ever got in its fixed order |
| `store` | the rows of each table in the order they landed |
| `NatsSubscribed`, `NatsEnded`, `Receive`, `Send` | an ingest loop, split at its awaits |
| `PingOk`, `EnsureSchema` | the startup of a writer; errors of the schema are logged only |
| `Tick`, `Recv` | the arms of the `select!` |
| `FlushOk`, `FlushErr`, `Recover` | the `flush_*_with_retry` functions: success and clear; failure with the buffer retained; sleep, new client, ping and schema with ignored results |
| `Shutdown`, `Restart` | Ctrl-C drops every task, channel and buffer; a new process starts empty |

A failed insert may have landed any prefix of its batch: nothing (table missing,
server down), some rows, or all (the answer was lost). Successive statements
between two awaits of one task are one action, because tasks share nothing else.
Not modelled: the payload of rows, the lengths of delays, messages that do not
decode. The `None` arm of the writers is left out because it cannot run: the only
sender lives in an ingest task that returns only after the receiver is gone.

`taken`, `lost` and `retried` are history variables. `AtLeastOnceSink` is the
abstract promise (rows are taken once, stored at least once, or given up when
the process ends); `Persister` refines it with `stored` as the set of rows that
have a copy in some table.

### SimBroker

`Wallet` has the methods of `Wallet` as operators from a wallet to the wallet
after the call; `SimBroker` has the listener's two handlers, each one action
because a handler has no await and the wallet no other owner. Money is in
1/600000 USDT and coin in 1/60 coin, and prices divide 60, so that amounts, fees
and profits are exact integers; rounding of `f64` is not modelled. Slippage is a
number of price steps against the trader (the code draws a fraction up to
0.0005). `StrategyName` chooses TrendFollow or PingPong; the values of EMA and RSI are
abstracted, so TrendFollow may signal at any trade. `"Any"` stands for an arbitrary
implementation of the trait: it holds, closes, and opens either side, with a leverage of
2 or of 0 (raised to 1 by the code). The market is external: an event generated at time t
names the next funding timestamp after t, and may be handled late, out of order, again or
never, for one symbol before or after another: `listener.rs:140-157` checks no order.

The handlers judge funding by the clock of the host, which is off by any of `Skews`
from the clock of the exchange, by another one at each event: a clock that is set
between two events is among these.

`owed` and `charges` are history variables: which known funding timestamps passed
over a position, and which were charged.

### UniverseHotSwap

`universe` is the value of the watch channel and `unseen[m]` the receiver's
version flag: `borrow()` reads without marking, `changed()` marks without
reading. `pc[m]` is the manager's position in `run`: the startup loop, the top of
the loop, waiting while empty, connecting, reading, comparing after `changed()`,
pausing. Both managers run the same loop. The fetcher has its own position
and the set of symbols left in its sweep. A universe is a set, since
`fetch_top_50_coins` sorts and deduplicates. Since the universe task owns the
sender for ever, the arms for a dropped sender cannot run and are left out. The universe
is ranked by spot tickers (`universe.rs:6`) while open interest is asked of the futures API
(`stream.rs:405`): `Futures` are the symbols that both trade, and a request for any other
is refused every time.

### NatsPublisher

One manager's read loop with the publisher it calls. `main.rs` gives each manager a
publisher of its own, so the mutex of `Inner` is never contended and one caller is
the whole of it.

| Model | Code |
|---|---|
| `client`, `backoff`, `slept` | `inner.client`, `inner.backoff`, and the local copy that `ensure_connected` takes before it waits |
| `queued`, `ClientCap`, `Drain` | the bounded command channel inside `async_nats::Client`; external, emptied while the server is up |
| `pc` | `read` in the `select!`; `connecting`, `sleeping`, `publishing` at the awaits inside `publish()`; `rejoin` between two sockets |
| `inbox` | frames that arrived on the socket and were not read |
| `ReadMessage`, `ReadOther`, `Changed`, `SocketEnds`, `Rejoin` | the arms of the read loop (`stream.rs:203-274`, and the same loop of the futures manager) |
| `ConnectOk`, `ConnectErr`, `Wake` | `ensure_connected`: reset of the backoff, the wait, the doubling after it |
| `PublishOk`, `PublishErr`, `PublishNothing` | `publish`: handed over, once the channel has room; client dropped and `Ok` returned; no client, `Ok` returned |
| `Stalled` | `client.publish(..).await` on a full channel, which has no timeout |
| `up`, `NatsUpOrDown`, `Arrive`, `Broadcast` | external: the server, the socket, the universe |

`AtMostOnceBus` is what the persister's and the broker's models assume of the bus:
frames leave a queue in order, each is passed on at most once or given up (`Safety`), and
every one is done with in the end (`Fairness`). `NatsPublisher` implements it with the frame
inside `publish()` in front of `inbox` as the queue: `Safety` always, `Fairness` unless a client
that was connected loses its server for good with a full channel. Then `publish()` waits in
`client.publish(..).await`, and the read loop with it.

### ClockSync

The initial attempts and the periodic loop of `run_clock_sync` share their actions:
`Send`, `AnswerOk`, `AnswerErr`, with `attempt` 0 in the periodic loop. Only differences of
times enter the code, so exchange time is counted from the sending of the request
(`elapsed`), and a reading of the host clock is that time plus `skew`; nothing of the
offset's arithmetic is lost by that, including Rust's division toward zero (`Half`).
`Slew` moves the host clock at any time, forward or back. `HandleFuturesMessage` stamps a
normalised row, `IngestRaw` a row of the persister. `slewing` and `synced` are history: how
far the clock moved during the request, and round trip and movement of the last sync.

### RawFeed

One spot symbol from the order book at the exchange to rows in `trade_ticks` and
`bbo_ticks`. A JSON value is its form (number, string, Boolean, array, null, absent; levels for
the sides of a depth update) and what Rust makes of it (an integer, a fraction, not finite,
"true", anything else), because the two services convert every field with rules of their
own. All ten fields of a trade are free, those that nobody stores (`s`, `M`, `b`, `a`)
included: one that the ingestor cannot read loses the trade.

| Model | Code |
|---|---|
| `PlaceBid`, `PlaceAsk`, `SendDepth`, `SendPayload` | external: the book, the depth stream, the trade stream and payloads of other event types |
| `HandleTrade`, `HandleOther`, `HandleErr` | `StreamManager::handle_text_message`: a `trade` is parsed and written anew, other events are passed on as they came, a parse error is logged |
| `Lose` | NATS core |
| `IngestRaw` | `nats_ingest_raw_loop`: `to_trade_row`, else `to_bbo_row`, else nothing |
| `IsU64`, `IsOptU64`, `IsFlag`, `IsText`, `TradeParses`, `DepthParses`; `AsF64`, `AsInt`, `ExtractBool`, `ExtractTs` | the conversions of the ingestor; those of the persister |
| `ParseLevels`, `BestBid`, `BestAsk` | the functions of these names |

One message is on its way at a time and the book rests meanwhile, since a message is
compared with the book it was sent of. Left out are symbol names, ingest times, first update
ids, integers that are negative or beyond `i64`, and the keys `price`, `quantity`, `bids` and
`asks` that the persister takes for `p`, `q`, `b` and `a` and that Binance does not send.

### FuturesContext

What `handle_futures_message` does to the cache and publishes, and the sweep of
`run_oi_fetcher` request by request (`Sweep`, `Get`, `ServerReads`, `RestOk`, `RestErr`). The open
interest of a symbol is counted by its changes, so that older is smaller. `HandleDepth`
builds the two columns of each side as the code does, dropping the levels it cannot
read; `HandleForceOrder`, `HandleMark` and `HandleOpenInterest` are the other arms. Frames wait in
`frames`, requests in `request`, so either may be late. `published` is the last event.

### TcnWindows

`process_data` step by step on a table kept by snapshots that are lost, stored once or
stored again (`Store`, external to the script: the persister's retried insert). `DropNa` and
`Mask` go row by row; `Windows` cuts the samples with the row arithmetic of the code.
Feature and return values are left out: a sample is the rows it is made of. `TypeOK`
holds what the two data structures of the script depend on: `feature_data` and `df` have
as many rows.

## 4. Runs

One run for each component, one more for the liveness of the persister (its state
space with fairness is too large for the safety instance), and three that refute what
the repository says.

| Run | Shows | Bounds and why they are enough |
|---|---|---|
| `persister` | `TypeOK`, `NoSilentLoss`, `DuplicatesOnlyByRetry`, `NoOvertaking`, `BatchBound`, `SinkSpec` | raw and liq in one process, 3 rows, flush threshold 2, channel capacity 1, at most 1 row of a kind left by a failed insert: one row can be landed, one buffered, one blocked on a full channel; a retained buffer exceeds the threshold; trade and BBO wait for the same tick; tables are created by the other writer; one shutdown for both |
| `persister_live` | `EventuallyStored` | raw, 2 rows, 1 landed copy: a schema that fails at startup and a retry are needed; unboundedly many failures and restarts |
| `broker` | `TypeOK`, `ValuationFresh`, `FundingAtMostOnce`, `TradesCostTheirFees` | two symbols under any strategy, mark 4, trades at 5 (a loss for one side and a profit for the other; other prices by proof), slippage up to one step; three trades: open, close and open again, with two funding timestamps of each symbol (period 2, time up to 3; a clock that is ahead makes the second one due), context events in any order and a host clock one unit off either way |
| `universe` | `TypeOK`, `NoLostUpdate`, `UrlHasSymbols`, `OiNotAsleep`, `HotSwap`, `OpenInterestFetched` | three symbols of which two make a universe: universes differ without being disjoint, and the cut at `TopN` matters; one symbol has no futures; one manager (managers do not interact; the proofs have any number); unboundedly many refreshes and failures |
| `nats_publisher` | `TypeOK`, `GivenUpOnlyIfRefused`, `BusSafety`, `BusFair`, `HotSwapUnlessStalled`, `Recovers` | the backoffs of the code (250 ms to 10 s, so six doublings and the cap), two messages and a ping, three frames waiting, a command channel of two: filled while the server is away, and emptied when it is back |
| `clock_sync` | `TypeOK`, `StampError`, `EventuallyAccurate` | skews -1 to 1, round trips up to 2, clock movements up to 3: the clock can be set back by more than a round trip during a request; two initial attempts, so both loops run |
| `raw_feed` | `TypeOK`, `TradeStoredIffSound`, `BboIsOfTheBook` | three prices, quantity 1 and 0 as removal, levels that are null, not finite or unreadable; trades with any one of the ten fields in any of fifteen JSON values, and with some pairs and mixtures (the code treats fields one by one, apart from its order of early returns) |
| `futures` | `TypeOK`, `SnapshotWhole`, `OiNeverOlder`, `OiFreshInTheEnd` | two symbols, one of them also over the socket; one change of each open interest, one frame waiting: a frame and an answer can overtake each other; a depth message with a bad price and a bad quantity on each side |
| `tcn` | `TypeOK`, `SamplesAligned`, `NoLeakage`, `SamplesComplete` | six snapshots, each lost or stored once or twice, good, empty or not finite; window 2, horizon 2, limit 6: tables longer and shorter than the limit, with and without samples |
| `persister_dup` | violation of `IdempotentInserts` | 2 rows |
| `broker_skipped` | violation of `FundingCollected` | one trade, no clock error |
| `raw_best` | violation of `BboIsBest` | one depth update is enough |

The bounds are `MaxRows` and `MaxLanded` (Persister), `MaxTime`, `MaxTrades` and `MaxSlip`
(SimBroker), `InboxMax` and the external `ClientCap` (NatsPublisher), `MaxRtt` and `MaxSlew` (ClockSync), `MaxQty` (RawFeed),
`MaxOi` and `MaxFrames` (FuturesContext), `MaxTicks` and `MaxCopies` (TcnWindows).
UniverseHotSwap has none. Only `TcnWindows.cfg` turns deadlock checking off: its market
ends with `MaxTicks`, perhaps with too few rows for the script to run.
`SimBroker.cfg` declares the symbols symmetric, which is sound because it checks
invariants and an action property that treat symbols alike, and no liveness.

The violations are disagreements between the code and what the repository says:

* `IdempotentInserts`: `ch.rs:42` and `:61` speak of idempotency by `trade_id` and
  `update_id`. The tables are plain MergeTree and a batch whose insert failed is
  sent again, so rows that had landed are stored twice.
* `FundingCollected`: `wallet.rs:2` and `:120` say funding is applied at the funding
  timestamps. `listener.rs:154` first overwrites `next_funding_time`; the first
  event after the timestamp already names the next one, so the passed one is
  charged only if an older event arrives late.
* `BboIsBest`: `README.md:66` and `model.rs:65` call a row of `bbo_ticks` the best bid and
  offer. It is the best of the levels that changed.

Met while modelling, and told here without a run:

* A retained batch exceeds the 10 000 rows of `docs/ALGORITHM_ANALYSIS.md:102` and `:112`;
  `BatchBound` states when.
* A position opened after a funding timestamp is charged for it when the next context
  event still names that timestamp (`wallet.rs:127`; `wallet.rs:2` says "at funding timestamps").
* `messaging.rs:10`, `:71` and `:101` say that with NATS down the publisher keeps going and the read
  loop does not stall. The handlers await it, so the loop sleeps with it, up to 10 s for a message;
  and once a client was connected, its messages go to a bounded channel that nobody empties
  while the server is away: when it is full, `messaging.rs:83` waits as long as NATS is down, and
  the loop sees neither frames nor universes. `BusFair` and `HotSwapUnlessStalled` need the premise
  that this does not last; without it TLC finds both violated.
* `stream.rs:41` says the offset is set before depth and context messages. Nothing waits for
  the first sync; until then rows are stamped with offset 0. Trade and BBO rows are
  stamped by the persister's own clock (`market-persister/src/main.rs:115`), which no sync corrects,
  against `README.md:17`.
* `market-persister/src/model.rs:13` says `ts_exchange` is the event time; for a trade it is
  the trade time (`extract_ts_ms` takes `T` first).
* `PHASE_2_TODO.md:13` says the target is 10 ticks ahead. It is 10 rows ahead, and a
  snapshot that a retried insert stored twice is two rows.

Every property of a passing run also has a mutant in `PROJECT.json`: a plausible
mistake in the code (an operator with the suffix of the mistake, beside the
definition it changes) under which TLC finds the property violated.

## 5. Fairness

*Persister.* `WF` of every writer step: the tokio runtime drives a task that is not
blocked. `SF` of `Send`, `Recv` and `Tick`: the capacity of the channel is given to
the waiting sender, and `tokio::select!` picks at random among its ready arms, so
an arm that is ready again and again is taken. `SF` of `PingOk`, `FlushOk` of each kind
and a `Recover` whose schema completes: ClickHouse answers at some time if it is
asked for ever. This is the assumption under which the code's retries can be of any
use. Nothing is assumed of NATS, of Ctrl-C or of a restart.

*UniverseHotSwap.* `WF` of the steps of every task. `SF` of `ConnectOk`: of infinitely many
connection attempts some succeed. `SF` of `ChangedWhileReading`: a socket is not always
lost before the `select!` takes the ready `changed()` arm. `SF` of a successful request for
each symbol that the futures exchange trades, and for no other. Nothing is assumed of the universe task or of sockets staying up.

*NatsPublisher.* `WF` of the steps of `publish()` and of `Rejoin`: connection attempts and sleeps end.
`SF` of reading a frame and of `Changed`: `select!` picks at random among ready arms. `SF` of `Drain`: a
server that is up again and again takes a command. Nothing brings the server up, and nothing makes
a client report an error (`PublishErr`). `BusFair` and `HotSwapUnlessStalled` have the premise
`[]<>(up \/ ~Stalled)`; `Recovers` has the premise that NATS stays up and that messages keep coming.

*ClockSync.* `WF` of `Send` and of the end of a request, `SF` of `ServerReads` and `AnswerOk`: requests end,
and of infinitely many some are answered. `EventuallyAccurate` has the premise that the skew
stays.

*FuturesContext.* `WF` of the sweep, of the end of a request and of handling a frame, `SF` of the answer for
each symbol: of infinitely many requests for a symbol some are answered.

That a request ends is an assumption about the network: `market-ingestor/src/main.rs:30` builds the HTTP
client without a timeout, so a connection that hangs for ever would hold up the clock
sync, the sweep and the universe task (listed as a hazard).

RawFeed and TcnWindows have safety properties only.

## 6. Proofs

All proofs are checked by TLAPS down to the last leaf, for all values of the
constants that satisfy the named assumptions.

*`PersisterProofs`* (assumptions: positive thresholds and capacities, `Pipelines` a
subset of the four).

* `TypeCorrect`: `TypeOK` is inductive as it stands.
* `NoSilentLossCorrect`: `NoSilentLoss` alone is not inductive: to know that a received row
  is not among the lost ones one needs that its number is new (`IdsFresh`), and to
  move rows between sequences one needs their types. `DeliveryInv` is the conjunction
  of the three. The proof has a lemma per kind of step that says how it moves rows
  (`ReceiveMoves`, `SendMoves`, `RecvMoves`, `FlushOkMoves`, `FlushErrMoves`,
  `ShutdownMoves`), on top of what `Append`, `Head`, `Tail`, `\o` and `SubSeq` do to the
  set of rows of a sequence.
* `PersisterImplementsSink`: with the same lemmas, every step maps to `Take`, `Store`,
  `GiveUp` or a stutter. `SinkInvariantCorrect` is the sink's own invariant for the persister.
* `NoOvertakingCorrect`: `NoOvertaking` looks at the tables only; `OrderInv` looks at the whole
  way of a row. The row inside `send`, the channel (`QueueOrdered`) and each buffer with its table
  (`KindOrdered`) are in the order in which rows were taken, and what is nearer to the table is
  older.
* `DuplicatesOnlyByRetryCorrect`: `DuplicatesInv` says where a copy may be: two places of a table,
  or table and buffer, hold one row only if it was retried. It needs `OrderInv`, by which a row
  that is received is not in the table or the buffer.
* `BatchBoundCorrect`: `BatchAt` follows a buffer that has reached its threshold: the writer is
  about to flush this one and no other, or its oldest rows were retried. During a recovery
  every row of the buffer that failed was.

*`SimBrokerProofs`* (assumptions: `FundingPeriod` is a positive number; marks, rates and clock
errors are integers, prices of trades positive, because `listener.rs:100` skips the others;
no price is so high that the smallest position, 100 USDT, buys no whole unit of coin, as amounts
are real numbers in the code and never round to zero).

* `FundingAtMostOnceCorrect`, `ValuationFreshCorrect`: `BrokerInv` adds to the two properties the
  shape of the wallet and the types of the funding times; the core is that a charge is
  appended only when its timestamp is later than what was applied last, and that everything
  charged so far is at most that.
* `TypeCorrect`: `TypeInv` adds to `TypeOK` that positions and marks are those of a finite number of
  symbols and that amounts are positive (`WalletOK`). The balance stays an integer because
  the sum of the funding fees due is one (`SumInt`).
* `TradesCostTheirFeesCorrect`: the net worth is a balance and a sum over the positions, so an
  open or a close has to be told apart from what all other positions are worth: `SumSame`,
  `SumWithout` and `SumRemoved` take one symbol out of a sum. The rest is arithmetic of one
  position (`CostsItsFees`), with the rounding of the amount that is bought.

Sums are the community modules' `SumFunction`, a recursive function. That a function with
its equation exists and that it is unique is proved here, by looking at a minimal set for
which it would fail (`MinimalSubset`, from the library's `WFMin`, which needs no operator as a
parameter). `TradeCostBound` counts slippage in full steps of price for the whole amount
and the fee of what was paid or received.

*`UniverseHotSwapProofs`* (assumptions: `TopN` is a natural number, `Futures` a subset of the symbols). `TypeCorrect`,
`NoLostUpdateCorrect` (inductive with `TypeOK`: a manager clears its flag only on the
way to a borrow), `OiNotAsleepCorrect`, `UrlHasSymbolsCorrect`.

*`NatsPublisherProofs`* (assumptions: `MinBackoff <= MaxBackoff`, a positive `ClientCap`, messages and
other frames distinct). `GivenUpOnlyIfRefused` is inductive with `TypeOK` and `SleptIfRefused`: a sleep follows
a refusal, which is what its end relies on. `RefinesBus`: with the frame in `publish()` in
front of the queue, every step arrives, passes on, gives up, or stutters.

*`ClockSyncProofs`* (assumptions: `Skews` are integers, a positive number of attempts).
`StampErrorBounded`, for any skews, round trips and movements of the clock. The invariant adds
`InFlight` (since `local_before` was read the clock moved by `slewing` at most) and `OffsetError`
(the bound for the offset, of which rows inherit it); `SyncError` is the arithmetic of one
sync with the server's reading anywhere in the round trip.

*`RawFeedProofs`* (assumptions: the fields of a payload are JSON values; Rust's readings are distinct).
`TradeStoredCorrect` and `BboIsOfTheBookCorrect`, for any prices, quantities, changes and
payloads, in any mixture of forms. The invariant says what the message on its way is: a payload
or a depth message whose levels are of one book that is not crossed (`Carried`), and in NATS what
the ingestor made of it (`Published`). `Stored` and `Dropped` compare the two services field by
field; `DepthRows` is the choice of best levels.

*`FuturesContextProofs`* (assumptions: `WsOi` a subset of the symbols; `None` is none of the
readings; the exchange sends the readable levels of a side from the best to the worst, a
price once: `from_depth5` does not sort, and training takes the first level for the best).

* `OiNeverOlderCorrect` for the symbols that REST alone fills: a cached value is at most an
  answer on its way, which is at most the exchange's (`IInv`).
* `TypeCorrect`, `SnapshotWholeCorrect`: `PublishInv` adds to `IInv` that a depth frame has a message of
  the exchange in it and that what is published is made of one (`EventOK`). What the loop of
  `from_depth5` leaves is shown for messages of any length: there is a rising sequence of places
  that names exactly the readable levels (`IsChoice`), and the columns are the levels at
  these places. The loop is a recursive function; its equation, and the induction over
  the levels read, are arguments about a least counterexample (`LeastNat`).

*`TcnWindowsProofs`* (assumptions: positive window and horizon). `SamplesAlignedCorrect`,
`NoLeakageCorrect`, `TypeCorrect`, `SamplesCompleteCorrect` (with `SamplesCut`: once the script is done, its
samples are those of the valid windows over rows that do not change any more). The invariant says that table, `df` and the kept rows are in
order, apart by at least a tick per row while nothing is stored twice (`Spaced`), that what
is kept is older than what is still to come (`KeptBehind`), and what each step of the
script has made sure of (`Stage`: `features = kept` from the mask on). `SampleOfWindow` is the
row arithmetic.

Only model-checked: the liveness properties (`EventuallyStored`, those of UniverseHotSwap and
NatsPublisher with the fair half of the bus, `EventuallyAccurate`, `OiFreshInTheEnd`), which are
outside this prover's reach, and the three violations.

## 7. Not modelled

EMA and RSI values (a signal may come at any trade), `f64` rounding, the random draw of
slippage below its bound, delay lengths, symbol names, the columns of rows that are copied
field by field, the arithmetic of the four features and of the log return, column types,
partitions and sort keys of the schema, `CREATE DATABASE` (taken as done), log output,
tracing, container configuration. No property is stated where the repository promises nothing:
liquidation (`wallet.rs:103` computes an estimate only) and the net worth that is logged
while a mark is missing (`wallet.rs:174`).
