# A TLA+ model of the prediction-market signal platform

The repository (under `src/`) is a Python 3.12 service that polls two prediction
markets (Polymarket and Kalshi), traces wallets on Polygon, and writes what it
learns to QuestDB and to Redis streams. This directory holds TLA+ modules for
its core, TLC runs that check them on small instances and proofs that TLAPS
checks for every instance. `PROJECT.json` says which lines each definition
stands for, which hazards the properties are for, and which runs and theorems
there are.

Paths below are relative to the repository, so `src/utils/db.py` is the
platform's database client.

## 1. The system

One process (`src/main.py`) runs everything on one asyncio event loop. Tasks
give way to each other only at an `await`; database calls are synchronous and
hold the loop. So the interleavings are those of the stretches between awaits,
and each module below takes such a stretch as one step. The unreliable parts
are outside: QuestDB, Redis, the three HTTP services, and the operating system,
which kills and restarts the process (`scripts/pm-platform.service`).

```
 Polymarket API --> PolymarketCollector --+-- write_row --> QuestDBClient --> QuestDB
 Kalshi API ------> KalshiCollector ------+                     ^
 yfinance --------> MarketContextCollector+                     |
                                          +-- XADD --> Redis    |
 wallets:trace_request --> WalletTracer --+-- XADD, HSET, XACK  |
                               |  ^------- write_row -----------+
                               v
                         Alchemy (Polygon RPC)
```

### Inventory

| component | state | operations | what is hard | what makes it correct |
|---|---|---|---|---|
| **QuestDB client, writes** `utils/db.py` | `_buffer` (deque with a maximal length), the Sender and the rows pending in it | `write_row`, replay of the buffer, `flush`, `close` | failures half way through a replay; an answer that is lost after the rows were stored; a buffer at its limit; a row that cannot be encoded | rows in order, only the oldest evicted, none lost silently, duplicates only by a replay |
| QuestDB client, reads and DDL | none | `query`, `ensure_tables`, migrations | blocks the loop while it sleeps | - |
| **Polymarket collector, polling** `ingestion/polymarket.py` | `_bars`, `_seen_trades` | poll round, `_poll_one_market`, `_ingest_trade`, `_flush_due_bars`, `stop` | the await in the middle of `_ingest_trade`; the flush loop and the poll tasks share `_bars`; late trades; a full dedup set; restarts | bars and trade rows agree, one row per bar, a trade once, everything reaches the table |
| **Polymarket collector, discovery and backfill** | `_active`, `consecutive_skips`, the rate of the API | `_discover_once`, `backfill_history`, `_needs_backfill` | pages that shift while markets open and close; a market that cannot be parsed; re-discovery replaces the object that counts skips while a poll holds the old one; an interrupted backfill | listed markets get tracked, no false stale alarm, no history twice, the rate restored |
| Polymarket collector, classification (partly) | none | `parse_market`, `classify_*`, `should_poll_probability` | priority of overlapping categories | - |
| **Kalshi collector, polls and flush** `ingestion/kalshi.py` | `_bars`, `_seen_trades`, and the queues of the client it writes through | as Polymarket, with `db.flush()` in the flush loop | rows of trades and bars share one client whose flushes fail and replay | a bar never overtakes its market and its trades, quiet rows do not stay behind |
| Kalshi collector, discovery (partly) | `_active` | one walk over categories and events, filter by volume and date | a failing category starves the ones behind it | a market is in `pm_markets` before its bars |
| **Wallet tracer, requests** `ingestion/wallet_tracer.py`, `utils/redis_client.py` | consumer group, pending list, cache, `_stop` | `subscribe_stream`, `_handle_request`, `_persist`, `_publish_response`, `ack` | lost replies, crashes between three stores, cancellation with a `finally` that acknowledges | in order, at most one answer each, a profile behind every answer, none swallowed by a crash, reading goes on |
| **Wallet tracer, one trace** | the profile, the budget per wallet, the hourly count and window | `_trace_one`, `_reserve_rpc` | every call may fail or be refused; later branches override earlier marks; the edge of the window | the status has its cause, the budget holds, exchanges end the chain |
| Redis client `utils/redis_client.py` | the connection | streams, hashes | at-least-once, `MAXLEN` trimming | - (external; used by two modules) |
| **API clients** `ingestion/polymarket_api.py`, `kalshi_api.py`, `alchemy.py` | `_min_interval`, `_last_request_at`, `_lock` | `_throttle`, `_request`, `set_rate` | many callers, one throttle; retries; cancellation inside the lock | requests spaced, every call ends |
| **Process lifecycle** `main.py` | `stop_event`, tasks | `run_with_restart`, start-up, shutdown | a signal during the blocking backfill or the pause after a crash; collectors that write while others have stopped; a tracer that waits for a request | every collector runs until the shutdown, and then none; only what failed to be written is left in memory |
| Market context `ingestion/market_context.py` (partly) | none | backfill, hourly refresh | publications that nobody awaits | every bar written |
| **Backup** `scripts/backup.sh` | `SNAPSHOT_ACTIVE`, QuestDB's snapshot | PREPARE, tar, COMPLETE, trap | a failure or signal between two steps; runs that overlap | tar reads under its own snapshot, and the snapshot is released |
| Configuration, notifications, time utilities, one-shot scripts | none | - | - | - |

The components in bold are modelled. `detection`, `execution`, `linkage`,
`models`, `monitoring` and `risk` are empty packages.

## 2. The modules

| module | models |
|---|---|
| `RowChannel` | abstract: what a caller of `write_row` may rely on |
| `QuestDBClient` | `utils/db.py`, the writing half; implements `RowChannel` |
| `QuestDBClientProofs` | theorems about it |
| `PolymarketCollector` | `ingestion/polymarket.py`: poll rounds, bars, trades, flush loop, `stop`, restart |
| `PolymarketCollectorProofs` | theorems about it |
| `MarketDiscovery` | `ingestion/polymarket.py`: discovery cycles, tracked markets, the backfill, the stale counter |
| `MarketDiscoveryProofs` | theorems about it |
| `KalshiCollector` | `ingestion/kalshi.py`: discovery, polls, bars and flush loop, composed with `QuestDBClient` |
| `KalshiCollectorProofs` | theorems about it, resting on those of `QuestDBClientProofs` |
| `Lifecycle` | `main.py`: start-up, supervision, shutdown, with `start()` and `stop()` of the collectors |
| `Backup` | `scripts/backup.sh` |
| `OperationsProofs` | theorems about `Lifecycle` and `Backup`, both of which it extends (hence names like `BackupSpec`) |
| `WalletTracer` | the tracer as consumer of a Redis stream, its supervisor and shutdown |
| `WalletTracerProofs` | theorems about it |
| `WalletTrace` | what one trace asks and concludes, and the two budgets |
| `WalletTraceProofs` | theorems about it |
| `ApiClient` | throttle, retries and backoff of the HTTP clients |
| `ApiClientProofs` | theorems about it |
| `MCQuestDBClient`, `MCPolymarketCollector`, `MCMarketDiscovery`, `MCKalshiCollector`, `MCWalletTracer` | the sets that the `.cfg` files choose for the checked instances |

A definition followed in a comment by "Mutated form" is a plausible bug of the
definition after it, unused by the specification: each property has one that
breaks it.

### QuestDBClient and RowChannel

`buffer` is `_buffer`, `pending` the rows in the questdb Sender, `table` what the
server stored, duplicates included. A row is its number in the order of
`write_row`. Each public call is one step, because the client is synchronous;
what varies inside a step is what the library and the server do. `Write` is
`write_row` with `_sender_or_buffer` and `_flush_buffer` under it, including the
replay that fails (`WriteReplayFails`), the replay that a row which cannot be
encoded aborts (`WriteReplayRaises`), and the unreachable server
(`WriteUnreachable`); `Flush`, `Close` and `Restart` are the rest. The Sender is
external and modelled as the code uses it: a flush is one request, stored whole
or refused, whose failure may hide that it was stored, and after which the
Sender's buffer is empty.

`RowChannel` promises a lossy, at-least-once channel in first-in first-out
order: no row invented, none brought back after it was given up, none overtaken.
`IsRowChannel` checks the refinement with `queue <- buffer \o pending` and
`delivered <- Range(table)`.

### PolymarketCollector

`task[m]` is the await at which the poll task of market `m` stands: the order
book, the tape, or the publication of a trade (the await between `write_row` and
`add_trade`). While a task is in the loop over the tape (`"ingest"`) it holds the
event loop: every other action is disabled. `bars` is `_bars`, keyed by market
and minute; a bar is whether it has a price and the list of trades it counted.
`seen` is the bounded set, `tradeRows` and `barRows` are the two tables.
A tape is a set of trades, because trades are numbered as they happen: `At` picks the
newest one left, which is the order of the Data API. `Id` gives every trade its id
(`id`, or else the transaction hash, which several fills may share), or none, and a
trade without one is skipped. `write_row` returns or raises here. It raises behind a
trade's id that was marked as seen, and behind a bar that was popped: the trade is
never written (`lostIds`), nor is the bar (`lostBars`), while the bars behind it stay for the next turn
of the flush loop, or, in `stop()`, for nobody. Where a row that was taken goes is
`QuestDBClient`'s matter. `oldTrades` and `oldBars` tell the rows of earlier
processes, for properties about one process. Dust
trades, trades without a readable timestamp and trades whose size is not a number
are sets of trades given as constants.

### MarketDiscovery

`listing` is the exchange's list of open markets, to which markets are appended and
from which they disappear; a cycle reads it by `offset`, one page per await. What
the listing says of a market is a record of the facts the code tells apart
(`MarketInfo`): whether it has an identifier, a token and a volume that is a number,
which category patterns its text matches, whether a title pattern keeps it. A page
is handled up to its first market that raises. `active` maps a tracked market to the
`consecutive_skips` of its object; when discovery replaces an object that a poll task
still holds, that object's counter moves to `orphan` and dies with the task.
`silent` counts the polls without a price that really came in a row, independently
of any object. `phase` leads from the needed-check over the discovery and the
histories of the backfill to live polling; `unsent` and `stored` follow the rows of a
history through the client to the table, because the needed-check reads the table:
they reach it (`Commit`), or a flush fails and they may have reached it, be kept for
another attempt, both or neither (`CommitFails`); `resent` has those that did both.

### KalshiCollector

The pipeline of the Polymarket collector in its Kalshi form: a book that cannot be
had is neither a price nor a skip, there is no fallback to the last trade, no gate, and
the flush loop calls `db.flush()`. `Discover` is `_discover_once` as the other loops
see it: at some moment a market passes the filter, its row is written, then it is
tracked; which markets pass, and in which order the categories are walked, is left
open. Here the collector is put together with
the client: `DB` is an instance of `QuestDBClient` whose `issued` is the number of
rows the collector wrote, so every `write_row` in the middle of a tape or a flush has
every outcome the client's module has: buffered, replayed, refused, stored and not
answered. While rows go out one by one, the event loop is held (`LoopFree`), and the
server may come and go between two of them.

### Lifecycle

`main` is where `main_async` stands, `sup[c]` where the supervisor of collector `c`
stands, `stop[c]` whether `stop()` was called and has returned or raised, `loops` whose loops
run. The two collectors that keep bars (`BarKeepers`) run their loops as tasks that
`stop()` cancels and awaits before it flushes the bars; the tracer and the market
context loop inside their supervisor's task, and `stop()` only sets a flag. All loops
of the collectors except the tracer's catch every exception, so only the tracer can
crash (`Crashing`). What a loop does is reduced to keeping a bar, handing rows to the client
and flushing it; `rows` is where they wait, in the Sender or in the client's buffer. The
forced flush at the end of `stop()` (`LastFlush`) may raise, which leaves other bars in
memory and is not noticed by `main_async`.

### Backup

One step per command of a run; several runs share the snapshot of the server.
`holder` is the run whose PREPARE is pending, `active` the runs with
`SNAPSHOT_ACTIVE=1`. PREPARE may take effect and lose its answer, COMPLETE may fail
unseen (`|| true`), a signal may come between two commands or during one, and
SIGKILL skips the trap. `mishap` records what befell a run, so that the properties can
name their exceptions. Restarts of QuestDB during a backup, and what it does with a
pending snapshot then, are left out, and so is a tar that outlives its killed shell.

### WalletTracer

`stream`, `group`, `cursor` and `pel` are Redis's stream and consumer group as
`XREADGROUP >` and `XACK` use them. `pc` is the await at which the tracer is.
Every Redis call may fail before or after it took effect (`Call`). A failure in
the handler is logged and the request acknowledged by the `finally`; a failure
of `ack` or of the read ends `start()`, and `run_with_restart` starts it again
(`Crash`, `Resubscribe`). `Shutdown` and `Cancel` are the two halves of the
shutdown sequence. `HSET` and `EXPIRE` are separate steps. `rows` are the requests whose
profile `write_row` took: neither it nor `flush()` tells the tracer whether the row is
in the table. `cutShort` are the requests whose handling failed or was cancelled, the
only ones that may leave the pending list without an answer.

### WalletTrace

`pc` is the next RPC of the trace: `get_code`, `get_transaction_count`, the first
transfer, its block, the funder, the funder's funder. `Call` reserves and sends,
`Refuse` is a refused reservation, and an outcome is an `Answer`, an
`AlchemyError` (`Fails`) or another exception (`Raises`). The clock moves only
while a call is in flight or no trace runs. `log` remembers the tick at which each
call was granted, to state what the window bounds. In `WalletTracer` a whole
trace is one await with any result; the two modules meet in the profile it
returns, or its absence. A call here is one `_rpc`; its retries, which the budgets
of the code do not count either, belong to `ApiClient`.

### ApiClient

The lock is the queue of the callers that hold or want it, because
`asyncio.Lock` is fair; a cancelled caller leaves the queue. Timers count down
and may be overslept, never cut short. `since` is the time since
`_last_request_at`, capped at the longest interval. `Respond` covers every
outcome of a request: result, 4xx, 429 with any Retry-After, timeout, network
error, 5xx. The three clients hold the same code; Alchemy's adds a retryable
JSON-RPC error that behaves as a 5xx. To the collectors, a request is an await
that returns or raises.

### How they fit together

`KalshiCollector` is a product: collector and client in one state space. The other
modules are composed by contract: each has, of what it uses, the outcomes that its own
code can tell apart, without the state behind them.

* `PolymarketCollector` and `WalletTracer` take an HTTP request or a trace as an await
  that ends with a result or an exception, which is what `CallsEnd` of `ApiClient`
  provides.
* `PolymarketCollector` takes from `write_row` that it returns or raises, and
  `WalletTracer` the same; "written" means handed to `QuestDBClient`. A row that was
  handed over may be buffered, stored, stored twice or lost: `RowChannel` says what
  follows from it, and no property of the two modules says "stored". (The Kalshi
  product does: `RowsFlushed`, `BarAfterItsTrades`.)
* `MarketDiscovery` looks at the table itself, so it has what the client can do with a
  history: store it, lose it, keep it, or store it and keep it. It treats the rows of a
  history as one, and the discovery as the only writer.
* `Lifecycle` takes from the collectors that `stop()` ends their loops and tries to
  flush the bars left, as `PolymarketCollector` and `KalshiCollector` model it line by
  line, and from the client where rows can wait. A `stop()` that raises is in
  `Lifecycle` and `PolymarketCollector`; in `KalshiCollector` every row can be encoded
  (`Malformed` is empty), so that nothing raises there.

## 3. What is checked

| run | instance | properties |
|---|---|---|
| `client` | buffer of 3, 6 rows (the fourth refused by the server, the fifth not encodable), 1 restart | `TypeOK` `OneQueue` `HeldInOrder` `FirstStoredInOrder` `OnlyReplayDuplicates` `BufferedRowsKept` `IsRowChannel` |
| `collector` | 2 markets (one whose book is not polled), 3 trades, dedup set of 2, 2 minutes, 1 failure, 1 restart | `TypeOK` `OneRowPerBar` `BarsCountWrittenTrades` `TradeWrittenOnce` `CurrentBarComplete` |
| `collector_live` | 1 market, 3 trades, two with the same id, one without timestamp, one unparsable, 3 minutes, 2 failures, fair tasks | `PastBarsWritten` `TapeIngested` |
| `tracer` | 3 requests for one wallet, of every kind, 1 error, 1 restart, fair consumer | `TypeOK` `NothingSwallowed` `AnsweredInOrder` `AnswerHasProfile` `RequestsDelivered` |
| `trace` | budget of 3 calls in 3 ticks, 8 ticks | `TypeOK` `SlidingBound` `WindowCounted` `ProfileJustified` |
| `discovery` | 4 markets (plain, uninteresting, without a token, malformed), pages of 2, 2 changes of the listing, stale after 2, 1 failure, 1 restart, fair discovery | `TypeOK` `BackfillExact` `StaleDeserved` `ListedIsTracked` |
| `kalshi` | 1 market, 2 trades (one unreadable), buffer of 2, 2 minutes, 1 failure, 1 restart, fair tasks | `TypeOK` `BarAfterItsTrades` `RowsFlushed` |
| `lifecycle` | the four collectors, 1 restart, crashes, signals and kills without bound, fair tasks | `TypeOK` `CleanExit` `SignalStops` `CollectorsRun` |
| `backup` | 3 runs that may overlap, fair commands | `TarUnderOwnSnapshot` `SnapshotReleased` |
| `api` | 3 callers, intervals 1 and 2, 2 attempts, backoff up to 3 | `TypeOK` `ThrottleExclusive` `Spaced` `CallsEnd` |

### Where the documentation promises more than the code keeps

Each of these runs is expected to find a counterexample; `PROJECT.json`
(`findings`) quotes the sentence it contradicts.

| run | claim | what happens |
|---|---|---|
| `client_loss` | `NoRowLost` | a failed auto-flush or `flush()` loses the rows pending in the Sender |
| `tracer_at_least_once` | `AtLeastOnce` | what was pending at a crash is never read again |

The models also contain, without a run of their own:

* a row that cannot be encoded aborts a replay after the buffer was cleared
  (`WriteReplayRaises`), against the docstring at `utils/db.py:213`;
* duplicates through a flush that was stored and not answered, although a comment
  (`utils/db.py:180`) counts on the table to be idempotent, and the docstring of the
  backfill (`ingestion/polymarket.py:402`) on the table to remove duplicates, which the
  tables of `utils/db.py` are not declared to do (`resent` in `MarketDiscovery`);
* a trade whose `write_row` raises is never written, because its id is in the dedup set
  by then (`lostIds`), and a bar whose `write_row` raises is lost, because it was popped
  before (`lostBars`); the flush loop logs the exception and goes on;
* a `stop()` whose forced flush raises leaves its other bars in memory, and rows that
  wait in the client's buffer at the exit are lost: the shutdown is called clean all the
  same (`LastFlush`, `CloseDb` in `Lifecycle`);
* a profile is cached and answered as fresh while its row waits in the client's buffer,
  or was lost by a `flush()` that failed, although the flush is there "so this row
  actually commits" (`wallet_tracer.py:471`): `AnswerHasProfile` says no more than that the
  row was handed over;
* trades written again after a restart, or after the dedup set evicted an id that is
  still on a tape, against REQ-PMC-003; two rows for the same bar after a restart
  within a minute; a trade that arrives after its minute was flushed and is in no bar;
* the stale alarm of REQ-PMC-002 hardly ever comes: discovery replaces the counter
  every 30 s, and ten skips take longer (`Track`). `StaleDeserved` says only that an
  alarm is never false;
* an interrupted backfill is never resumed, since one row makes the needed-check pass
  (`NeedsBackfill`), and a needed-check that fails stores everything again (`blind`);
* a market whose volume is not a number keeps every market behind it on the listing
  from being discovered (`Raises`), in every cycle;
* an RPC failure while the funding is traced leaves the status `ok`, against
  `wallet_tracer.py:33`; a profile that is cached for ever when the `EXPIRE` after its
  `HSET` is lost; a request that a shutdown interrupts, which the `finally`
  acknowledges unanswered;
* a client that raises while it is closed keeps the ones behind it open, and the rows
  in the Sender are lost (`CloseRaises`);
* a snapshot stays pending when the answer to PREPARE is lost, when a signal comes
  before `SNAPSHOT_ACTIVE=1`, or when COMPLETE fails; and a run that is signalled
  between COMPLETE and `SNAPSHOT_ACTIVE=0` releases a second time, perhaps the
  snapshot of another run (`mishap` in `Backup`).

### Bounds, and why they are enough

Most of what the runs check of safety is also proved without any bound (section 4);
there the instance only has to be rich enough to refute a wrong property, which the
mutated definitions test.

Every bound is a constant named in its module (`MaxRows`, `MaxStored`,
`MaxTrades`, `MaxMinute`, `MaxFailures`, `MaxErrors`, `MaxRestarts`, `MaxClock`,
...) and appears only in a guard.

* `client`: 6 rows overfill a buffer of 3 during an outage, and leave room for a
  replay that fails and one that succeeds. `MaxStored` is one more than the rows,
  so that a row can be stored twice.
* `collector`: 3 trades against a dedup set of 2 make it evict; two minutes let a
  bar become past while its trade is being published; one failure interrupts a
  tape, a poll or a flush at any point. A second restart repeats the first. Two markets:
  a round ends for both or for none.
* `collector_live`: one market, because with two the fairness conditions take longer
  to check than everything else together; what the tasks of two markets do to each other
  is in the safety run. Three minutes and two failures let two bars be due when a write
  fails, and the write that comes back for the second fail too.
* `tracer`: 3 requests and batches of 2 give a batch with a request behind the
  current one and one more in the stream. One error at any call covers every
  lost reply and every crash. With one wallet, the cache is shared by all requests; that
  an answer rests on a profile of its own wallet, among several, is only proved.
* `trace`: a trace makes up to six calls and the budget is three per window, so
  it runs out in the middle of a trace; eight ticks see three windows. The cap of
  20 calls per wallet is kept as in the code, where it is never reached: a trace
  has six calls to make.
* `discovery`: three listed markets on pages of 2 make a full page and a short one, a
  fourth makes two full pages and the empty one behind them, and a market that closes
  between them shifts another over the edge. Two changes move a market out and back; being stale after 2 skips leaves room for an
  object to be replaced before, at and after the alarm.
* `kalshi`: one market, because the markets' tasks meet only in the client;
  the rows of the market, of its trade and of a bar overfill a buffer of 2. `MaxRows`
  stops discovery and new poll rounds, not rows, and leaves room for the discovery
  and the polls of a second process.
* `lifecycle`: nothing is counted but restarts; a second process repeats the first.
* `backup`: with three runs one can fail while a second reads and a third prepares.
* `api`: 3 callers make a queue behind a sleeping holder, and two rates let the
  rate change under a time already noted.

Deadlock is checked in the runs of the client, which always allows some call. The
other runs say `CHECK_DEADLOCK FALSE`, because those systems really stop: after a
shutdown, after the last restart, when the exchange or the producers are done.

### Fairness

* `collector_live` assumes that the event loop runs every task that is ready.
  It is strong fairness because a task that holds the loop disables the others
  for a moment, again and again, which does not make them wait for ever: asyncio
  serves ready tasks in order. Time, trades, failures, `stop` and restarts are
  not assumed. HTTP requests have a timeout; the Redis client is given none
  (`redis_client.py:27`), so nothing is assumed of a publication, and `TapeIngested` says
  what it needs: that Redis answers every publication some day.
* `kalshi` assumes the same: strong fairness of the flush loop, which others hold up
  now and then, and weak fairness of the poll tasks, but for their publications. The server need not ever come
  back: what `RowsFlushed` says is that rows do not stay in the Sender.
* `discovery` assumes that the discovery loop and the backfill are run and that their
  requests end, failed or not. Polling and the exchange are not assumed.
* `lifecycle` assumes that tasks which are ready run, that a cancelled task ends and
  that the backfill ends: it makes finitely many HTTP calls, each with a timeout. Two
  awaits of the shutdown are for Redis, the acknowledgement in the tracer's `finally` and
  the closing of its client; that they end is assumed, nothing in the code says so. Nothing
  is assumed of the tracer noticing its flag, of signals or of kills.
* `backup` assumes that a command that was started ends.
* `tracer` assumes weak fairness of the tracer's own steps and of its traces, whose HTTP
  calls have timeouts. A Redis call may hang, so `RequestsDelivered` (and `AtLeastOnce`,
  which fails all the same) has the assumption that Redis answers as its premise
  (`RedisAnswers`).
* `api` assumes that time passes and weak fairness of each caller. The queue of
  the lock makes strong fairness unnecessary. New calls and cancellations are not
  assumed.

## 4. What is proved

The proof modules have no axioms beyond the named assumptions on the constants
(`ClientAssumption` of the two clients, `CollectorAssumption`, `DiscoveryAssumption`, `KalshiAssumption`,
`TracerAssumption`, `TraceAssumption`, `LifecycleAssumption`, `BackupAssumption`), which TLC evaluates in
every run. All proofs have the same form: an inductive invariant, which TLC checked
before it was proved, a lemma that every step preserves it, and one temporal step.
Where a module has many actions that do the same to the state an invariant is about
(`PolymarketCollector`, `WalletTracer`), a lemma first says that every step is one of
a few shapes, such as "a poll writes a trade" or "the tracer answers", and the
invariants are proved by shape.

`QuestDBClientProofs`, for every buffer size, number of rows and choice of
malformed and refused rows:

* `TypeCorrect`: the queues and the table hold rows that were written, and the
  deque never outgrows `max_buffer`.
* `OneQueueInvariant`: rows wait either in the client or in the Sender. This is
  what the replay relies on, and the other two need it: only because one of the
  queues is empty is their concatenation the order of writing.
* `HeldInOrderInvariant`: the rows held are in the order they were written, across
  failed replays, evictions and reconnections.
* `FirstStoredInOrderInvariant`: a row that is held and was never stored is newer
  than everything stored. Inductive together with the order of the held rows and
  with the fact that what is held or stored was issued.
* `OnlyReplayDuplicatesInvariant`: rows pending in the Sender are not in the table, so
  only a replay of the buffer can store a row twice. It holds because a failed flush
  empties the Sender whether or not the server stored the batch: what the client may
  send again is what it took from its own buffer.
* `BufferedRowsKeptAlways` (an action property): no step gives up a buffered row except
  the oldest of a full buffer, a row behind one that cannot be encoded, or a row of a
  process that ends. The case with content is the replay that fails half way.
* `ClientIsRowChannel`: the client implements `RowChannel`. Whatever the Sender and the
  server do within a call, it stores some of the oldest rows the channel holds
  (`Stored`) and keeps a subsequence of them (`Keeps`); with the row at hand that is
  the channel's `Submit`, without it its `Service`. It rests on `OneQueue`, since the
  channel's queue is `buffer \o pending`.

`PolymarketCollectorProofs`, for any markets, sizes of the dedup set and the tape, and
any sets of dust, unreadable and untimed trades:

* `TypeCorrect`: the dedup set never exceeds its size. Its inductive form says also
  that what is on a tape, in the set or in the table has happened, not later than now
  (`KnownInv`), that the set is without repetitions, and that a collector which was
  stopped holds nothing (`StoppedInv`).
* `TradeWrittenOnceInvariant`: while the dedup set has forgotten nothing, a process writes
  at most one trade of each id. `WrittenInv` says that the set then contains the ids of all
  the trades it wrote.
  That an addition evicts nothing is the pigeonhole principle (`NothingForgotten`): the
  ids in the set are distinct and have happened, and the one to add is not among them.
* `OneRowPerBarInvariant`: a key that this process wrote a row of is of a past minute, or
  the collector has been stopped, and a bar of that key in memory has no price (`RowInv`).
  So when a late trade creates the bar again, the flush drops it.
* `CurrentBarCompleteInvariant`: needs that no bar of the current minute is ever
  flushed before `stop()`, and that what is being published carries the minute it
  happened in (`PublishedInv`).
* `BarsCountWrittenTradesInvariant`: a bar and its rows count only written trades of
  their market and minute, and none twice while the set remembers. `CountInv` adds what
  makes it inductive: a trade that is being published is not counted yet, in memory or
  in the table, even if its bar was flushed during the await.

`MarketDiscoveryProofs`, for any markets and what the listing says of them, any page
size, threshold and priorities, and any number of openings, closings, failures and
restarts:

* `TypeCorrect`: what is tracked has an identifier and a token (`FoundIsTradable`: a
  market that lacks either is left out, and one whose volume is no number never gets that
  far), and every counter has its object.
* `StaleAlarmDeserved`: no false alarm. The counters alone are not inductive: that one
  object's count is deserved says nothing once a poll of an older object finds a price.
  `CountersDeserved` adds that an object which replaced the one of a poll under way still
  counts zero, since the poll that could count for it is yet to come.
* `BackfillExactInvariant`: a history is stored twice only if a needed-check was blind or
  the client sent again what was stored already (`resent`). `BackfillInv` says where the
  histories can be. Until they are loaded nothing waits in the client (`NothingSentYet`); if the needed-check was right
  nothing is stored either, and the markets yet to load are untouched (`Untouched`); only
  this stage lowers the rate (`RateLowered`). A restart empties the client, not the table,
  and the needed-check of the next process then looks at the table.
* `QuietCycleTracksReachable`: a discovery cycle that ends of itself, without a change of
  the listing while it ran, has tracked every reachable market. It is the safety core of
  `ListedIsTracked`, which TLC checks on pages of 2: here for any page size, so also where
  the listing fills its last page. By `CycleTracks`: all that can be reached before the
  offset is tracked. `PagePlace` is the arithmetic of a page's place in the listing.

`KalshiCollectorProofs`, for any finite set of markets, any trades and buffer sizes:

* `CollectorUsesClient`: every step of the collector is one call of the client or
  leaves it alone. The module takes `QuestDBClientProofs` as an instance (`Client`), so
  the theorems about the client hold of the client inside the collector and are not
  proved again. `ClientConstants` shows that the collector gives the client constants
  that it allows.
* `CollectorHasRowChannel`: so the client that the collector writes through is a
  `RowChannel`, with its rows in one queue, in the order they were written, and stored
  twice only by a replay. Safety properties carry over in this way; properties under
  fairness do not.
* `TypeCorrect`: with it, that only one task holds the event loop (`OneHolds`).
* `BarAfterItsTradesInvariant`: whoever reads a bar in the table finds its market and
  its trades. One half is the collector's (`WrittenInv`): only tracked markets are
  polled, a market is written before it is tracked, a trade before it is published and
  counted, so the row of a bar comes behind all it is joined with. The other half is
  the client's `FirstStoredInOrder`: nothing older than a stored row still waits to be
  stored for the first time, whatever failed.

`WalletTracerProofs`, for any wallets, kinds of requests, batch size, errors and
restarts:

* `TypeCorrect`; its inductive form has the tracer hold a batch exactly while it
  handles one (`PhaseInv`).
* `AnsweredInOrderInvariant`: answers come in the order of the requests, none twice.
  `AnsweredBefore`: whatever was answered comes before what the tracer still holds,
  strictly before unless the head is about to be acknowledged; and a new process only
  reads behind the cursor.
* `AnswerHasProfileInvariant`: every answer rests on a profile whose row was handed over
  before, a cached one on that of an earlier request for the same wallet. `ProfileInv` adds
  what makes it inductive: what is in the cache has such a row, and so has what a lookup
  found and has yet to answer, even if the cached profile expires in between.
* `NothingSwallowedInvariant`: how far the `finally` that acknowledges everything can do
  harm. What left the pending list was answered, has an invalid address, or was cut short
  itself: a lost reply of XREADGROUP, a corrupt entry that crashes `start()` in the middle
  of a batch, a failed acknowledgement, a shutdown and a restart swallow none; they leave
  the request pending, where `tracer_at_least_once` finds it. `SettledInv` adds that a request
  about to be acknowledged is settled; it rests on `HeldInv`, that the batch ascends and is
  pending.

`WalletTraceProofs`, for any hourly budget, length of the window and sources of funds:

* `TypeCorrect`: a trace uses at most six calls, because the calls used never exceed
  those that lie before the point where the trace stands (`Before`).
* `ProfileJustifiedInvariant`: the status of a finished profile has its cause, and an
  exchange or aggregator ends the chain. `Underway` says what is known at each call.
* `WindowCountedInvariant` and `SlidingBoundInvariant`: the count is the number of
  calls granted since the window began, and no hour, wherever it starts, has more than
  two budgets of calls. An hour that reaches into the running window begins less than
  an hour before it; the calls in that part all belong to one earlier window
  (`EarlierSince` in `WindowInv`), because a new window begins at the first call after
  the old one is over. So the two parts have a budget each.

`ApiClientProofs`, for any number of callers, any set of rates with a slowest one
and any limits:

* `TypeCorrect`: the lock holds nobody twice; a call sends at most `_max_retries`
  requests. It needs `Counted`: a caller that has yet to send has sent fewer than
  it has tried.
* `ThrottleExclusiveInvariant`: whoever waits out the interval is at the head of
  the lock's queue, and the queue is exactly the callers on their way to it.
  Cancellation is the case that needs an argument, by the lemma `Leave`.
* `RequestsSpaced`: requests leave at least `_min_interval` apart. It needs
  `Slept`: for a caller that waits, the time already passed and what is left of
  its timer make up the interval. Nobody else can reset the time while it sleeps,
  because it holds the lock; the rate cannot change because `set_rate` is only
  called while no request is under way.

`OperationsProofs`, about the lifecycle, for any set of collectors with Polymarket in it and any number of
restarts:

* `TypeCorrect`, and `CleanExitInvariant`: an exit in order leaves no loop and no row in
  the Sender behind, and bars only of a collector whose `stop()` raised. At the exit this
  follows only from the
  stages before it, so the invariant walks back through them: clients are closed
  after every supervisor ended (`CancelsBeforeCloses`), supervisors are cancelled
  after every `stop()` ended (`StopsBeforeCancels`), a collector whose `stop()`
  returned has neither loops nor bars, one whose `stop()` raised no loops (`StoppedIsEmpty`), and no supervisor can
  start its loops again, because `stop()` is only called after the signal
  (`StopAfterSignal`).

`OperationsProofs`, about the backup, for any number of overlapping runs:

* `TarUnderOwnSnapshotInvariant`: tar reads under the snapshot of its own run, unless
  another one released twice. It needs three facts: a run that may yet release, in its
  course or in its trap, holds the snapshot itself (`ReleasesItsOwn`); one that
  released twice is on its way out, so it is not the one that reads (`TwiceIsOver`);
  and the trap is only armed for a run that prepared (`ActiveIsTold`). The lemma
  `StepInv` says once what a step of one run owes to the others.
* `NoSnapshotLeft`: a run that is over, or past its COMPLETE, leaves no snapshot of its own
  pending, unless it was killed, its COMPLETE failed, or the trap could not know of the
  PREPARE (`Excused`). With the end of every run it is `SnapshotReleased`. Its invariant
  (`ReleaseInv`) says of whoever holds the snapshot that its course or its trap will release
  it, and that a run past `SNAPSHOT_ACTIVE=1` is known to its trap.

Only model-checked is everything under fairness (`PastBarsWritten`, `TapeIngested`,
`RequestsDelivered`, `CallsEnd`, `ListedIsTracked`, `RowsFlushed`, `SignalStops`,
`CollectorsRun`, `SnapshotReleased`), because TLAPS does not do liveness or `ENABLED`.
Every invariant and every action property that a run checks is proved.

## 5. What is not modelled, and the plan

Left for later, in this order:

1. The walk of Kalshi's discovery over categories, its filter, and its skip counter.
2. The daily bars of the market context, which each cycle writes again although the
   table has no deduplication.

Left out for good: `query()`, DDL and migrations (no state in the client); the
parsing of configuration; keyword patterns, bet types and the
midpoint of a book (conversions without state); formatting, logging and signing of
requests; publications that nobody awaits;
host and analysis scripts (one-shot I/O). In Redis, the trimming of
streams by `MAXLEN` is left out: a consumer that falls a hundred thousand entries
behind is a matter of quantity.
