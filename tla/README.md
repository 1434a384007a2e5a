# A TLA+ model of the Polymarket five-minute bot

The repository is a trading bot for Polymarket's five-minute BTC up/down
markets. It mirrors the market's order books, follows the Chainlink price that
decides each market and Binance's faster price, estimates the probability of
"up", and sends orders through an order manager to an exchange adapter: the
live CLOB, or a *shadow* exchange that simulates fills against recorded depth
with a measured round-trip time. Everything runs on one asyncio event loop, so
the hard part is what happens between two awaits of one coroutine: feed
callbacks, spawned tasks and timers run there. Around it is what survives the
process: recorded frames and decisions, a small database, and offline reports
that work out from both what the engine did.

## Inventory

Paths are relative to `src/polymkt_bot/`.

| component | code | state | operations | what makes it correct |
|---|---|---|---|---|
| order manager | `exec/order_manager.py` | orders by client id and by exchange id | draft, submit, request_cancel, cancel_all_for_session, confirm_canceled, apply_fill, expire_unfilled | no forbidden transition is ever attempted; a terminal order stays as it ended; a fill is booked once and within the size |
| shadow exchange | `sim/shadow_exchange.py` | orders and cancels in flight, resting orders with the queue ahead | place, cancel, cancel_all, process_due, on_trade | what it holds agrees with the order manager; nothing happens before its round trip; FOK is all or nothing; nobody jumps the queue; every order it was sent and every cancel ends |
| engine, rollover | `engine.py` | the current, the next and the settling sessions, fee models | manage_sessions, _create_session, _close_session, _settle_session, _on_k_capture, _on_kill | windows do not overlap; a closed window is settled once, at the captured print, and if it can be; a broken loss limit stops the loop |
| engine, decisions | `engine.py` | what became of each order | evaluate, _handle_intent, _submit_and_record, _on_fill_applied | no double entry, stake cap kept, positions not forgotten |
| session | `markets/session.py` | lifecycle state, K, close price, stake used | transition, set_k, phase, settle | the state machine is never left; K is the earliest print |
| oracle feed | `feeds/rtds_chainlink_ws.py` | captured boundary prints | _handle_print, _maybe_capture_k, get_k | a capture reaches the sessions it decides |
| market feed | `feeds/polymarket_clob_ws.py`, `feeds/base.py` | a book per tracked token, dirty flag, connection | track, untrack, on_connected, rest_resync, on_message, reconnect | a clean book is the exchange's; a dirty one becomes clean; every tracked book is subscribed |
| user feed | `feeds/clob_user_ws.py` | connection | subscribe, on_message | each trade is booked once |
| live adapter | `exec/live_exchange.py` | exchange ids of placed orders | sign, place, cancel, cancel_all (in executor threads) | fills and cancels meet the order whatever they race with; windows stay apart although cancel-all is global |
| ledger | `accounting/pnl.py` | positions and cash per session, PnL per day | apply_fill, settle_session | a day is the sum of its settled windows |
| risk manager | `risk/risk_manager.py` | losses in a row, cooldown, kill switch | record_window_result, check_daily_loss, kill, check_entry | the limits hold for what was sent, not only for what has filled |
| strategies | `strategy/` | fired windows; the open scalp | evaluate, on_fill, on_window_closed | one shot, one position |
| recorder, replayer | `storage/recorder.py`, `sim/replayer.py` | bounded queue, open file | record, start, stop, writer, replay | replay is in recording order; what was accepted is kept; a recording replays to its end |
| database | `storage/database.py` | rows by primary key, one lock | execute, k_capture | rows agree with the ledger and with the archive, over failing writes and restarts |
| discovery | `markets/discovery.py`, `markets/rest.py` | market metadata per window | resolve, _build_meta | a market is traded only with a fee rate the exchange gave |
| edge report | `scripts/m2_edge_report.py` | none | analyze, sniper_first_fail, sweep | what it says of a window is what the engine did |
| data-quality scripts | `scripts/m1_*.py` | none | extract, analyze | the archive's K is the table's |

How they interact:

- **Calls and callbacks on one event loop.** A frame reaches a feed, which
  changes a book and calls the engine; the engine *pumps*: it lets the shadow
  exchange run what is due, the fills go through the order manager to the
  ledger and the strategy, and then the strategies are evaluated. All of this
  is one uninterrupted handler.
- **Spawned tasks.** The order an evaluation drafts is signed, placed and
  recorded by a task of its own; a settlement spawns the loss check, the kill
  switch spawns its handler.
- **One long coroutine.** `manage_sessions` closes, promotes and prefetches
  windows with half a dozen awaits in between; feeds and tasks run at each.
- **Reconnects.** A new window means a new subscription, which the exchange
  accepts only on a new connection (FACTS.md 4.7), so the engine closes the
  market feed's connection at each rollover.
- **Threads.** Only the recorder's writes and the live adapter's calls leave
  the loop.

The hard behaviours are therefore interleavings at awaits (rollover against
oracle prints, submission against the end of a window, resync against
tracking), orders of arrival (cancel, fill and order at the exchange; REST
answers and frames; prints and teardown), and work that must not be lost
(settlement, the last records, a dirty book); and restarts, which reuse ids and
forget what was captured, while files and tables go on. PROJECT.json lists them line by
line under `hazards`.

## Modules

| module | models | EXTENDS / uses |
|---|---|---|
| `OrderManager` | one managed order: states, valid transitions, every handler as an operator on a record | |
| `ShadowOrder` | one order as manager and shadow exchange hold it: arrival, taking, resting, queue, cancels | OrderManager |
| `ShadowExchange` | all orders of some windows, the views of their books, T-0 and settlement | ShadowOrder |
| `OrderContract` | abstract: what an exchange adapter promises about each order | |
| `ShadowRules` | the exchange with a memory of the book at each order's due instant | ShadowExchange |
| `MCShadowExchange`, `MCShadowRules` | the orders of the small instances | ShadowExchange, ShadowRules |
| `ShadowExchangeProofs` | its inductive invariant and safety theorems, then what one step may do: action properties and the refinement | ShadowExchange |
| `Rollover` | the housekeeping coroutine, oracle captures, settlement, day PnL, loss limits | |
| `BookMirror` | the market feed on the reconnecting client, with the exchange's stream and REST as environment | |
| `Trading` | one window's decisions: sniper, scalper, gates, submission tasks, fills | ShadowOrder |
| `LiveOrders` | the order manager on the live adapter and the user channel: requests that suspend, raise, are late or lost | OrderManager, OrderContract |
| `Recorder` | queue, writer task, executor, stop, files, kills and restarts, and what is replayed | |
| `Archive` | an oracle feed through the recorder, its captures in the table, the replay and the data-quality scripts | Recorder |
| `Tables` | the rows of windows, orders and fills over failing writes and restarts, the ledger and the report that reads them | |
| `MissedSignals` | one armed window from discovery through sniper and gates to the decision log, and the report that explains it | |
| `RolloverProofs`, `BookMirrorProofs`, `TradingProofs`, `LiveOrdersProofs`, `ArchiveProofs`, `TablesProofs` | the inductive invariant and the theorems of the module each is named after; `TablesProofs` also those of `MissedSignals` | that module; `TradingProofs` also OrderContract |
| `FoldLemmas` | what the folds of the community modules compute, for the sums and deltas of the proofs | |
| `MCLiveOrders`, `MCMissedSignals` | the orders, thresholds and ticks of the small instances | LiveOrders, MissedSignals |

### Order lifecycle: OrderManager, ShadowOrder, ShadowExchange

`ShadowExchange.orders` is a record for each client id: `om` is the
`ManagedOrder` (`booked` counts what went to the ledger, `raised` remembers an
`IllegalTransition`), `place`, `left`, `ahead`, `remaining` and `cancels` are
the entries of `_pending_places`, `_resting` and `_pending_cancels` that belong
to it. Neither `sign`, `place` nor `cancel` of the shadow adapter ever
suspends, so `Submit` is one action although the code awaits; it runs some time
after `Draft`, as the spawned task does. `CloseSession` is the cancel-all of
T-0 and `Settle` the moment where books are untracked and the fee model goes.
Four things run what is due: `Pump`, `BookFrame`, `Trade`, and nothing else; in
particular `Advance` and `BookQuiet` do not.

Abstractions: a book is `visible` or not, with the depth a limit reaches
(`opp`) and the queue at the order's own level (`own`), chosen anew with each
frame, so every price combination is one of the choices; quantities are whole
lots, which leaves out the tolerance of 1e-9 in the code; a print that goes
through an order's price is a choice of the orders it goes through.

`RequestCancel` follows `engine.py:331`, with which a strategy that asks for a
cancel is served. Neither strategy that trades today asks for one, the maker
scaffold would.

### Rollover

`loop.at` is where `manage_sessions` is: `idle`, `cancelling`, `snapshotting`,
`resolving`, `connecting` are its awaits, the other values are left without
giving way; `loop.t` is the clock it read at the top of the pass, which may be
stale by any amount when it is used. `OraclePrint` is a boundary print, live or
from a backfill dump, with `_on_k_capture` and, if the window before is
settling, its settlement. `Kill` is the spawned loss check, `OnKill` the
handler that stops the loop. `Dies` is an exception that nothing
catches: out of the teardown's cancel-all (the live adapter makes its client
outside the `try`, `live_exchange.py:132`), its reconciliation or its database
write, out of discovery, or out of the reconciliation of the run loop, which
writes an incident for a live order stuck in SENT (`engine.py:563`). `loop.at`
is then `dead`, and a session that was being closed stays as it was, perhaps
CLOSING and never handed to settlement, while prints and settlements go on; the
kill handler's own write may raise too. A session transition that `_TRANSITIONS` does not list leaves a
state outside the type. Time is counted in half windows. A session's K is
the stamp of its print: that is all that `set_k` compares. A window's result is
a loss, nothing or a gain, chosen when it is settled.

### BookMirror

`link` is the connection: `down`, `resync` (subscribed, REST requests one after
the other, frames waiting), `reading`. `reply` is a REST answer already taken
from the exchange and not yet applied, so that it can be older or newer than the
frames on the wire. The exchange's side (`server`, `Streams`, `ServerChanges`,
`ServerSnapshot`) is external: an ordered connection that carries a snapshot
when the subscription starts, then changes, some of them broken, and further
snapshots. `link.lost` is auxiliary: the books of which a frame that the client
cannot read was sent after the last full one. `FeedDies` is an exception that `run` does not catch, while a
connection is set up or when its end is written down: the feed's task is over and its books stay as they are.
Sizes are abstracted to a level being there or not. A token stands
for the two books of a window, tracked and untracked together.

### Trading

`Pump` is `_pump` with the evaluation that follows: arrivals, fills told to the
scalper, sniper, scalper, gates, drafts, in the order of the code, with one
*context* (what the models, books and gates say) chosen for each pump. The
submission task is two actions, since its database writes suspend before
`note_entry_terminal`. Prices are 1, so the stake of an order is its size, and
fees in shares are left out.

Two assumptions and one consequence of the code are built in:

- `Short`: the armed phase does not end before an entry that is on its way at
  its start has ended and its rows are written. Round trips and database writes
  take milliseconds to a second, the phase lasts tens of seconds. It cannot be
  read off the code and only leaves out entries that straddle two phases.
- Only the gates' verdict matters (`failed`), except the stake cap, which is
  computed.
- The maker exit is never tried, see *time stop* below, so no order of this
  module rests.

An entry's *exits* (`ExitsOf`) are the cross-outs drafted after it and before
the next one. They may sell its shares twice (`never_short`), and since
`on_fill` takes a sale off whatever position is open, a late second sale also
takes away shares of the next position (`scalper.py:242-245`); `Oversold` is
the first of these, and `NoForgottenShares` says that nothing else makes the
scalper and its orders disagree. This needs four orders: an entry, its two
exits and the next entry. `OnlySoldTwice` says what overselling takes: two exits
of one entry that both fill. An exit is sized from the position, which fills of
other entries' exits may have been taken off, and may fill after the close has
cleared the position; still one alone never sells more than its entry bought.

### LiveOrders

`task` is where `submit` is with an order (`signing`, `posting`), `ex` where the
order is at the exchange, which matches it from the moment it arrives. The
answer of `place` (`Acked`, `Rejected`) comes any time after, an error also for
an order that was taken. `known` is the index by exchange id, `seen` the trade
ids. `Report` is a trade event of the user channel handed to `apply_fill`; each
trade has `MaxReports` reports, and a report that never comes is lost. `sweeps`
are cancel-all requests on their way; `Returns` lets the teardown or the
shutdown go on with the request carried out or with an exception, after which
it may still be carried out. `main.py` does not wire the user feed yet;
the type of its callback is that of `apply_fill`.

Auxiliary variables remember who canceled an order and which orders were on
their way when their window was swept: they name the exact exceptions to the
isolation of the windows, which `live_exchange.py:130-131` claims without any.

### Recorder, Archive

A record is its number; the hourly files are one sequence of the lines that can
be read, as the replayer reads them; a line that was glued to half a line is not
among them, and `glued` remembers the processes that lost their first line so. `WriteBatch` is the
executor's write; `Restart` kills the process anywhere, also inside a line, or
starts the next one after a stop.
`Archive` gives each record its frame, a print of the oracle or the answer to a
ping: a frame is recorded before it is parsed, captures go to `k_captures`
through the lock of the database, `StopAll` and `RestartAll` cut the calls that
wait. `Applied` is what the replayer hands to the parser before one raises;
`RawK` is K as the scripts find it in the archive.

### Tables

`queue` are the calls of `Database.execute` in the order in which they asked
for its lock; each carries the values its caller read. `INSERT OR REPLACE` goes
by the primary key, which for orders and fills is an id that every process
counts from 1. `WriteFails` raises in the calling task, which for the teardown
is the engine's loop. A trade is one unit, so realised PnL and number of fills
are one number. The report's reconciliation is a definition over the rows;
auxiliary variables remember which ids were reused, which windows two processes
held and which had a write that was lost.

### MissedSignals

A tick is what `evaluate` sees in one armed window: how sure the model is, what
is asked and how much, and one gate that may fail. The sniper's filters, sizes
and fees are computed in integers (prices in cents, probabilities in
millionths), because the report computes them again from rounded numbers.
`SignalsAssumption` has the thresholds that `_validate` of `config.py` accepts.
Its names begin with the component's where `Tables` has them too, because the
proofs about what the edge report reads extend both modules.
Between engine and report is the recorder. `log` is what the engine gave it
(`Said`), `unwritten` what of that has no line in the file, and the report reads
the rest (`Numbers`): `Record` drops a line when the queue is full, as
`recorder.py:53-56` does without telling the engine, and loses the first line
after half a line; `RestartEngine` cuts off what was not flushed. Whether the
queue is full is a choice at every line, so any lines of a window may be missing
while the process lives, a shot's or the `market_meta` among them.

`Logged`, `TooSmall`, `ThinBook`, `Filters` and the sweep are the report's
copies. `Exact` says where the report need not guess: it leaves out only ticks
for which rounding may decide. `SameSureness`: P_up and its five digits are on the
same side of `p_min_snipe`, and so is the edge of `min_edge_snipe`. `SameSize`:
the share of the depth that may be taken is not within half a hundredth of a
share below the market's minimum, nor rounded to nothing; and with thresholds
for which a book can be thin at all, neither that share nor what the stake buys
is rounded. And the process that saw the tick knew the `market_meta` that is the
last one in the file (`MetaDoc`), as the replay's static discovery and the
report take it.

`MissesExplained` has one exception, which is the code's: if the line of a shot
that a gate blocked was dropped, the report finds nothing that blocked the later
ticks of the window and calls them `would_fire_unexplained` although no order
was made. An anomaly therefore means an order whose row is missing or such a
shot (`BlockedUnseen`). `SweepIsPossible` needs no exception, since it speaks of
what the sniper did and not of what the file says of it.

## Runs

Each ends within three minutes on two workers. Deadlock is checked except for
`book_mirror` (all bounds can be used up, with every token gone), `archive` (a
stopped process at the last restart), `live_orders`, `tables` and
`missed_signals` (all orders, writes, ticks and restarts used up).

| run | states | bounds and why they are enough |
|---|---|---|
| `shadow` | 67,872 | one GTC and one FOK order of size 2, depth and round trip up to 2: partial fills in two pieces, FOK exactly met, missed by one and empty, an arrival and a cancel in either order or at once, one queue of 2 eaten by prints of 1. Orders touch only through the market, which both share |
| `depth_as_of_arrival` (violation) | | two takers of size 1, depth 1 |
| `rollover` | 285,138 | three windows, two of one day and one of the next; two stamps for each boundary; two losses in a row for the cooldown; a loss limit of one: overlap of closing, promoting and prefetching, and a settlement two windows late |
| `backfill_is_used` (violation) | | the same |
| `book_mirror` | 542,988 | two windows, one price, two changes a frame, two frames in flight, one lost connection besides those the engine forces: a level and its removal in one frame, a momentary cross, frames older and newer than a REST answer, tracking in the middle of a resync; changes may be malformed. With unreadable frames too the same instance has 1,978,139 states; its safety properties hold there, and `CleanBooks` is proved with them, but the run with liveness would take too long |
| `trading` | 518,771 | four orders of size 1 or 2, cap 2, depth 2: an entry, two exits in flight together and the next entry, partial fills of all, a sniper order beside a scalp |
| `never_short` (violation) | | three orders of size 1 or 2, cap 3 |
| `archive` | 826,201 | queue of 2, four frames, two restarts, one window, stamps that are a valid K and that are not: a full queue, a pill in the middle of a batch, a torn line followed by another process, a better print after the capture, captures cut by a stop |
| `replay_reaches_end` (violation) | | the same |
| `live_orders` | 6,171,650 | an order of two lots in the first window and one of one lot in the second, two reports a trade: partial fills, a report before and after the ack, the shutdown at any moment of a teardown, a cancel-all that raises and arrives a window late |
| `tables` | 2,543,684 | two windows, two processes, two levels an order, one failing write: ids reused by the second process, a window held by both, rows that wait behind another, die or fail |
| `missed_signals` | 4,956,709 | two ticks out of fifteen on both sides of every filter, nearly all with a P_up of more than five digits, where rounding decides and where it does not; two fee rates, any lines dropped, one restart, a torn log, a lost row: a blocked or passing shot, its line dropped or not, and a tick after it, a shot in each process |

What the passing runs show:

- `shadow`: no interleaving makes the order manager raise; the manager's state
  and the exchange's queues agree; fills are booked once and within the size; a
  resting order is filled only when the queue ahead is gone; nothing happens
  before its round trip; no order of a settled window gains a fill; every
  drafted taker ends, every cancel that was sent ends its order, and the
  exchange implements `OrderContract`.
- `rollover`: sessions are in order, books live exactly as long as they are
  needed, current and next session hold the captured K, days are sums of their
  windows, what is settled is final, all of this also after the engine's task
  has died; every closed session that has both prints is settled and a broken
  limit stops the loop, unless the task or the handler dies first.
- `book_mirror`: no window is blind, a clean book is the exchange's and was
  restored on this connection, a dirty one becomes clean while the feed lives.
- `trading`: one entry at a time and none beside a position, stake cap; before
  the close the scalper's position is what its orders bought and did not sell,
  unless an entry's shares were sold twice.
- `archive`: replay in order and without repetition, accepted records kept
  while the writer lives, nothing in memory after stop, stop ends; the table's K
  is the archive's but for lost frames, cut rows and a later process's worse
  capture.
- `live_orders`: a trade is booked, once, if and only if a report of it comes
  after the order's id is known; no report makes the manager raise; which
  cancel-all ends which window's orders, and what a teardown leaves open.
- `tables`: the report's reconciliation finds an error only where an id was
  reused, a window was cut in two or a write was lost; the row of a settled
  window is never replaced.
- `missed_signals`: whatever the report says of a window without a trade is what
  the engine did, and its sweep counts no trade the sniper would not have tried,
  wherever rounding decides nothing and the last `market_meta` is the engine's.
  An anomaly of the report may also be a blocked shot whose line the recorder
  dropped.

### Fairness

- *Shadow exchange*: weak fairness of `Submit` (a spawned task is run by the
  loop), `Advance` (time passes) and `Pump` (the engine's ticker pumps as long
  as the engine runs). A GTC order need not end and no property says so.
- *Rollover*: weak fairness of the loop's step (awaits return: every network
  call has a timeout, and one that raises is `Dies`), strong fairness of `Kill`
  and `OnKill`: they are disabled while the coroutine is between two awaits, and
  asyncio runs a ready
  task before the coroutine's next turn. No fairness of the oracle: `Settles`
  speaks of captured prints only.
- *BookMirror*: weak fairness of the client's steps and of the start of the
  stream, strong fairness of the exchange's snapshots, because FACTS.md 4.3
  says that a full book is sent on every trade-affecting event. Without it a
  book dirtied by a malformed change on a quiet market stays dirty until the
  next reconnect: the code has no resync of its own for that.
- *Archive*: weak fairness of the writer, the putting of the pill and the
  join. None of `Stop`, nor of any failure.
- *LiveOrders, Tables, MissedSignals, Trading*: none. Their properties are of
  safety, and an answer or a report that never comes is one of the cases.

## Proofs

Every safety property of the passing runs is also a theorem: TLC checks it on
the instance of the run, the theorem says it for every value of the constants
that the modules' named assumptions allow. Those only say that bounds are
numbers, that sets that are counted are finite, that orders have a positive
size, and of thresholds what the code's own validation asks. Each proof module states an inductive invariant `IInv`, proves that each action keeps it (one lemma an action), and draws the
properties from it.

| module | theorem | property |
|---|---|---|
| `ShadowExchangeProofs` | `TypeCorrect` | `TypeOK` |
| | `NeverIllegal` | `NoIllegalTransition` |
| | `Agreement` | `ExchangeAgrees` |
| | `FillsAreBooked` | `FillsBooked` |
| | `TakersFillOnce` | `TakerFillsOnce` (proved only: `KeepsContract` says it of the statuses) |
| | `QueueIsHonest` | `LastInQueue` |
| | `CancelsWereRequested` | `CanceledWasRequested` (proved only) |
| | `EndsForGood` | `TerminalIsFinal` (proved only) |
| | `SettledForGood` | `SettledIsFinal` |
| | `RoundTripsAreKept` | `NothingBeforeRtt` |
| | `Implements` | `KeepsContract` |
| `RolloverProofs` | `TypeCorrect` | `TypeOK` |
| | `WindowsIsolated` | `SessionsInOrder` |
| | `BooksAreThere` | `TrackedWhileNeeded` |
| | `SessionsHaveK` | `KAgrees` |
| | `SettledForGood` | `SettledIsFinal` |
| | `NothingLost` | `DailyIsSum` |
| `BookMirrorProofs` | `TypeCorrect` | `TypeOK` |
| | `NoBlindWindow` | `NoBlindBook` |
| | `CleanByThisLink` | `CleanIsFresh` |
| | `CleanBooks` | `CleanIsTrue` |
| `TradingProofs` | `TypeCorrect` | `TypeOK` |
| | `OneEntryAtATime` | `OneEntry` |
| | `CapIsKept` | `WindowStakeCap` |
| | `NothingForgotten` | `NoForgottenShares` |
| | `ShortOnlyIfTwice` | `OnlySoldTwice` |
| | `DraftedForGood` | `IntentsStay` (proved only) |
| | `Implements` | `OrderContract` for the orders of a window (proved only) |
| `LiveOrdersProofs` | `TypeCorrect` | `TypeOK` |
| | `EachTradeOnce` | `BookedExactly` |
| | `WindowsKeptApart` | `WindowsApart` |
| | `Implements` | `KeepsContract` of `LiveOrders` (proved only) |
| `ArchiveProofs` | `TypeCorrect` | `ArchiveTypeOK` |
| | `ReplayedInOrder` | `ReplayInOrder` |
| | `NothingAcceptedIsLost` | `AcceptedIsKept` |
| | `TableHasArchiveK` | `TableIsArchive` |
| `TablesProofs` | `TypeCorrect` | `TypeOK` |
| | `ReportIsRight` | `ReportAgrees` |
| | `SettledRowsStay` | `SettledRowStays` |
| | `SignalsTyped` | `SignalsTypeOK` (proved only) |
| | `SignalsExplained` | `ReportExplains` |

### ShadowExchangeProofs

The invariant is the type invariant and, for each order by
itself, `OrderInv`. The properties alone are not inductive: that no transition
is illegal needs to know in which states an order can be found pending or
resting; that needs to know that a cancel in flight belongs to an order whose
cancel was requested, that only GTC orders rest, that a resting order has
exactly its unfilled rest and no fill while queue is ahead, and that an order
that was never submitted has no cancels. `OrderInv` says these things, and no
two orders have to be related, because one order is touched by another only
through the market. The proof follows the code: a lemma for each handler says
that it keeps `OrderInv`, `OneOrder` and `OrdersKept` lift that to the state,
and `NextIInv` has a step for each action.

The action properties and the refinement rest on `OrdersStep`: whatever the
step of the whole system, each order makes an `OrderStep`, one of eight ways in
which a handler may change it. Together with the lemmas that a handler only
lets an order age (`Ages`: fills grow, an ended order stays), each theorem then
speaks of one order. `Implements` maps a state to the status and the fills of
each order and shows that an `OrderStep` opens the order, moves it within its
size, or leaves it.

### RolloverProofs

That the window the loop creates or promotes has never traded follows from
where the loop is and from the time it read when it woke, not from the clock:
`LoopInv` says for each value of `loop.at` which window may be current, `Ahead`
that only windows before that time, or the current one, have ever left
`PENDING`. `CurrentState` says how far the teardown has taken the current
session at each await. With these the settlement by a print at any await meets
a session in the one state that allows it. `NothingLost` follows one sum: a
step books at most one window, on that window's day, and books it at what it
settled at, once (`MoneyStep`).

### BookMirrorProofs

`CleanIsTrue` speaks of the moment when nothing of a token is on the wire; what
makes it inductive is `Synced`: *reading what is on the wire* makes a book the
exchange's or leaves it dirty. Reading is a run of books along the wire, one
for each frame, which begins where the connection began to stream or with what
the mirror has now; a frame that the exchange sends extends the run, one that
is read moves its beginning, a REST answer, older or newer than those frames,
starts a run that the snapshot still on the wire puts right. A frame that the
client cannot read is skipped and leaves the book clean (see below), so that the
run is broken there until the next full book is sent: `link.lost` names the
books this is true of, and of all others `CleanIsTrue` says that clean is the
exchange's, whatever the frames before were. That an incident is counted once
needs the connection that has ended and is not counted yet as part of the
invariant (`Pending`).

### TradingProofs

The invariant is the *book of the window*: the intents in the order of their
drafts, what each has filled, and which are still on their way, apart from how
the exchange holds them. `EntriesGood` says that the one entry on its way is the
last one and the one the scalper waits for; `ExitsGood` that a position is that
of the last entry and each exit one of an entry that has ended, neither of more
than the entry has filled; the stake is the sum of the sizes of what was bought;
and unless an entry is oversold, each entry but the last is sold out and what is
unsold of the last is the position (`Rounds`). The last part alone is not
inductive: that the fill of an exit is taken off the right position needs
`ExitsGood`, by which an exit is one of the last entry or of one that is sold
out, whose next sale oversells it.

One pump is the long step. `ArrivedIs` says what `process_due` makes of all
orders at once; `LandBook` follows the fills told to the scalper one after the
other, by induction along the orders (`Reaches`), with the part of them told so
far as an intermediate book; then sniper and scalper append at most two orders,
each by `AddBook`. No other step changes a fill (`LikeBook`).

`NoForgottenShares` used to be stated without `Oversold`, and the run agreed
with three orders; the proof could not be completed, and with four orders TLC
shows why: a second sale that fills after the next entry is taken off the next
position. Property and run now say so.

`OnlySoldTwice` explains the failing `never_short` for every bound. It follows
from `ExitsGood` and sums alone, so it also holds after the close, when nothing
ties the position to the orders any more. For one entry (`OverIsTwice`) a
single filled exit is within what the entry bought. For a token
(`ShortIsTwice`) the orders are counted one after the other: the net of the
first m is never negative, and as long as the last entry among them has no
filled exit (`Spare`) it is at least what that entry bought.

`Implements` is the third refinement of `OrderContract`. It rests on the same
steps: `Onward` says what any step may make of the orders (an intent stays, an
order that has ended keeps its end and its fills, a new one has not ended), and
`Whole`, a part of the invariant, that the manager's count is what the
strategies were told and is the whole size just of a filled order. An order gets
its size when it is drafted, so the contract's sizes are `Sized`, an arbitrary
constant that the theorem's hypothesis (`AsSized`) ties to the sizes the
behaviour draws; there always is one, because a drafted order stays and keeps
its intent (`DraftedForGood`). TLC agreed with the step on an instance of three
orders.

The proof assumes nothing but the module's assumptions, but the model itself has
`Short` as a guard: without it an entry of the armed phase could be on its way
in the lockout.

### LiveOrdersProofs

`Stage` ties the task of `submit` to the state of the order: known from the ack
on, no fill before it, no answer to the placement after. `Matching` does the
same for the exchange. `Reported` says of each trade that its reports begin with
the match and that it is in the ledger as soon as one report is neither to come
nor missed, and `Counted` that the ledger counts those trades, so that each is
booked once however its reports straddle the ack. `Asked` and `Swept` carry the
cancel-alls: a window asks for one, one that is still on its way when the
window is over was answered with an exception, and what it left is on the list
of exceptions that `WindowsApart` names.

`Implements` is the second refinement of `OrderContract`: `AgesStep` says what
any step may do to an order at the manager, and with `FillsFit` (no more is
counted than was matched) each such step keeps the promise. The instance has
every order as `GTC`, because nothing tells the manager of the end of an order
on this adapter: a FAK order that fills in part stays open, which the contract
forbids a taker and the shadow exchange never does. No run lists it; TLC agreed
with it on the instance of `live_orders`.

### ArchiveProofs

What is on disk and then in memory (batch, then queue) is one rising sequence of
record numbers; a kill keeps a piece of the batch, so it stays one
(`WrittenIs`). `Control` says where the pill may be and that a writer that is
over leaves nothing. For the table, `TableWillHaveK` looks ahead: the last call
that waits for the lock decides what the row will be, and that is the earliest
stamp of the window's frames, which for one process is what it remembers
(`MemoryHasK`), unless a call was cut or a second process heard the window.

### TablesProofs

The lock is a queue between what the process holds and what the rows say, and
carries the one into the other in order: behind the settlement of a window only
rows of its orders wait (`QueueOK`), so the settled row is the last one
(`Final`), and it waits or all of it is there (`DoneOK`). The trades of an order,
written or waiting, are numbered in a row (`FillsOK`), which is why the report
counts as many of them as the ledger booked. What an earlier process left behind
agreed when it ended, or is excused by a reused id, a cut window or a lost row
(`PastAgrees`).

About `MissedSignals` the invariant (`SignalsInv`) ties each document, written or
dropped, to what the sniper did: a shot was wanted by it and failed just the
gates that the engine evaluates; a tick without a shot was not wanted or came
after a shot of its process; a shot that passed has an order row, unless the
write was lost. `RecordIs` is all it needs of the recorder: the document is the
last of the log, whatever became of its line. `WantedIs` then says that where
`Exact` holds the report's copies of the filters are the sniper's, and
`FilterIsGate` that one of them that the sniper does not have is a gate. They
rest on the arithmetic of the rounding: how far from a limit a rounded share
leaves the verdict alone (`DepthReaches`, `TooSmallIs`), and, where a thin book
is possible, that a report which multiplies back what it divided finds the
engine's number if nothing was lost (`DepthIsExact`, `StakeIsExact`, `ThinIs`).

The proof found two cases in which `ReportExplains` was false for thresholds
other than the run's. The report compares the depth with what the stake buys,
the gate with that rounded to hundredths of a share, which differs where a thin
book is possible at all; `Exact` now asks that nothing is rounded there. And a
stake larger than the window's, which `_validate` refuses, is cut down by the
engine and not by the report.
These theorems stand in this module because both are about what the edge report
reads, and they need none of the other invariants.

### FoldLemmas

The sums of the ledgers and the deltas of the books are folds of the community
modules, that is, recursive functions over subsets. The library's induction
theorems take the proposition as an operator, which no installed prover can
instantiate; the lemmas go round this by the smallest counterexample, a set of
subsets or of numbers, for which the library has well-founded orders. They say
that the fold exists, what one more element adds, that a sum depends only on the
values in its set, and that it grows with them.

### Only model-checked

- Liveness (`TakerEnds`, `CancelLands`, `Settles`, `BreachStops`,
  `BecomesClean`, `StopEnds`): the prover has no rules for fairness and
  ENABLED.

## Where code and documentation disagree

Checked, each by a run whose property states the documentation and fails:

- `depth_as_of_arrival`: rule 1 of the shadow exchange speaks of the depth at
  signal time plus round trip; an order that is due while nothing arrives meets
  the book of the next event.
- `backfill_is_used`: a boundary print that is backfilled when its window has
  closed does not reach the settling session, which is dropped without K.
- `never_short`: the cross-out is sent again while the first is in flight, and
  both may fill; it takes that (`OnlySoldTwice`). If the second fills after the next entry has, the scalper also
  forgets shares of that one, which then stay unsold.
- `replay_reaches_end`: the replayer hands every recorded frame to the parser,
  also the PONG that the live read loop skips and the frames whose exception it
  catches; the first PONG of a recording ends its replay.

Met while modelling, and described here only:

- *Free liquidity.* Two takers due at one event both read the whole book
  (`shadow_exchange.py:211`), though `tests/test_shadow.py:2` says there is
  none.
- *Settlement price.* A window settles at the first print stamped at or after
  its end (`engine.py:139`), which is the next window's K, also when an earlier
  one arrives afterwards; `SettledIsFinal` shows that it is not revised.
- *Silent transitions.* `polymarket_clob_ws.py:6` says that every transition
  between dirty and clean is an incident; only reconnects are (`base.py:110`).
- *Outcome.* `scalper.py:233` opens every position as UP; a DOWN purchase is
  then managed by the wrong side's book and fair value.
- *Pending entry.* The scalper is told of the end of an entry by the submitting
  task (`engine.py:443`), when a shadow order is usually still on its way; an
  entry that expires later blocks it until the window closes.
- *Time stop.* `held_for` counts from the exchange time of the fill, which the
  shadow exchange leaves at 0 (`scalper.py:161`, `shadow_exchange.py:286`): each
  position is past its time stop at once.
- *Gaps.* `recorder.py:9-11` says that a gap is marked; drops are only counted
  (`:56`).
- *Kill.* `risk_manager.py:5` speaks of flattening; the handler cancels and
  stops.
- *Sessions without K* are dropped from settling without being untracked
  (`engine.py:266-268`).
- *A dead writer and a full queue* make `stop` wait for ever
  (`recorder.py:71`), which is why `StopEnds` excludes a dead writer.
- *Unreadable frames* and frames of an unknown type lose a change and leave the
  book clean (`polymarket_clob_ws.py:189`), against `:3-4`. `BookMirror` has
  them as a value of `Anomalies`; `CleanIsTrue` and `CleanBooks` say how far it
  goes: until the next full book.
- *Takers that stay open.* Only the shadow exchange confirms cancels and tells
  of the killed remainder of a FAK order (`engine.py:111-114`); on the live
  adapter no cancel and no killed remainder ever ends an order, though
  `order_manager.py:9-10` has CANCELED come from a confirmation.
- *Torn lines.* The first line after a torn one is glued to it and lost
  (`recorder.py:109`), against "lossless" in `:5-6`; `AcceptedIsKept` allows
  just that line. `m1_extract.py:159` and `:167` parse a line whose beginning is
  intact without a catch, though `:9-11` says that a torn line is tolerated.
- *Fill before the ack.* `order_manager.py:58` allows a fill to beat the ack,
  but the exchange id is entered only with the ack (`:205-208`): such a fill is
  of an unknown order. So are all fills of an order whose request timed out
  although the exchange took it, and, on the user channel, those of other
  people's taker orders (an `unknown_fill` incident each).
- *One window at a time.* `live_exchange.py:130-131` counts on only one window's
  orders being open. `WindowsApart` states what holds: an order may be canceled
  by a later window's cancel-all if it was on its way at its own, and by an
  earlier one's if that request had raised and came late; and feeds go on
  evaluating after `engine.stop` has sent its cancel-all (`main.py:156-158`).
- *First capture.* `session.py:69` says that the first capture wins; the earliest
  stamp does (`:70`).
- *After a restart* order and trade ids are counted from 1 again and replace the
  rows of the process before (`order_manager.py:79`), and a worse capture of K
  replaces a better one (`database.py:146`). `m2_edge_report.py:217` takes an
  order row for one order.
- *Edge report.* `net_pnl` (`:419`) adds the window's PnL once for each filled
  order of the window; sells are counted as buys; a blocked scalper explains the
  sniper's misses (`:307`); statistics are asked for "mode_b_scalper" (`:423`)
  while the strategy is called "mode_b_scalp" (`scalper.py:49`), so they are
  always empty; without a market_meta it assumes 1000 bps and five shares, and
  with unknown fees a rate of -1. Each strategy, the disabled maker too, logs an
  armed evaluation without intent, so ticks count several times; and a dropped
  line of the decision log makes an anomaly of a blocked shot (see
  MissedSignals).
- *Replay* reads `*.jsonl` only: hours that `compress_and_guard.sh` has
  compressed are left out. Its clock never goes back, so after a reboot, which restarts the monotonic
  clock, it stands still (`replayer.py:80`).
- *A dead task.* An exception out of `manage_sessions` or out of the setting up
  of a connection ends the engine's or the feed's task; `main.py` awaits them
  only at shutdown. Books that a dead or disconnected market feed leaves clean
  stay clean, and no gate reads that feed's age.
- *Kill handler.* `_stopping` is set after the incident is written
  (`engine.py:568-569`): if the write raises, the engine goes on with the kill
  switch thrown.
- *Cooldown.* It is set from the window that settled last (`risk_manager.py:61`):
  windows that settle out of order may shorten it.
- *Exposure.* The gate sums booked fills (`engine.py:387`); orders in flight are
  not counted.

## Not modelled

The Binance feed and the statistics (`model/`), which the models replace by a
choice of signal; fees taken out of fills; the dashboard, logs and status file,
latency samples and incidents, which are written and not read back;
configuration and wiring; the scripts that only print statistics of files or
ask live services; the maker strategy, a disabled scaffold. Exceptions other
than the ones named (a refused write, a failing or unreadable REST answer, a
market that is not found, a library call that raises) do not occur in the
models. In the engine, the reconciliation is only the exception it may end the
task with: it changes no order, but logs and writes an incident for a live order
stuck in SENT. The clock check is left out. The lock of the database is released when a waiting task is
cancelled while its thread still writes; the models let a write happen at once.
In `Trading` the gates for cooldown, daily budget and exposure are a choice:
every combination of failing gates occurs, but not their numbers.

## Plan

Done, in this order: the shadow exchange with its contract, rollover, the book
mirror, trading, the recorder; the safety and refinement proofs about the
shadow exchange; then the live adapter, the archive, the tables, the edge report
and discovery, and the exceptions that end the engine's and the feed's tasks;
then the inductive invariants and the safety theorems of every component, the
edge report's and those of books with unreadable frames last; and that the
orders of the live adapter and of a window's strategies keep the contract too.

Next, theorems: the two-state facts that the invariants make cheap (the K of a
window's row only improves within a process, a session's state only moves
forward, the sniper fires once).

Next, modules: the cooldown and exposure gates as numbers, the database lock
under cancellation, fees taken out of fills.
