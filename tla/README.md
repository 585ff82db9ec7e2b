# Verification of EMSX: the futures strategy and the OMS

TLA+ models of the two Python systems of this repository, the TLC runs that
check them on small instances, and the theorems TLAPS proves about them for
every instance.

- `futures_emsx_strategy/` (below **FES**): a minute strategy that turns bars
  into target positions, an execution service that turns targets into orders,
  and adapters to a paper venue and to Bloomberg EMSX.
- `oms-emsx/` (below **OMS**): asyncio modules over Redis streams: a risk gate,
  a gateway to EMSX, an archiver, and a watchdog.

Paths are relative to `src/futures_emsx_strategy/futures_emsx_strategy/` for FES
and to `src/oms-emsx/oms/` for OMS.

## 1. Inventory

### FES

| component | state | operations | what is hard | what makes it correct |
|---|---|---|---|---|
| Execution runner, `app/run_execution.py`, `app/wiring.py` | none of its own; drives the books below | `on_target`, `on_execution_update`, `on_fill`, warm restart in `build_services` | callbacks run on the bus thread or on the subscription thread; any call may raise and leave a handler half done; a crash between any two calls; redelivered targets | a target is handled to its end; no key is sent twice; the books follow the venue; a restart resumes where the last life ended |
| Order manager and books, `orders/` | `WorkingOrderBook`, `OrderLifecycle` | `OrderManager.on_target`, `upsert`, `register`, `update` | the delta is computed from two books that other threads move | position plus working orders never overshoots the target; no order stays in the book after its end |
| Idempotency, `orders/idempotency.py`, `storage/idempotency_backend.py` | table `submitted_intents` | `has`, `mark`, `claim` | check-then-claim from several processes | one live request per key; a key given up is never sent |
| Paper adapter, `execution/paper_adapter.py` | none | `submit_order` | crash between its callbacks | fills once, leaves no working order |
| EMSX adapter, `execution/emsx_*.py` | sequence map, buffers of early events, state machine, subscription queue | `submit_order`, `_handle_route_update`, `_handle_order_update`, replay | the two threads share the buffers under a lock, and dispatch outside it; what a callback raises is logged and the message given up | an event is applied, held or given up to a raise, and never twice |
| Pre-trade risk, `risk/pre_trade.py`, `risk/kill_switch.py`, `orders/throttles.py` | kill switch, sliding window | `validate`, `trip`, `try_acquire` | position limit computed without the working orders; an order checked before the trip and sent after it | position limit; no order is sent after the trip but those already checked |
| Positions, `portfolio/positions.py`, `portfolio/pnl.py`, `storage/repositories.py` | `PositionBook`, `PnLCalculator`, tables `fills`, `positions` | `apply_fill`, `insert`, `upsert` | two threads read and then write the position; partial closes and flips | the stored position is the book's; fills are counted once; profit is the cash of the fills |
| Reconciler, `app/run_reconciler.py`, `portfolio/reconciliation.py` | a copy of the positions table | start, compare | the copy is taken once; the statement it is compared with may be old or missing | a break against a current statement means a fill that the copy lacks |
| Buses, `messaging/` | offsets, consumer threads | publish, subscribe, commit | a handler that raises; a message that cannot be decoded; a crash before the acknowledgement | in order, and handled, pending or delivered again |
| Bar builder, `market_data/bar_builder.py` | bar under construction | `on_tick`, `flush` | late ticks; `flush` on one thread and `on_tick` on another | a bar is emitted once and holds its own ticks |
| Strategy, `strategy/` | the two averages | `on_bar` | state lost at a restart, bars lost on the bus | the targets are those of a replay of the bars |
| Programs, `app/run_all_local.py`, `examples/08`-`10` | wiring, counters of fills | a session from tick to fill | up to three threads over the same books; a callback that trips the switch | one order per bar; the books agree at the end |
| Slicing, backtest, monitoring, configuration | counters, append-only logs | | | |

The parts call each other in one process: the bus thread calls `on_target`,
which calls the order manager, the risk gateway, the idempotency backend and
`adapter.submit_order`; the adapter calls `on_execution_update` and `on_fill`
back, on the same thread (paper, replayed events) or on its own `emsx-subs`
thread (live events). SQLite is the only durable state. EMSX is reached through
requests and one subscription stream.

### OMS

| component | state | operations | what is hard | what makes it correct |
|---|---|---|---|---|
| Delivery, `core/base_module.py`, `core/redis_bus.py` | Redis stream, group cursor, PEL, keys `processed:{module}:{id}`, outbound buffer | `subscribe`, `consume_once`, `process_message`, `is_duplicate`, `ack`, `on_start`, `replay_pending`, `publish` | two tasks process one stream; crash or error between any two awaits; replies lost | a message is never dropped silently and never handled twice |
| EMSX gateway, `modules/emsx_gateway.py` | `_pending`, `_fills_seen` | `handle_approved`, `_on_blpapi_event`, `_dispatch_event`, `_handle_fill_message`, cancel and session events | one task per event; tasks interleave in `publish`; cumulative quantities become increments | the increments add up to what was filled; done is reported once |
| Risk gate, `modules/risk_gate.py` | prices, positions, volatility, margins, kill switch, rejection window | `handle_new_order`, `handle_rejection_event`, four state streams, kill-switch probe | three tasks share one flag and one window across their awaits | a set switch holds; limits hold for what was approved; one alert per window |
| Outbound buffer, `core/redis_bus.py` | bounded local buffer | `publish`, `connect`, `disconnect`, `drain_buffer` | the connection goes while a drain runs; a failed `XADD` puts a message back at the tail | order; a drain ends |
| Watchdog, `modules/watchdog.py` | registry of heartbeats, restart counts | `handle_heartbeat`, `handle_health`, `_check_once`, `_attempt_restart`, PEL check | the age is read before an await and used after it; two subscriptions share one group, and one of them swallows heartbeats | only a module that is silent, or whose heartbeats were swallowed, is restarted, a bounded number of times; one that stays away is declared dead in the end |
| Archiver, `modules/archiver.py` | batch in memory, file and index of the day | `handle_any`, `_flush`, `close` | entries are acknowledged before the batch is flushed; a flush that fails half-way, inside a line or a transaction, or is cancelled | nothing archived twice; the index follows the file; an acknowledged entry is held somewhere |

The modules meet only in Redis: `orders.new` → risk gate → `orders.approved` →
gateway → EMSX → gateway → `fills.*` → risk gate, archiver.

## 2. Modules

| module | models | safety |
|---|---|---|
| `IntentPipeline` | the abstract promise: any number of processes generate, approve, claim and send intents; one live request per key | proved |
| `ExecutionRunner` | the part of the execution service that is the same for all adapters: `on_target`, order manager, books, risk verdict, claim, callbacks, SQLite, restart | |
| `PaperExecution` | extends it with the paper adapter | proved |
| `EMSXExecution` | extends it with the EMSX adapter, its second thread and the venue | proved |
| `EMSXPipeline` | the refinement mapping EMSXExecution → IntentPipeline, for any set of watched keys | proved |
| `BarBuilder` | what a tick does to a bar: a module of operators | |
| `BarFeed` | the market-data service and the strategy service as two processes over the Redis or the Kafka bus: ticks, bars, delivery, averages, targets | proved |
| `Portfolio` | position book, profit, positions table, warm start and reconciler, with exact fractions | |
| `AutoRoute` | extends `Portfolio`: four programs of one process each, from tick to fill, with the kill switch and the rate limit | proved |
| `StreamDelivery` | one OMS module's subscription to a Redis stream: live task, replay task, Redis | proved |
| `OutboundBuffer` | what an OMS module publishes: connected, buffered, drained | proved |
| `Archive` | extends it with the archiver, so that what a flapping producer publishes is what is archived | proved |
| `RiskGate` | the OMS risk gate: its three tasks, its state streams, the kill-switch key | proved |
| `GatewayFills` | the OMS gateway: sends, event tasks, increments | proved |
| `Watchdog` | the OMS watchdog: registry, heartbeats, checks, restarts, and the processes it watches | proved |
| `MC*` | the instances TLC checks | |
| `*_proofs` | theorems and their proofs | |

`ExecutionRunner` is not a specification by itself: it declares the state and
gives the steps and callbacks, and the adapter modules compose them. A callback
(`OnExecutionUpdate`, `OnFill`) is a conjunct of the adapter step that calls it,
because the call is synchronous. Between two calls that touch shared or durable
state there is a `pc` value of the calling thread, so that the other thread or a
crash may come in between; calls that only touch the thread's own locals are
one step.

`AutoRoute` is about what the programs share and not about the adapter: the four
programs differ in which thread handles a bar (`md` alone in "local", `md` and
`main` in the others), in who calls back (the submitting thread on paper, `subs`
with EMSX) and in what they do at the end, and `Next` is the disjunction of their
handlers. An event of an order reaches `subs` only after `submit_order` has mapped
it; what comes earlier is the subject of `EMSXExecution`. The paper adapter rejects an order
without a mark: in example 08 a live tick may have a bid and an ask and no last price
(`market_data/bloomberg_provider.py:111`), which closes a bar but sets no mark
(`SubmitUnmarked`); in `run_all_local` every tick is a mock tick with a last price.

Calls that raise. `EventBus.publish`, the event log and SQLite are called in the middle of
`on_target`, `on_execution_update` and `on_fill`, and the exception is swallowed further up: by
the bus thread (`messaging/redis_bus.py:73`), or by the subscription thread
(`execution/emsx_subscriptions.py:116`). `CallRaises`, `BusCallRaises` and `SubsCallRaises` are such a
raise before the books move, `InsertRaises` and its counterparts one of `fill_repo.insert`, after
they did; each leaves everything the exception leaves: the fill of the same message, and in a
replay the rest of what was popped from the buffers. `lost` and `unstored` keep account of it, and
`MaxRaises` bounds it. In the OMS, a call to Redis may raise before it took effect or after
(`...ReplyLost`).

### How state corresponds

| TLA+ | code |
|---|---|
| `position`, `working`, `registered` | `PositionBook._qty`, `WorkingOrderBook._by_key`, the keys of `OrderLifecycle._records` |
| `claimed`, `dbFills`, `dbPosition` | tables `submitted_intents`, `fills`, `positions` |
| `pc`, `decision`, `intent`, `accepted`, `readPos` | where a thread is in `on_target`, `submit_order`, `on_fill`, and its locals |
| `seqToClient`, `pendingUpdates`, `pendingFills` | the adapter's `_seq_to_client`, `_pending_updates`, `_pending_fills` |
| `lost`, `unstored` | histories: fills given up unbooked to a call that raised; fills booked whose insert raised |
| `orders`, `stream`, `request`, `response`, `cursor`, `job` | the venue, the subscription's events, the request in flight, what `emsx-subs` has in hand |
| `pel`, `cursor`, `marks` | the group's PEL and last-delivered id, the idempotency keys of `is_duplicate` |
| `entry`, `order` | the watchdog's `registry` (`last_seen` as an age) and the insertion order of its keys |
| `missed`, `silenced` | histories: heartbeats in a row that `handle_health` took and ignored; modules of which a timeout's worth was |
| `hb`, `check` | where the heartbeat task and the check task are suspended in `publish`; `check.todo` is what the iterator has left |
| `fillsSeen`, `pending`, `events` | `_fills_seen`, `_pending`, the asyncio tasks of events |
| `task`, `kill`, `flag`, `view` of `RiskGate` | where each task is in its handler, and the reply to its probe; the Redis key; the gate's `kill_switch_active`; its `state` |
| `window`, `alerts`, `actual` | rejection timestamps, times of the alerts, the position the venue really has |
| `buffer`, `drain`, `sending`, `stream` | `_buffer`, where `drain_buffer` is, the `XADD`s on their way, the stream |
| `pool`, `batch`, `wal`, `index`, `flush` | `_jsonl_buffer` and `_index_buffer`, the batch in the flush task's hand, the files, the write that the flush awaits |
| `torn`, `glued`, `inserted` | whether the file ends inside a line; entries written after such an end, in the same line; rows of the open transaction |
| `openBar`, `emitted`, `topic`, `hand`, `pel`, `group` | `MinuteBarBuilder._open_bars`, bars emitted, the stream or partition, the messages read and not handled, the group's PEL and the position it was created at |
| `book`, `pnl`, `stored`, `auditor`, `statement` | `PositionBook`, `PnLCalculator`, the table `positions`, the reconciler's copy and last word, what `load_external` returns (0 for nothing) |
| `task`, `call`, `news`, `tripped` of `AutoRoute` | where a handler is in `_emit` … `submit_order`; where a callback is in `on_fill`; events the subscription has for the process; the kill switch |

Abstractions: one instrument and one strategy (the books are keyed by
instrument, and nothing crosses keys); the idempotency key, a hash of bar, side
and quantity, is that triple; prices are left out of the execution models and are integers in `Portfolio` and `AutoRoute`,
where average costs and profits are exact fractions for the code's floats; the
risk checks whose inputs are not in a model's state give an arbitrary verdict;
quantities are small integers. The statuses in `OrderLifecycle` and `EMSXStateMachine` are left out: they are
written and never read. A stream message is its position in the stream, or
its number in the order it was published. A bar is named by its minute. In `BarFeed` the averages are
exact fractions too, so `LiveIsBacktest` says nothing of rounding; a message that does not decode
is "garbled" (decode raises) or "unfit" (it decodes to something that is no bar).

A run covers several circumstances at once by a variable that never changes
(`conduct`, `setting`): whether the venue may publish before its response was
handled, whether a handler may raise, whether an event may hold two messages. A
property that needs one says so as a hypothesis, so the run shows where it
holds and where it does not is in section 3.

Operators named `...Fault` are faulty variants of the operator that follows
them; each property must fail when one is put in its place.

## 3. Runs

Passing runs (`CHECK_DEADLOCK FALSE` everywhere: the bounds on messages, bars and
deliveries let every model come to its end):

| run | instance | shows |
|---|---|---|
| `pipeline_race` | 3 processes, 2 keys | `AtMostOneLive`, `DeadStaysDead`: a key given up is never sent |
| `paper` | 3 bars, 4 deliveries, 2 crashes, 2 calls that raise | position limit in the book and the table; an order that filled takes the position, with what the working book says is to come, exactly to its target; the stored position is off by at most one fill per crash or raise |
| `emsx_service` | 2 bars, 2 orders of up to 2 lots, 2 deliveries, 1 crash, 1 call that raises, early events | every fill is in the buffers, the replay, the thread's hand or the books, or given up to the raise; buffers of mapped orders empty; one order per key; refinement of `IntentPipeline` |
| `emsx_live` | the same without crash, three conducts | when quiet and orderly the working book covers the venue's open orders, and is exactly those before a raise; stored position current; the last target is overshot by no more than the fills given up when targets are spaced and never fall; every other fill counted, under fairness |
| `bar_feed` | up to 5 ticks, batches of 2, 2 lives of the strategy service; every sequence of 4 ticks for two bar lengths, and for each bus five ways to go wrong | the bars are those of a reference computed over all ticks; bars are handled in order and, on Redis, once; what Redis delivered is handled or pending; targets are those of a replay of the bars |
| `auto_route` | 4 minutes, 2 prices, orders of 1 to 3 lots, 2 orders per minute, 9 conducts of the 4 programs with refusals, missing marks, early stops, a crash, a second session and an audit against a statement that is missing, old or current | profit is cash plus position at any mark; a tripped switch lets through only orders already checked; one order per bar; books, table and broker agree when nothing is on its way; what a break against a current statement means |
| `stream` | 3 messages in batches of 2, 2 crashes, 1 expiry, all 16 settings | handler started once per life of its key; nothing dropped where nothing is replayed; everything handled without faults; the PEL of one stream drains |
| `risk_gate` | 3 orders, one with a limit price, two of which break the limit together, time up to the window, 3 state messages, 1 toggle, 7 conducts: backlogs with and without their key, malformed orders, accounts that hold something at the start | a set kill switch holds for whatever arrives afterwards; spaced orders keep the limit, but for what a restarted gate was not told; a spike is announced, and twice only if a reply was lost; every order that the code owes a verdict is decided |
| `archive` | 3 messages, buffer of 2, 3 flaps, 2 lives, 4 conducts | order of what went through the buffer; nothing archived twice and the index follows the file, but for entries glued to a torn line; acknowledged entries are held or forgone with a flush; a drain ends |
| `gateway` | 1 order of 3 lots, batches of 2, 1 repeat, 1 crash, all 8 conducts | increments add up when orderly; nothing counted or reported done twice |
| `watchdog` | 1 known module, 1 the registry learns of, 1 stop or hang, 2 swallowed heartbeats, a budget of 2 restarts, publishes that fail or not | a module that lives is declared down only after a timeout's worth of its heartbeats was swallowed in a row; restarts keep to the budget; a module that stays away is declared dead; one that is up for good has its budget back |

Bounds. Two lots are enough for a partial fill, a second fill and a cancel of the
rest; two orders for one order to be working while the next is computed; one
crash per step of the handler is reached, because the crash may fall anywhere,
and the second crash of `paper` and `stream` falls into the recovery of the
first. Two deliveries cover a redelivery of either bar. Three messages in batches
of two give a batch in hand while another one is pending. In `gateway` one order
is enough for the increments, which are kept per order; its events interleave.
In `watchdog` two swallowed heartbeats reach the dead timeout, the first of them the heartbeat timeout;
a budget of two leaves an attempt to be spent after the reset; the module that is not known gives a registry
that grows while it is walked. In `risk_gate` two orders of 2 exceed a limit of 3
only together, one more takes the position back; the threshold and the window are 2, so that a third
rejection falls into the window and another one out of it. In `archive` a buffer of 2 overflows at the third message, and
three flaps disconnect in the middle of a drain and reconnect. In `bar_feed` the slow
average takes 3 bars and the session 5, so a restart loses a warm average and
builds another one; bars of 2 and 3 minutes in hours of 4 minutes give a bar length that
does not divide the hour. In `auto_route` 4 minutes give the open bar that `md` and `main`
race for, an earlier order in the same rate window, and a minute that begins a
second session; targets from -2 to 1 over orders of up to 3 lots open, close in
part and flip. Each conduct of a run opens one or two of its faults, so that the
state space stays small; no fault is in no conduct.

Hypotheses. Some properties hold only under a condition that the code itself does
not enforce. They name it, and the run also contains the conducts that break it.

| condition | meaning | needed by |
|---|---|---|
| `~conduct.early` | the venue is orderly: it publishes an order's events after its response was handled | `WorkingMatchesOrderly`, `StoredPositionCurrent`, `SpacedWithinTarget` |
| `conduct.spaced` | `EMSXExecution`: a target comes when all is quiet. `RiskGate`: an order comes when the position after the one before was reported. `AutoRoute`: a target is not computed inside a callback, and main has handled its bar before md closes the next | `SpacedWithinTarget`, `PositionWithinLimitSpaced`, `OneOrderPerBar` |
| `NeverFalling` | targets are long and never fall: after a fall the venue may cancel the sale that the next purchase was netted with | `SpacedWithinTarget` |
| `raises = 0` | no call has raised: a raise may leave in the working book an order the venue never had, or updates that were given up | `StoredPositionCurrent`; `WorkingMatchesOrderly` and `TargetReached` in their second parts |
| `+ LostQty`, `+ Untold`, `alerts[i].noted`, `cuts` | no hypothesis but the price: the fills a raise took; what the account held and the gate was not told; alerts whose reply was lost; lines torn by a write that was cut short | `SpacedWithinTarget`, `FillsReachBook`; `PositionWithinLimitSpaced`; `SpikesAnnouncedOnce`; `IndexFollowsWal` |
| `conduct.backlog = <<>>`, `NoRejectionLeft` | `RiskGate`: no order, no rejection of an earlier life is left for the replay | `PositionWithinLimitSpaced`, `SpikesAnnouncedOnce` |
| `Owed(o)`, `o \notin conduct.malformed` | `RiskGate`: the order is not one the replay skips as a duplicate, and its fields convert | `EveryOrderDecided` |
| `auditor.current` | the statement the reconciler compared with was the broker's position | `BreakMeansMissingFill` |
| `conduct.steady` | the strategy gives a bar handled twice the same target | `OneOrderPerBar` |
| `~ended` | no process has ended before | `OneOrderPerBar`, `BooksAgree`, `BreakMeansMissingFill` |
| `conduct.drained` | `drain_buffer` is called while connected and the connection stays | `DrainEnds` |
| `~conduct.fails`, `Healthy` | Redis, blpapi or a publish does not raise, and no message is malformed | `EventuallyHandled`, `PelDrainsOfOneStream`, `EveryOrderDecided`, `IncrementsAddUpOrderly`, `LiveIsBacktest`; `SpikesAnnouncedOnce` in its second part |
| `~conduct.batches`, `~conduct.late`, `crashes = 0` | one message per event, none after done, no restart | `IncrementsAddUpOrderly`; `NothingReportedTwice` in parts |
| `missed[m] >= HeartbeatTimeout` | that many heartbeats in a row went to `handle_health`, which `run()` subscribes to the same stream in the same group | `OnlySilencedIsDown` |
| `~fails` | `Watchdog`: no publish and no spawn raises | `BudgetComesBack` |
| `setting.wildcard` | the subscription is a pattern | `NoSilentDropUnreplayed`; its negation: `PelDrainsOfOneStream` |

Fairness is used where a run has a liveness property (`emsx_live`, `stream`,
`watchdog`, `risk_gate`, `archive`). Each thread or task keeps running (`WF` of the
bus thread, of the subscription thread, of the live and the replay task, of each
task of the gate, of a drain and of each `XADD` on its way, of the flush task),
which is what an OS thread and an event loop with no blocking handler give. `WF` of
`VenueReplies`: the venue answers each request; without it
`EMSXRequests._read_response` waits for ever, which the code accepts. The watchdog's
clock goes on (`WF` of `Tick`), a process that runs beats in every tick, and the heartbeats that
`handle_health` swallows come to an end (`MaxSwallows`): were they swallowed for ever, a module that lives
would be dead for ever, and `BudgetComesBack` would not hold. Nothing
obliges the venue to fill, the strategy to emit, the kill switch to change or a crash to happen.
`PendingLimit` (1000 in the code) is assumed at least as large as the PEL in
`PelDrainsOfOneStream`.

### Where the code departs from its documents

One of these is a run of its own, `emsx_double` (violation of `WithinTarget`): a
target handled between the update and the fill of one message sees the quantity
in neither book and sends it again, while `orders/models.py:10` says of the working book "Tracks open orders so
OrderManager doesn't double-send."

The others are where a hypothesis or a weaker statement comes from:

- `docs/contracts.tex:1031`: buffered updates "are replayed under the now-known client
  id, in order. No updates are silently dropped." The replay is outside the lock: newer events of the
  subscription thread may come first, and the book follows the older one, replayed last
  (`~conduct.early`); the same race upserts the position from two reads, so that a restart need not see the
  "post-fill state" of `app/run_execution.py:137`. And both callbacks publish before they touch the books
  (`app/run_execution.py:109`, `:132`): if that raises, `execution/emsx_subscriptions.py:116` logs it and goes on, and the
  update and its fill, or all that a replay had popped, are given up (`lost`, in `EveryFillSomewhere`,
  `SpacedWithinTarget`, `FillsReachBook`; `BookCovers` in `WorkingMatchesOrderly`).
- `app/wiring.py:126`: "Fills observed since the last persisted position update will be replayed by the
  venue subscription on reconnect; if not, reconciler picks them up." After a restart the adapter's map of sequences is
  empty, so what EMSX repeats stays in the buffers; on paper nobody repeats anything. The reconciler
  reports a difference if it is given a statement, and changes no book. `StoredPositionAccounted` therefore
  allows one fill per crash, or per call that raised, to be missing for good.
- `orders/models.py:10`, "doesn't double-send", also fails in `OrderManager.on_target` itself, which reads the position
  and then the working orders under two locks: a fill between the two reads is in neither. A spaced target
  comes when no order is open, which leaves no such fill.
- `app/run_reconciler.py:26`: without `--external-positions`, or when the file is missing, every position is compared
  with zero, and an old file with what it says; a break then need not mean a missing fill (`auditor.current`).
- `risk/kill_switch.py:1`, "When tripped, every order is rejected", and `examples/10_pipeline_emsx_auto_route.py:16`,
  "tripping it stops everything". An order whose checks were passed before the trip is still sent, at most one per handler thread
  (`TrippedStopsOrders`).
- `core/base_module.py:163`, "PEL keeps the message for retry on restart", and
  `oms_emsx_spec.md:510`, "never silently dropped". The idempotency key is set
  before the handler runs; after a raise or a crash the replay finds the key set, acknowledges and
  skips (`setting.wildcard` is the only circumstance in which nothing is replayed). An order the risk gate
  had in hand when it died is skipped the same way and never decided (`Owed`).
- `core/redis_bus.py:195`, `:232`: an entry that is no JSON ends the batch it was read with, and a wildcard refresh whose
  call fails ends the live task for good; both are outside the `try` of the loop (`Healthy`).
- `oms/tests/test_emsx_gateway.py:118`: "`filled_qty` is the *increment* for this fill". A task
  suspended between two messages of one event sets `_fills_seen` back
  (`~conduct.batches`).
- `modules/watchdog.py:97`: heartbeats are filtered by `handle_health` as "already handled". The two
  subscriptions of `run()` are one consumer group, so a heartbeat that `handle_health` gets is one that
  `handle_heartbeat` does not, and a healthy module may be degraded and started again (`OnlySilencedIsDown`).
- `modules/watchdog.py:89`, "Reset restart counter on recovery so the budget resets". A check that found the
  module degraded before its recovery restarts it after it, and that attempt stays counted (`BudgetComesBack`).
- `modules/risk_gate.py:240`, "at most one alert per window". The time is noted after the publish: if the alert is on the
  stream and its reply was lost, or the replay counts a rejection meanwhile, a second one goes out.
- `modules/risk_gate.py:171` takes a position nobody reported for zero, so a restarted gate keeps the limit only up to
  what the account already held (`Untold`).
- `oms_emsx_spec.md:151`: "On reconnect, the buffer drains in order before new messages are published." What is published while a drain
  runs does not wait for it and overtakes the buffer; `BufferedInOrder` speaks of the messages that were in it.
- `modules/archiver.py:8`: "if a flush fails the next restart picks the message up from
  the PEL". The entry was acknowledged when it was put into the batch and is in
  no PEL; the model keeps these entries as `forgone` (`AckedIsHeld`).
- `oms_emsx_spec.md:269`, the file "is the source of truth". A write that is cut short inside a line leaves the
  next line glued to it, and the index names an entry the file has no line of (`glued`); a failed insert is
  not rolled back, and its rows go with the next commit (`inserted`).
- `docs/contracts.tex:1436` treats the bus as at-least-once. The FES Redis bus
  acknowledges a bar whose handler raised, never reads its pending entries
  again, and a message that does not decode ends the consumer thread: what
  was read and not handled stays pending for ever (`LostStaysPending`).
- `oms_emsx_spec.md:99`: on startup a module "Replays pending PEL messages before
  consuming new ones." The live task starts reading before the replay has begun; for a pattern
  `on_start` asks for the PEL of a stream named like the pattern, and nothing is
  replayed.

Seen in the models without a sentence that says otherwise: after a crash the working book is
empty, so a redelivered target has another quantity, hence another key, and is sent on top of the
open order; after a flip the venue may cancel the order that the next one was netted with; the
gateway's `_fills_seen` is lost in a restart and dropped when an order is done, so a later message
counts the whole quantity again; an order that fills before `sendRequest` returned stays in
`_pending`; a disconnect during a drain makes `drain_buffer` spin without an await; two orders
checked against the same position report may pass the limit together; a bar built in two lives of
a process is two bars; the profit calculator starts from zero where the position book starts warm.
Seen in the source only: `EmsxGateway.open` (`modules/emsx_gateway.py:66`) keeps a task of its own
in the attribute that `BaseModule.on_start` tests for None before it starts the heartbeat, so the
gateway sends none; what the watchdog does with a module that never beats is in `Watchdog`.

## 4. Proofs

All theorems are checked by TLAPS for every value of the constants that the
modules' assumptions allow. An invariant is seldom inductive as it stands; what follows says what each
proof adds to it and why.

**The abstract pipeline** (`IntentPipeline_proofs`): `PipelineInvariant`,
`AtMostOneLiveAlways`, `DeadForGood`. "One live request per key" does not say that the claim
a process won is its own. `PipelineInv` adds that a process in
the phase "submitting" holds a claimed key, shares it with no other such
process, and that no request of it is live; and that every live key is claimed.

**The service over EMSX** (`EMSXExecution_proofs`) is proved in layers, each inductive
together with those before it:

| invariant | says | gives |
|---|---|---|
| `KeyInv` | what the venue has or may get is claimed, the bus thread in "submit" holds a claimed key that never left, and the buffers of mapped sequences are empty; it survives a crash because the claim is durable | `OneOrderPerKeyAlways`, `NothingStrandedAlways`, `Refinement` |
| `FillInv` | where the one copy of a fill may be: the buffers hold only their own sequence's events, the replay only what it took, the subscription thread only the last event; what a raise gives up (`lost`, `unstored`) it had in hand, of one order per raise | `EveryFillIsSomewhere` |
| `OrderlyInv` | with an orderly venue nothing is ever buffered, so the replay on the bus thread is empty and one thread writes the position | `StoredPositionIsCurrent` |
| `Typed` | types of what is counted, and that the map from sequences gives the key of the venue's order | |
| `BookInv` | before a crash, with an orderly venue, an order's last event tells what it has left; the working book *covers* it, with at least that many lots, and while nothing has raised it shows exactly what the last event dispatched told | `WorkingIsVenues` |
| `AccountInv` | the position and the fills lost to raises (`LostSum`) add up to the fills dispatched, and what the venue filled is the sum of the fills published | `PositionIsVenues` |
| `BudgetInv` | while only purchases have been claimed (`BuysOnly`), what is filled, open and on its way and the purchase in hand (`ToBuy`) stay within the last target and `LostSum` together; between the two reads of `on_target` nothing is open | `CommittedWithinTarget` |

`SpacedWithinTarget` speaks of the venue alone. `BudgetInv` must count what the venue does not
have yet: the purchase that the bus thread has decided on. The quantity moves from one part of
the sum to the next (in hand, on its way, open, filled), or falls out when the request or the
callback before it raises, or when the venue refuses or cancels. A new target comes when no order is open
and all fills are booked or lost, so that what is committed is the position and the lost fills
(`PositionIsVenues`); its delta fills the sum up to the target and no more. An order that a raise
left in the working book is netted with the delta: if it is a purchase, the service buys
less. If it were a sale, it would buy more than the position misses, which is why the theorem is
`Spec => [](BuysOnly => SpacedWithinTarget)`. That targets which never fall lead to purchases only
is left to TLC, which checks `SpacedWithinTarget` without that hypothesis.

`Refinement` (`Spec => ImplementsPipeline`) maps each step of the two threads, the venue and the crash to
a step of `IntentPipeline` or a stutter, for the watched keys; a key's count of live requests
is the venue's orders of it plus the one on its way.

**The service on paper** (`FeedAndPaper_proofs`): `PaperInvariant`, `LimitKept`,
`TargetIsReached`, `StoredPositionIsAccounted`. The check of the position limit leaves the
working orders out. It is enough because nothing works but the order in hand (`OneWorking`),
which leads from the position to its bar's target; this is lost neither in a crash nor
when a message comes again. A call that raises may leave an order in the book, and then the two
part: what still works can no longer fill, so that `PositionWithinLimit` stands on the position
alone, while `Aimed` says that position *and* working book lead to the target, whatever the
book has too much; with `raises = 0` there is nothing too much. The stored
position and the book's are sums over all but some of the fills, each stored (`dbFills`) or booked
and not stored (`unstored`): at most one per crash or raise, and one more between the insert and the upsert (`StoreInv`).

**The wired programs** (`AutoRoute_proofs`), in layers, each inductive with those before it,
from the assumptions that targets and prices are integers, `None` is none, and a session has a minute:

- `SwitchInvariant`, `TrippedStopsOrdersAlways`. That at most `past` orders leave after the
  trip says nothing of those about to leave. `Paid` counts both: the orders sent since the
  trip plus the handlers still past their checks are at most the handlers that were past them
  at the trip, and after it no handler gets past its checks.
- `BooksAgreeAlways`. `CallersInv` says which threads call back and when. `QuantityInv`: there is a
  path of positions that starts at the book plus what the callbacks in hand owe it, takes one step
  per fill on its way, and ends at the broker's; with no fill left the ends meet. `RowsInv`: between
  the book and the table the one caller carries a row that is the book's.
- `BreakMeansMissingFillAlways`. `AuditorInv`: what the reconciler read is the table's until a
  row is written over it, and `current` says that the statement was the broker's position; with the
  two before, a difference from it is a fill on its way or in hand. Of a break against no file or an old one
  nothing is said.
- `OneOrderPerBarAlways`, the longest. `BarsInv`: the two handlers never hold different bars, and no target was
  chosen for a later one. `ClaimInv`: one handler gets past the claim of a
  key, which is in the working book with its quantity from registration to submission.
  `LeavesInv`: an order's leaves count down along the fills on their way, from the working book's to EMSX's.
  `OrderInv` says where position and working orders *lead*, the fills that are in one of
  the two and not yet in the other set right: a decision leads from there to its target, only
  registration moves it, and after that the other handler of the bar finds a delta of zero or the key claimed. An order rejected for want of a mark
  leaves the working book; its key stays claimed.
- `ProfitIsMarkedCashAlways`. `Marked`: what is realized is the cash of the fills plus what is open at
  its average cost. A fraction in lowest terms is compared by cross-multiplication (`Is`); that
  `Frac` keeps the value, and is whole where the quotient is, follows from what the greatest
  common divisor is (`GcdIs`); each branch of `PnlFill` is then an identity of polynomials.

**The OMS.**

- `StreamDelivery_proofs`: `AtMostOncePerKeyAlways`. `Accounted`
  pays for every start of a handler with a key: the one that is set now or one
  that expired. `NothingDropped`: where nothing is replayed, the live task meets each
  entry once and in order, so the key of one it has yet to look at is not set, and what it
  acknowledges was handled; an entry that ends its batch, a refresh that ends the task and a reply
  that is lost leave the rest pending.
- `Watchdog_proofs`: `TypeCorrect`, `RestartBudgetAlways`. That a module was started
  `MaxRestarts * (1 + restored)` times at most says nothing of the attempts still open. `AttemptsPay` counts both: what
  was started is at most one whole budget per recovery plus the attempts in the
  entry, so a recovery that sets them to zero pays for them with its own budget.
  `OnlySilencedIsDownAlways`: the entry of a module that never stopped is no older than the heartbeats
  swallowed since it was last heard of, and one tick (`Unharmed`). So an entry past a timeout, and a
  check that is suspended over it, belong to a module that was silenced for as long; what the check
  does after its publish it still does if a heartbeat came meanwhile, which `silenced` remembers.
- `RiskGate_proofs`: `GateInvariant`, `KillSwitchHoldsAlways`. The tasks share the
  gate's flag, and one may overwrite what another has read. `Covered` follows an
  order instead: while its task waits for the probe the switch is still set, and
  when it checks, its own probe saw it. The flag plays no part, because a
  task sets it from its own reply in the step that reads it. `SpacedOrdersKeepLimit`: at most one order is neither
  decided nor reported, and when no report waits, the gate's position is off the true one by no more than it
  was at the start and not told (`Untold`); an order that keeps the limit from the one keeps it up to
  `Untold` from the other (`OffByUntold`).
  `SpikesAreAnnouncedOnce`: the alert on its way is a window later than the
  last one whose time was noted, and the last rejection of a full window is near an alert published or on its way.
- `OMS_proofs`, for three modules. The outbound buffer and the archiver: `DrainsInOrder`, `FileIsTruth`,
  `NothingAckedIsDropped`. A message awaits its `XADD`, is in the buffer or in the stream, once; what
  went through the buffer is in order in the stream, then on its way, then in the buffer.
  An entry that was read is in hand, in one of the archiver's buffers or in the file, once, or was given up.
  `Tearing`: an entry is glued to a torn end, and each torn end is of a write cut short. The rows of an insert
  that failed stay in the open transaction and count with the index, whose entries are all in the file or glued.
  The gateway: `IncrementsAddUpAlways`, `NothingIsReportedTwice`. `ReportedOnce` follows the one message of an
  order that shows all of it filled, from the venue to the task that reports it done. `InOrder`: when events come one message each,
  the quantities not seen yet ascend, in the order of the tasks and of the wire, from what the gateway
  knows to what the venue filled, and there is a path from what was counted, over what each task
  is about to publish, to what the gateway knows. A call that raises, before or after it took effect, ends
  its task, which takes it out of the order and leaves the rest ascending; the path then ends below what
  the gateway knows, hence nothing is counted twice and something may be missing.

**The market-data and the strategy service** (`FeedAndPaper_proofs`, second part):

- `BarsHandledInOrder`, `UnhandledStaysPending`. `DeliveryInv`: what is in hand is the end of
  what was read, without a gap; what was handled, in this life on Kafka and ever on Redis, lies
  before it, and the message that awaits its `XACK` is handled. A consumer that has yet to join
  has handled nothing in its life, so that going back to the last commit breaks nothing.
- `BarsAreReferenceAlways`. `BarsInv`: there is a function from the ticks heard to the latest bar
  any tick up to each has reached; the open bar is the last value of it, and each bar *holds* the
  ticks with its value: open and close are the first's and the last's price, high and low are some tick's
  and bound all, the volume is their sum. A tick of a later bar starts a set of its own, any
  other goes into the last one. Starts are multiples of the interval when the hour is, hence an interval apart.
- `LiveEqualsBacktest`. `LiveInv`: while nothing fails, both averages are the weighted sums of the
  closes worked through in this life, and the targets those of the replay so far. One close more
  multiplies every weight by `period - 1` and adds one (`WeightedStep`), which is what `EMA.update` does to the
  value. The weights are powers, as a recursive function; that there is one (`PowersExist`) and that two agree
  (`PowersUnique`) is shown from a smallest counterexample, like the laws of sums below.

Sums. Positions and quantities at the venue are sums over finite sets (`MapThenSumSet`, a
function defined by recursion over subsets). Their laws - that there is exactly one such function,
that a sum may lose or gain any element, that it depends only on the values summed - are
proved from a smallest counterexample (`Smallest`: among subsets of a finite set there
is one without smaller ones), since the induction theorems that take an operator cannot be
used. They stand in `EMSXExecution_proofs`, `FeedAndPaper_proofs` and `AutoRoute_proofs`, as
far as each needs them; these extend three specifications that have no common root with a proof module.

Model-checked only, and why:

- liveness (`FillsReachBook`, `EventuallyHandled`, `PelDrainsOfOneStream`, `DrainEnds`,
  `DeclaredDead`, `BudgetComesBack`, `EveryOrderDecided`): fairness and ENABLED are outside the prover's reach;
- `WithinTarget`, which the code violates, and `SpacedWithinTarget` without `BuysOnly`.

## 5. Not modelled

- `BarFeed`: messages on TICKS (the strategy service only stores them), more than
  one Kafka partition, rebalancing between consumers.
- `AutoRoute`: events of an order before `submit_order` mapped it (`EMSXExecution` has
  them), `arm` of the kill switch. The stale-data and notional checks are one
  verdict left to choice (`conduct.refuses`).
- EMSX: `cancel_order` and `modify_order` of the adapter, which the runner never calls; a venue that leaves
  out `EMSX_STATUS`, `EMSX_SEQUENCE` or `EMSX_WORKING`. The statuses of `OrderLifecycle` and
  `EMSXStateMachine`: nothing reads them.
- Strategy `warmup`, roll logic, order slicing and sizing: no caller in the
  wiring. The field layout of the codec.
- The backtest: one thread over historical bars, with no state the other
  models do not have.
- OMS: `Sentinel`, the PEL check of the watchdog, session events of the gateway,
  rotation of the archive by day, `replay` of the archive. In the gateway, a
  message whose `messageType()` raises: it is skipped, as if the venue had not sent it.
- What a broker's statement says of other accounts and instruments: it is one quantity, current, old or missing.
- Configuration, logging, metrics, reports, scripts, the providers and Bloomberg sessions
  (parsing and I/O).

Some hazards of `PROJECT.json` have no property: either the code has them and no document says
otherwise (an answer that never comes, a fill noted before the publish that fails, quantities
seen and lost in a restart, two approvals against one position report, the older position stored
last), or they are the venue's (fields left out) or the bus's (what Kafka skips, what Redis acknowledges
after a failure). The note of each says what the models have of it.

What is left of the plan, in the order of importance:

1. The refinement of an abstract specification by the OMS modules, as `EMSXPipeline` has it for the service over EMSX.
2. `BarFeed` composed with `ExecutionRunner`, in place of the free redelivery of the latter.
3. A venue that leaves fields out of its messages.
