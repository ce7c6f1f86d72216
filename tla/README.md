# KORStockScan: TLA+ models of the trading engine

KORStockScan is an unattended trading bot for Korean stocks. It talks to the
broker (Kiwoom) over REST and one WebSocket, keeps its targets in memory
(`ACTIVE_TARGETS`) and in PostgreSQL, and moves each target through
`WATCHING -> BUY_ORDERED -> HOLDING -> SELL_ORDERED -> COMPLETED`. Several
threads touch the same record, replies get lost, fills arrive late and the
database is written from everywhere. These modules model that control; they do
not model the trading decisions.

File names below are relative to `src/src/engine/` unless they say otherwise.

## 1. Inventory

### Components

| component | where | state | operations |
|---|---|---|---|
| Main loop | `kiwoom_sniper_v2.py` (`run_sniper`) | `ACTIVE_TARGETS`, timers of the loop | routes each target to the handler of its status, polls the database every 5 s, expires WATCHING targets (2 h, at most 40), starts the account sync every 90 s, prunes finished targets, reads `restart.flag` |
| Entry | `sniper_state_handlers.py` (`handle_watching_state`, `_submit_watching_triggered_entry`) | `status`, `odno`, `pending_entry_orders`, `entry_requested_qty` | sends the legs of a bundle one by one, stages each in memory, writes the row |
| Reconcile | same (`_reconcile_pending_entry_orders`, `handle_buy_ordered_state`, `process_order_cancellation`) | same | cancels the legs of a bundle that timed out, keeps what was filled or goes back to WATCHING |
| Exit | same (`handle_holding_state`, `handle_sell_ordered_state`, `process_sell_cancellation`) | `sell_odno`, `buy_qty`, row | cancels open entry legs, reads the quantity, locks row and memory, sells, times out |
| Receipts | `sniper_execution_receipts.py` | everything above | finds the target of an execution report, applies it, writes the row in a daemon thread |
| Terminal orders | `sniper_entry_state.py` | `TERMINAL_ENTRY_ORDERS` | keeps a resolved entry order for 180 s so that a late fill finds its target |
| Broker | outside; `kiwoom_orders.py` is the client | orders, shares | accepts, fills, cancels, reports |
| WebSocket | `kiwoom_websocket.py` | queue of order events, latest ticks | one dispatcher thread applies order events in order; ticks are coalesced per code; reconnects |
| Account sync | `sniper_sync.py` | rows and `ACTIVE_TARGETS` | compares the broker's holdings with rows and memory, repairs both |
| Scale-in | `execute_scale_in_order`, `_cancel_or_reconcile_pending_add` | `pending_add_*`, `scale_in_locked` | buys more of a held stock, cancels an add-buy that timed out |
| Preset take-profit | `_refresh_scalp_preset_exit_order`, `_dispatch_scalp_preset_exit` | `preset_tp_ord_no`, `sell_ord_no`, `exit_requested` | a limit SELL kept at the broker while holding |
| S15 fast track | `sniper_s15_fast_track.py` | its own state table | buys and sells in a thread of its own, claims reports by order number |
| Pause and restart | `trade_pause_control.py`, `buy_pause_guard.py`, `core/event_bus.py`, `bot_main.py` | flags in files and memory | stop entries, restart the engine |
| Panic detectors | `panic_sell_state_detector.py`, `panic_buying_state_detector.py` | mode, counters | market-wide mode machines |
| Threshold cycle | `threshold_cycle_preopen_apply.py` | approved settings | applies approved settings before the open |
| Error detectors | `error_detector*`, `bot_main.py` | alert states, cooldown | raise and clear alerts |
| Overnight gatekeeper | `sniper_overnight_gatekeeper.py` | decisions per position | sell or hold at the close |
| Condition search | `sniper_condition_handlers.py` | rows and `ACTIVE_TARGETS` | a search that finds a code reuses or creates a row and appends a target; one that drops it expires rows and replaces the list |
| Event bus | `core/event_bus.py` | callbacks per topic | runs them one by one in the publisher's thread |
| Scanners, AI, reports, web | `src/scanners`, `ai_engine*.py`, `src/model`, `src/web` | data | data and text; here they are triggers that may fire at any time |

### Interaction

* The main loop calls one handler at a time, so its own steps on a target are
  sequential. It takes `ENTRY_LOCK` for short pieces and releases it between
  them, in particular around every REST request except those of
  `_cancel_pending_entry_orders`.
* The WebSocket's dispatcher thread applies execution reports one by one, in
  order, each under `ENTRY_LOCK`. It and the main loop meet in the record
  `stock`.
* A receipt's row update runs in a new daemon thread: no order between two of
  them, nor between them and the main loop's own updates of the same row.
* `sniper_sync` runs in an executor of its own, under another lock.
* The event bus has no thread: an execution report is handled, and a
  condition event appends its target, in the dispatcher's thread; a subscription
  request becomes a coroutine of the WebSocket's loop.
* The S15 thread sees a report first when it carries a number the thread has
  stored; every other report goes the standard way.
* `ACTIVE_TARGETS` is shared by all of them and has no lock: the main loop and the
  dispatcher replace its contents, the dispatcher and the sync append.

### Hard behaviours and what makes each component correct

The complete list, with its lines, is `hazards` in `PROJECT.json`.

* Entry: a working order is known to memory, or its number was never received.
  Partly failed cancels neither forget a working leg nor count it as closed.
* Receipts: a fill delivered after its order was cancelled still finds the
  target; a status a receipt sets is not overwritten from a stale reading, and
  a receipt does not take the target out of a state it does not belong to.
* Exit: no entry order works behind it; the timeout cancels the exit order that
  was sent last; every working exit order is watched.
* Rows: a closed trade stays closed.
* Progress: no open leg, no BUY_ORDERED and no SELL_ORDERED target waits for
  ever.
* Account sync: a snapshot does not undo what happened after it was taken.
* Preset exits: one take-profit at a time, whatever is filled and cancelled in
  between; a target that sells leaves `SELL_ORDERED`.
* Scale-in: one add-buy at a time, counted once; neither it nor the lock that
  an uncertain cancel leaves blocks the position for ever.
* Fast track: a share is counted once, a failed exit keeps the track, a code is
  entered once, the thread ends.
* Target list: what is held is managed, what watches is listed, and no watch
  lasts for ever, although everybody replaces the list from a stale reading.
* WebSocket: the session comes back, an outage is followed by a sync, requests end,
  the last tick is published.

## 2. Modules

| module | what it is |
|---|---|
| `Broker` | the broker for one code: orders, free shares, the ordered queue of reports |
| `TradeLifecycle` | one target: main loop, dispatcher thread, row, daemon writers, on top of `Broker` |
| `LateFillWindow` | abstract: for how long an entry order's fill can be attributed |
| `TradeLifecycleRefinement` | the mapping under which `TradeLifecycle` implements `LateFillWindow` |
| `TradeLifecycleProofs` | theorems about `TradeLifecycle`, checked by TLAPS |
| `MCTradeLifecycle` | the module TLC runs |
| `PartialFillGuard` | the minimum fill ratio of a timed-out bundle, which the lifecycle leaves out |
| `AccountSync` | the three account syncs for one code, beside a summary of the trading side, the rows and the simulator |
| `AccountSyncProofs` | theorems about `AccountSync` |
| `MCAccountSync` | the module TLC runs |
| `PresetExit` | the take-profit order, the market exit that replaces it, receipts and rollbacks |
| `PresetExitProofs` | theorems about `PresetExit` |
| `ScaleIn` | add-buys, their cancel and lock, beside the exit, the sync and a restart |
| `ScaleInProofs` | theorems about `ScaleIn` |
| `FastTrack` | the S15 thread, conditions and reports, a restart |
| `FastTrackProofs` | theorems about `FastTrack` |
| `WsSession` | the WebSocket session: login, reconnection, subscriptions, ticks |
| `WsSessionProofs` | theorems about `WsSession` |
| `TargetList` | `ACTIVE_TARGETS` for one code: main loop, dispatcher, sync |
| `TargetListProofs` | theorems about `TargetList` |
| `WireFacts` | lemmas about the sequence of reports on the wire |

### `TradeLifecycle` and the code

State. `status`, `rec`, `bq`, `reqQty`, `entFilled`, `odno` and `sellOdno` are
the keys of `stock` they are named after (`id`, `buy_qty`,
`entry_requested_qty`, `entry_filled_qty`); an absent key is 0. `legSt` and
`legFill` are `pending_entry_orders`, `term` is `TERMINAL_ENTRY_ORDERS`.
`pc`, `want`, `left`, `sent`, `hand`, `sellQty`, `tid` and `dbJob` are the main
loop's position and local variables, `writers` the daemon threads not yet run.
`dbSt` and `dbQty` are the rows.

Steps. A step ends where the code releases the lock, calls the broker or writes
the row: between two of them the other thread may run. `_submit_...entry` is
`BeginEntry`, then per leg one of `SendLegAccepted; StageLeg`, `SendLegRefused`
or `SendLegUnheard`, then `FinishEntry; DbWrite` or `AbandonEntry`.
`_reconcile_pending_entry_orders` is `EntryTimeout` (with the whole cancel loop,
which holds `ENTRY_LOCK` for all its requests), then `ReconcileHold`, or
`ReconcileSeesNothing; ReconcileWatch; DbWrite`: buy_qty is read in one step and
the status set in another, as the code does. The exit of `handle_holding_state`
is `StartExit; ReadExitQty; LockForSale`, a reply, then `BindSell`, `SellShort`
or `SellFailed`. A receipt is a single step. Every access to the row may fail:
`DbWrite`, `LockForSale`, `ReadExitQty` and `RunWriter` then go on without it, as
the code does after logging the exception, and a SELL receipt is dropped
(`SellReportFails`). The cancel of the primary order (`PrimaryResolved`) takes three
answers for a full fill (`sniper_state_handlers.py:12178`, one word less than the
cancel of an exit at 12070 knows); any other answer changes nothing, and the next
loop asks again.

Nondeterminism. Whether a target triggers, whether a position is sold, whether a
timeout has passed, whether a sell receipt revives the target on a new row (a
scalping session before 15:30) or completes it, and what the broker does are all
left open. Timeouts are not measured: `EntryTimeout` and `SellTimedOut` may
happen whenever their state allows.

Left out. Prices (`buy_price` is set and cleared together with `buy_qty`, so
`bq > 0` stands for both), add-buys, preset take-profits, account sync and
restarts of the process. With `buy_qty > 0` the fallback that asks the broker's
inventory for the quantity of an exit is not reachable. The 20-minute
cooldown between two entries and the 3-minute life of terminal orders are not
compared (the cooldown applies to scalping only), so a new entry may begin with
terminal orders left, which is more than the code allows for scalping.

### `LateFillWindow`

`LateFillWindow` is the promise of the terminal table: an order whose number was
stored goes `known -> late -> gone` and is never forgotten straight from the
bundle while the target lives. `PhaseOf` maps the tables `_find_execution_target`
looks in to the phase. The two ways in which a fill may miss its target are
visible as phases: `unbound` (accepted, reply not yet stored) and `gone`
straight from `none` (reply lost); the promise does not cover them.

### `AccountSync` and the code

State. `rows` are the code's rows of `recommendation_history` (status, quantity,
of an earlier day or not), `real` and `sim` its targets in `ACTIVE_TARGETS`,
`book` the simulator's state file, `held`, `order` and `reports` the account.
`pc`, `kind`, `answered`, `snap` and `sess` are a sync's progress and locals:
which exchanges answered, the quantity they listed, and the ORM changes the
session will write at its commit (`autoflush=False`, `db_manager.py:48-52`).

Steps of a sync. `Query` is the balance request; the sync that gets no answer
returns, so it is no step. `CloseSold` and `CorrectQty` are the loop over rows
that should hold shares, `ConfirmBought` the one over BUY_ORDERED rows,
`Recover` is `_recover_missing_broker_holdings`, `Commit` and `Rollback` the end
of the session, `Rollback` at any point. The startup sync has no
`ConfirmBought` and compares HOLDING rows only, the reconnection sync has only
`ConfirmBought`. Between the steps the engine trades on: `sniper_sync` holds
another lock than the receipts and the handlers, and none during its queries.
Targets change at once, rows at the commit, over whatever was written meanwhile.

Trading side. `SendBuy`/`StageBuy` keep the two halves of an entry apart,
because a sync may run between them; `BuyUnheard` is an order whose answer was
lost, which no target knows. The other handlers are one step each, with
their row: what happens inside them is the subject of `TradeLifecycle`. `Poll` and
`Load` are `get_active_targets` (`LoadedTarget` is its filter and order),
`Expire` the age limit of the watch list, `Crash` a stop of `run_sniper`.

Left out. Prices, `_reconcile_scale_in_lock`, the token refresh, the fields that
record where a recovered position came from, and the swing probes. `SendBuy` waits for
the previous order's reports; `TradeLifecycle` is where they overlap. A
balance answer is complete here. In the code `fetch_kiwoom_api_continuous` returns
the pages it has when a later one fails, which `successful_exchanges` does not
show (`hazards`).

### `PresetExit` and the code

State. `tpNo` is `preset_tp_ord_no`, `requested` `exit_requested`, `sellOdno`
`sell_odno`; `rx`, `pc`, `orig` and `rem` are the program points and locals of
the dispatcher and the main loop. Orders whose reply was lost are in `unheard`.

Steps. `BuyReport` is an entry fill up to the cancel of the old take-profit,
`PlaceTp` the new one for the whole quantity: between the two the code has
released nothing but waits for replies. A market exit is `StartExit; CancelTp;
ReloadQty; SendExit; SetExit`; the exit's number goes to `sell_ord_no`, which nobody
reads, so `sellOdno` is filled by an order notice (`Notice`, matched through
`Bound`) or stays blank, and the timeout takes `RollbackUnbound` or `CancelSell`.
Prices and the reasons to exit are left open; one entry order at a time, bought
by partial fills, with no open legs behind it (that is `TradeLifecycle`).

### `ScaleIn` and the code

State. `pend` is `pending_add_*`, `locked` and `rowLocked` are `scale_in_locked`
in memory and row, `addCount` and `rowCount` `add_count`, `got` the reply of the
request that is not staged yet.

Steps. `SendAdd; StageAdd` keeps the window in which a fill finds no pending add;
`CancelAdd` ends in `ClearCancelled` or, when the broker says there is nothing to
cancel, in `ClearUncertain` with its lock; without a token it keeps the add and
locks (`CancelAddBlocked`). `AddReport` is a matched fill,
`AddReportAsEntry` one that `_find_execution_target` guesses, `ReportIgnored` the
rest. `ReadAccount` and `Compare` are the periodic sync of a HOLDING or SELL_ORDERED
row (`Compared`) as far as it lifts the lock, `Restart` forgets what lives in memory only. The exit and the next entry are
one step each. Left out: whether an add is wanted, its price and size, orders
that are protected by a trailing stop.

### `FastTrack` and the code

State. `fs` is `FAST_TRADE_STATE[code]`, `armed` and `armedRow` are the candidate
in `FAST_SCALP_POOL` and its row, `blocked` is `FAST_REENTRY_BLOCK`, `shadow` the
shadow row; `pc`, `real`, `rem`, `res` are the thread. A step ends where the
thread asks the broker or sleeps; storing a number is a step of its own, because
a report may come before it. A request is refused, unanswered, or accepted with a
number or a blank one (`Send`), and any step after the entry may raise (`Raise`: the
row is EXPIRED, the block is set and the track is kept or dropped as `finally` does). The six-hour block does not expire in the model, and
the account holds no other shares of the code: in the code the reload of an
exit's quantity would count those of a regular target too. Rejected alternatives
of the decision are one action, `Decline`.

### `WsSession` and the code

State. `link` and `up` are the connection and the server, `phase` the point
`_run_ws` has reached, `ready` `_session_ready`, `again` `is_reconnected`,
`recent` the five seconds for which a token counts as just refreshed,
`subscribed` and `served` the code in `subscribed_codes` and at the server, `waiting` the
`_send_reg` coroutines that wait for the session, `unsynced` the order feed's
outage, and `tick`, `pending`, `flag`, `taken` the coalescing of ticks. `listed`
says that the main loop has a target of the code. One code; registrations of other
feeds are part of the bootstrap. `LoginTimeout` is a login that is not answered, or
refused for another reason than the token: both end the session and try again three
seconds later. The ten seconds a registration waits may pass
at any time while the session is not ready.

### `TargetList` and the code

State. `list` is `ACTIVE_TARGETS`, `st` and `row` a target's status and id;
`polled`, `ids`, `copy`, `kept` are the main loop's locals, `retained` and
`drow` the dispatcher's, `srow` the sync's. Every read and the
assignment that uses it are two steps; a search looks at the list before it asks the
broker (`Match`) and again when it has chosen a row (`MatchChooses`). `Found` is the receipt's search for its target,
`Untracked` the sync's test for shares nobody knows.

Left out. A target buys one lot and its sale succeeds; the poll's check and append, and
a sync apart from its append, are one step; cooldowns may or may not hold.
Two targets of one identity are reachable (`MatchAppends` beside `PollAdds`):
nothing is claimed of what both of them do in the meantime, only that it ends.

## 3. Runs

| run | instance | shows |
|---|---|---|
| `core` | 3 orders, bundles of 2, 1 share each, 2 rows, lost replies | `TypeOK`, `ClosedLegIsDead`, `ExitClosesEntry`, `ExitKnowsItsOrder`, `PrimaryAlreadyResolved`, `NoWorkingOrderRetired`, and the refinement `AttributesLateFills` |
| `liveness` | 2 orders, 1 row, fairness | `LegsResolve`, `BuyOrderedEnds`, `SellOrderedEnds` |
| `sync` | a KRX code, 2 shares, 2 rows, 1 outside trade, failing queries and commits | `TypeOK`, `UpdatesAreTrue`, `SyncSettles` for the periodic and the reconnection sync |
| `sync_restart` | an NXT code, 1 share, 2 rows, 1 restart on the same or a later day, simulator | `SyncSettles` with the startup sync |
| `sync_liveness` | 1 share, 1 restart, fairness | `MissedSharesAreManaged`, `LostSaleIsFound` |
| `preset` | 3 orders, an entry of 2 shares, lost replies, fairness | `TypeOK`, `OneTakeProfit`, `SellOrderedEnds` |
| `scale_in` | 2 orders, adds of up to 2 shares, 1 fault (reply, commit, restart), fairness | `TypeOK`, `OneAdd`, `AddCountedOnce`, `PendingEnds`, `RowLockEnds` |
| `fast_track` | 3 orders, 2 shares, 1 fault (reply, row deletion, restart), fairness | `TypeOK`, `CountedOnce`, `FailedExitKeepsTrack`, `OneEntry`, `TrackEnds` |
| `ws` | 2 breaks, 1 expired token, 1 waiting request, fairness | `TypeOK`, `OutageAnnounced`, `TickWakes`, `SessionRecovers`, `OutageSynced`, `RequestsEnd`, `TickPublished` |
| `targets` | 3 targets, 3 rows, 2 condition events or failed row updates, 2 entries, fairness | `TypeOK`, `HeldIsManaged`, `WatchIsListed`, `WatchEnds` |
| `thin_fill`, `ws_lost` | the smallest instance that shows it | what the repository says and the code does not do, see section 5 |

Bounds. Three orders are the least with which a bundle of two and an exit, or an
entry, an exit and a second entry, are in play at once; a run with four orders
(15.2 million states) found nothing more. Partial fills need two shares to a
leg; what they could break, the accounting of the legs, is proved for every `LegQty` (section 4). Two rows are the least with
which a revived target meets a write for its old row. `MaxOrders` and `MaxRec`
stop the system at the bound, and a target that was pruned stops by design, so
`CHECK_DEADLOCK` is off.

In `AccountSync` two shares are the least with which a quantity can be wrong
without being zero, two rows the least with which a recovery meets an ended
row, and one restart brings the startup sync. Both liveness properties also pass with an
outside trade and, without the restart, with two shares. `sync` takes a code of
KRX only, because an answer of NXT alone does not list its shares; a code that
trades on both is listed by either, as `ReadFrom` says.

Three orders of `PresetExit` are an entry, a take-profit and an exit, and two of
them may be take-profits; two orders of `ScaleIn` an add-buy beside an exit or
beside a second add-buy. Three orders of `FastTrack` are an entry, a
take-profit and the stop's sale. One fault each is enough, since every property is
about what follows a single failure; a budget of two multiplies the states and
was only run without liveness. Two breaks of the link let the second fall into
the bootstrap of the first reconnection. Three records of `TargetList` are a
target in the list, its twin, and one that only a stale copy of the list holds;
three rows leave a new one to every search and recovery that asks for one.

Fairness (`FairSpec` of `TradeLifecycle`). The main loop runs for ever, so a handler that has begun
a call takes its next step (`WF` of the steps with `pc # "idle"`), and the
dispatcher thread drains its queue (`WF` of `Reports`). The loop calls the
timeout branches again on every turn, and a request that is repeated for ever is
answered at last (`SF` of `EntryTimeout` with every cancel confirmed, of
`CancelSell`, `CancelSellResolved` and `PrimaryResolved`): an outage may last
arbitrarily long, not for ever. For `PrimaryResolved` this takes it that the broker
names a dead order in one of the words of line 12178 at last; an order it would
for ever call filled (체결) in other words keeps the target in BUY_ORDERED. Nothing is assumed of fills, of new entries, of
the daemon writers or of the decision to sell.

Fairness (`FairSpec` of `AccountSync`). The loop submits the periodic sync every
90 s and the broker answers again and again (`SF` of the full `Query`; strong
because the reconnection's sync shares `pc` with it in the model). A sync that
began goes on (`WF` of its steps; a commit succeeds), and each round of the loop
polls, prunes, comes back from sending an order and loads after a stop. A scalping
target expires after two hours of watching, orders that came to nothing in between or
not (`SF` of `Expire`). A target the loop watches without end would keep its place
and, with it, a row that a late commit reopened out of `Poll`'s reach, hence `Expire`:
targets with a VCP tag and those of other strategies have no such limit, and for them
`MissedSharesAreManaged` and `LostSaleIsFound` are not claimed.
Nothing is assumed of fills, reports, timeouts or sales.

Fairness of the new modules. In `PresetExit` the main loop goes on and cancels of
a timed-out exit are answered at last, as in `TradeLifecycle`. In `ScaleIn` the
main loop finishes what it began, asks about a pending add on each round
(`SF` of `GiveUp`: the answer that settles it comes at last), the dispatcher
drains its queue and the sync runs every 90 s. In `FastTrack` the thread and the
dispatcher go on, nothing is assumed of fills, of the stop, of conditions. In
`WsSession` `_run_ws` is an endless loop with a back-off, and its tasks and the
dispatcher thread go on; the server's breaks are bounded and the properties
speak of a server that stays up. In `TargetList` the three threads go on, a
watch that lasts is too old some time (`SF` of `ExpiryPicks` with all watches), an
order that is not filled times out some time.

## 4. Proofs

The theorems of `TradeLifecycleProofs` hold for every value of `MaxOrders`,
`MaxLegs`, `LegQty`, `MaxRec` and `LostReplies` that satisfies
`MaxOrdersAssumption` and `LifecycleAssumption` (positive bounds, a Boolean).

| theorem | states |
|---|---|
| `TypeCorrect` | `Spec => []TypeOK` |
| `ClosedLegsAreDead` | `Spec => []ClosedLegIsDead` |
| `ExitsCloseEntries` | `Spec => []ExitClosesEntry` |
| `ExitsKnowTheirOrder` | `Spec => []ExitKnowsItsOrder` |
| `PrimariesAreResolved` | `Spec => []PrimaryAlreadyResolved` |
| `NoWorkingOrderIsRetired` | `Spec => NoWorkingOrderRetired` |
| `LateFillsAreAttributed` | `Spec => AttributesLateFills`, that is, `TradeLifecycle` implements `LateFillWindow` |
| `OrdersAreGivenUpForGood` | `Spec => [][GivenUpForGood]_vars`: an order that left the tables is never bound again, and one of the bundle leaves them only after the grace period or with the whole target |

None of the safety properties is inductive. The invariant `IInv` adds three
things.

* `Ledger` (`BooksOK`, `WireOK`): `legFill`, what memory counted for a leg, plus
  every report of that order still on the wire, is at most what the broker
  filled; reports of one order are on the wire in the order of the fills. This is
  why a leg counted full is full, and the reason for the history field `upTo` of a
  report, which no guard reads.
* `TablesOK`: bundle, terminal table and `successful_orders` name accepted BUY
  orders only, and the number in hand is in none of them.
* `BundleOK`, `ExitOK`: at which program points of the main loop a bundle may
  exist, what the submitting thread knows of it, and that a SELL_ORDERED target
  is always somewhere between sending its exit and the exit's end.

The step lemmas have one case for each action. `LedgerQuiet`, `LedgerAccept`,
`LedgerFill` and `LedgerReceive` say what the four kinds of broker step do to the
ledger, `CancelEffect` and `FillEffect` what cancelling and filling do to the
tables; the invariant, the action property and the refinement all use them.
`OrdersAreGivenUpForGood` is a property of `LateFillWindow` (`WindowForgets`) that the
refinement carries over: nothing of the engine is looked at again.

`AccountSyncProofs` is about `AccountSync`, for every value of its constants that
satisfies `SyncAssumption`.

| theorem | states |
|---|---|
| `SyncTypeCorrect` | `Spec => []TypeOK` |
| `SyncUpdatesAreTrue` | `Spec => []UpdatesAreTrue` |
| `SyncsSettle` | `Spec => SyncSettles` |

The inductive invariant `SyncInv` adds to both: `ExitCovered`, a working exit is
for shares the account has (without it a fill could make `held` negative),
`Between`, the session is clean between two syncs, and
`SnapOK`, the quantity that was read is what was held, or zero when the exchange
that lists the code did not answer. The last is what `UpdatesAreTrue` needs:
zero closes a row only if that exchange is among those that answered.

`SyncsSettle` needs to know what a sync has reached at each of its steps, which is
`Settling`: while nothing disturbs it the account holds what it held; once the
sold rows are closed, the rows as the commit will write them (`Updated`) agree with
the balance (`WillAgree`); and before the commit somebody tracks its shares
(`WillTrack`). Any step of the trading side clears `quiet`, and a failed query or
commit forgets the session, so those cases are two lemmas; the others are one lemma
for each step of the sync, over `PendUpdates`, what a change to the session means
for the row it will become.

`PresetExitProofs` is about `PresetExit`, under `PresetAssumption`.

| theorem | states |
|---|---|
| `PresetTypeCorrect` | `Spec => []TypeOK` |
| `TakeProfitIsOne` | `Spec => []OneTakeProfit` |
| `CancelsHitSells` | `Spec => []Numbers`: the numbers that cancels are sent for are a take-profit's (`preset_tp_ord_no` and its copy in an exit) or a SELL order's (`sell_odno`) |

The invariant `PInv` adds that numbers not handed out name no order (`Fresh`), that
`preset_tp_ord_no` was handed out (`Known`), and `Placing`: while the dispatcher
places a take-profit the old one is dead. Each step either starts no order
(`NoNewOrder`), starts one that is no take-profit (`OtherOrder`), or is `PlaceTp`.
`CancelsHitSells` needs `Noticed` beside it: a notice, from which the receipt may
take a number it was never told, is of a SELL order.

`FastTrackProofs` is about `FastTrack`, under `FastTrackAssumption`.

| theorem | states |
|---|---|
| `FastTrackTypeCorrect` | `Spec => []TypeOK` |
| `FillsAreCountedOnce` | `Spec => []CountedOnce` |
| `FailedExitsKeepTheTrack` | `Spec => FailedExitKeepsTrack` |
| `CodesAreEnteredOnce` | `Spec => OneEntry` |
| `TracksKeepToTheirOrders` | `Spec => []OwnNumbers`: the numbers a track counts reports by and cancels are of its own orders, each of the kind it is meant for |

The invariant `FInv` adds a ledger (`Ledger`, `Counted`: the track counted what was
filled before any fill still on the wire), `Binding` (the number a thread is about to
store was handed out to this process), `Selling` (what is to be sold was counted, and
the watch ends only when as much is sold) and `Blocking`: whoever sent a
sale is on its way to the re-entry block or has set it. The history field `upTo` of a
report, the shares of its order filled by then, is read by no guard.
`OwnNumbers` is inductive together with `Answered`, which says the same of the number
that a request returned and the thread has not stored yet.

`ScaleInProofs` is about `ScaleIn`, under `ScaleInAssumption`.

| theorem | states |
|---|---|
| `ScaleInTypeCorrect` | `Spec => []TypeOK` |
| `OneAddWorks` | `Spec => []OneAdd` |
| `AddsAreCountedOnce` | `Spec => []AddCountedOnce` |
| `AddNumbersAreAdds` | `Spec => []AddNumbers`: the number of the pending add, which its cancel is sent for, and every number counted as added are an add-buy's |

`OneAdd` is not inductive: a report that fills `pending_add_qty` clears the add, and
nothing in the record says that the order is then done at the broker. `SInv` adds it
(`Working`, `Ledger`, `Pending`): what memory counted, the fills on the wire and what
is left to fill come to the ordered quantity at most (`Shares`), so the report that
completes the count leaves nothing to fill, and an order with nothing to fill does not
work. The history field `left` of a report, what the order had left by then, is read
by no guard. `Counting` adds that an add not counted yet is none of those counted.
`AddNumbers` rests on `NoKind`: a number that was not handed out yet is of no kind.

`WsSessionProofs` proves `WsTypeCorrect`, `Spec => []TypeOK` of `WsSession`. The bound of
the queue of WS_RECONNECTED events is the part that is not obvious: a session may log in any
number of times between two breaks. `Due` counts the announcement that is still to
come, and `events + Due <= breaks` is inductive. `OutagesAreAnnounced` is
`Spec => []OutageAnnounced`, the safety part of `OutageSynced`: the disjunct for a link
that is on its way up is preserved because a session that got as far as the order feed
has set `is_reconnected` for the next one (`Owed`), so a break in the middle of a
bootstrap owes its announcement too. `TicksWakeTheDispatcher`, `Spec => []TickWakes`, is
the safety part of `TickPublished`; it needs no strengthening: whoever stores a tick is
about to set the event, and the dispatcher takes what is pending and clears the event
under one lock.
`LostCodesStayLost`, `Spec => [][StaysLost]_vars`, is the general form of what `ws_lost`
finds: the bootstrap's own registration changes nothing, because it ends before the
session is ready, and a code that is subscribed and not served, with no request under way,
stays so until the pruning drops it. It needs `ServedWhenReady`: before the session is
ready the server sends no code.

`TargetListProofs` proves
`TargetsTypeCorrect`, `Spec => []TypeOK` of `TargetList`: that a listed target has a row
needs the same of the lists that were read and not assigned yet (`kept`, `retained`),
and the bound of the account that lots and working orders together were sent.

`WireFacts` has the facts about sequences of reports that three of the proofs share.

Every invariant and every action property of the runs is proved. Only
model-checked: the liveness properties (no backend handles fairness or ENABLED), and
the counterexamples of section 5. `TargetList` has liveness properties only beside its
types: what could be said of a single state of its lists is not so, see below.

## 5. Where the code and its documents disagree

* `thin_fill`: the minimum fill ratio is computed from keys the cancel has just
  popped, so it is always one. The test that covers the branch replaces the
  cancel by a stub.
* `ws_lost`: after a reconnection the codes that were subscribed are registered by a
  coroutine that waits for the session whose bootstrap it is part of; it gives up
  after ten seconds and nothing is sent. The codes stay in `subscribed_codes`, so
  later requests for them are dropped, and a code that stays listed gets no ticks
  until it is pruned and listed again.

### Observed, and not stated as properties

The models reach these states; no document says more about them than that the
account sync repairs what was missed, which `MissedSharesAreManaged` and
`LostSaleIsFound` state.

* `_reconcile_pending_entry_orders` reads `buy_qty`, then sets WATCHING, pops the
  order's keys (`buy_qty` stays) and writes the row with quantity 0. A fill that the receipt thread applies in between, through the
  terminal table that exists for this purpose, is overwritten: the target watches
  for a new entry and its shares have no exit.
* An exit is partly filled, the timeout cancels the rest, and the receipt (which
  treats any fill as the whole sale) revives the target on a new row before the
  rollback: the new row is HOLDING with no shares.
* An entry fill that arrives while an exit works sets HOLDING; the exit's timeout
  no longer runs and its receipt matches nothing.
* The periodic sync reads the balance, then the rows. A position bought and
  reported in between is missing from the first and HOLDING in the second, so row
  and target are completed as sold, and its shares are recovered by a later sync at
  best.
* The sync gives a target the shares of a fill whose report is still under way; the
  report adds them again. The sync's commit puts the row right, later syncs compare
  the row only, and memory keeps the double quantity until an exit is refused.
* A BUY_ORDERED or SELL_ORDERED row of an earlier day counts as tracking the code in
  the recovery (`sniper_sync.py:337`), but is not loaded as a target.
* `PresetExit`: `exit_requested` is reset by an entry fill only, so after a
  rollback no second market exit is sent; a fill of the take-profit, even a partial one, is taken
  for the whole sale; the take-profit of a revived target may go on working while it watches, and
  a target may be COMPLETED with shares held; two market exits may work at once.
* `ScaleIn`: `scale_in_locked` survives a revival in memory while its new row is
  unlocked, so no sync lifts it; a fill after a confirmed cancel is ignored; an add fill sets
  HOLDING over SELL_ORDERED, WATCHING or COMPLETED; one reported before the
  staging, or of an add without a number, is taken for an entry fill; the exit does not
  cancel a pending add.
* `FastTrack`: a failed or refused decision leaves its entry in `FAST_TRADE_STATE`,
  which blocks the code's fast track until the restart; an accepted entry without a
  number is a track that counts no report; `CancelAll` gives the track
  up whatever the broker answers, and fills of that order go the standard way; the
  emergency order's number is overwritten by the refused take-profit's blank one; the
  rest of an IOC order is left when the row becomes COMPLETED; after a restart the
  armed candidate is restored, the re-entry block is not.
* `WsSession`: a request made while the session is down for more than ten seconds
  is lost without a retry; a tick that is handled after the unsubscription puts the code's data
  back; the REST modules keep their own token when the WebSocket's was refreshed;
  WS_RECONNECTED is announced before the order feed is registered, so the sync it starts
  may read the account first, and a fill in between is left to the periodic sync.
* `TargetList`: two targets of one identity (`sniper_condition_handlers.py:687`
  checks and appends in two steps, and so does the poll) can both buy; the expiry of one also expires
  the other, by row id.

The 90-second account sync exists to repair such states; `TradeLifecycle` says
that they arise, `AccountSync` which of them a sync repairs.
`MissedSharesAreManaged` needs `~Overnight` and `~SimBook`: an old order row, and
an open simulated position of the same code, count as tracking the shares.

Also observed: the daemon thread of a BUY receipt that
runs after the sell receipt closed the row sets HOLDING on it (`RunWriter`), and
the next account sync closes it again; a fill between the reply and the staging
of its number is ignored (`EXEC_IGNORED`); a bundle that completes while its last
legs are being sent is staged as BUY_ORDERED again, and `PrimaryResolved` takes it
out; the test for a full bundle compares the position's quantity, not the
bundle's, with what the bundle asked for, so a position carried over can retire
a leg that still works (the exception in `NoWorkingOrderRetired`).

## 6. Not modelled, and the plan

The repository is 117 thousand lines of implementation, most of them reports,
audits, dashboards, prompts and trained models: functions of data without state
of their own, in which a model checker has nothing to explore. The
decision rules (entry, exit, scale-in, gatekeeper, panic modes) read prices and
indicators; here they are triggers that may fire whenever the code around them
allows it, so what is checked holds whatever they decide. `components` in
`PROJECT.json` lists every part with the reason.

What could still be modelled, in the order of its value:

1. `AccountSync`: incomplete pages of a balance answer and its discarded retry.
2. `FastTrack` beside a regular target of the same code in one account, where the
   reload of an exit's quantity counts the other's shares.
3. The simulator's positions through their own entry and exit.
4. Smaller sequential machines: panic modes, alert cooldown, the pre-open apply gate.
