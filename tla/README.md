# investring in TLA+

A verification development of the portfolio accounting back end
(`src/backend`): TLA+ modules of its bookkeeping, TLC configurations that check
them on small instances, and proofs for TLAPS.

## The system

investring keeps the books of investment portfolios. Investors subscribe to and
redeem shares of a portfolio; the portfolio holds funds and cash; every trading
day a *snapshot* fixes the positions, the unit price and the investors' shares.
Subscriptions are priced by the snapshot of the day they were applied for and
take effect on the next trading day. Everything else (quantities available,
later prices, later snapshots) starts from the latest snapshot.

The back end is a FastAPI application with two worker processes over one MySQL
database. Each request is one database transaction; a thread pool runs
background jobs, APScheduler runs the daily tasks.

| component | state | operations | hard behaviour | what makes it correct |
|---|---|---|---|---|
| `subscription_service` | `subscription`, its CASH leg in `trade`, `portfolio.status`, `started_at` | create, update, cancel, delete, confirm, unconfirm | order of confirmations, first-window price, cascades | one leg per confirmation; `started_at` is the first arrival; price of the stored snapshot |
| `snapshot_service` | `portfolio_position`, `portfolio_value_snapshot`, `investor_holding` | generate, catch up, next day, recalculate, delete (one, bulk) | long transactions of many steps, rollback, cascades, automatic confirmation | each confirmation booked once; chain without gaps; recalculation loses nothing |
| `position_service` | none (queries) and `manual_market_value` | available cash and shares, manual cash | baselines of different age | never more than the ledger gives |
| `trade_service` | `trade` rows in rebalancing groups | create, update, confirm, unconfirm, cancel, delete | paired legs, days already consumed by a snapshot | group consistent, consumed legs frozen |
| `cash_transfer_service` | two CASH legs | create, confirm, cancel | cross-day arrival, cancel against confirm | money conserved over platforms |
| `share_change_event_service`, `reinvest_receivable` | `share_change_event` | create, update, confirm, unconfirm, cancel, delete | fund-level events expand to children; several effective dates | parents and children agree; a receivable is counted until it is paid |
| `snapshot_recalc_job`, jobs of `market_data_service` and `task_runner` | `sync_job`, `task_execution_log`, thread pools | submit, run, recover orphans | count-then-insert, two processes, restart | at most one active job per type; no job stuck; a report is true |
| price side of `market_data_service`, data source clients | `price_record`, `sync_job` counters | nightly run, price jobs, coverage and return queries | prices published late and revised, overlapping runs, products that disappear | nothing published is missed, nothing stored is lost, changes and values agree |
| `task_runner`, `scheduler_service` | `task_execution_log`, MySQL named locks, persistent job store | daily tasks, retry, cascade, recheck | locks on pooled connections, retries racing the daily run | one run at a time; the day's snapshot is eventually attempted |
| `db_retry` | none | bounded retry | gap-lock deadlock | all or nothing |
| `portfolio_service` | `portfolio` | create, update, close, reactivate, delete | status against cascades | no history deleted |
| `auth_service` | `auth_session`, `api_key` | create, renew, revoke | renewal racing revocation | revoked stays revoked |
| read side (`cash_flow_service`, `cumulative_profit_service`, profits of `position_service`, lists) | none | statement, balances, profits, pages | the same fact computed along several ways | the ways agree |
| front end, CLI, scripts, reference data | none or external | queries, I/O | none beyond the tables they read | not modelled |

How they interact: routers open the transaction and call services; the snapshot
service calls back into the subscription service (cascade and automatic
confirmation), into cash transfers and into events; the task runner and the
recalculation job call the snapshot service from background threads; all
coordination is by the database.

The hazards of this code, each at its line and with the properties that would
catch it, are listed in `PROJECT.json`.

## Modules

| module | contents |
|---|---|
| `SubscriptionLedger` | subscriptions, cash legs, portfolio status and the snapshot chain of one portfolio; all properties of the share side |
| `MCSubscriptionLedger` | symmetry for TLC |
| `Sums` | facts about sums and products over finite sets, for the proofs |
| `SubscriptionLedgerProofs` | the inductive invariants of tables, chain, books and rebuilds, and the theorems |
| `Chain` | the calendar and the chain of snapshot days as `TradeBook` and `EventBook` extend it |
| `ChainProofs` | what its operators preserve |
| `TradeBook` | rebalancing trades, cash transfers and the fund, CASH and in-transit rows the snapshots add up from them |
| `TradeViews` | the cash statement, profits and the paged list, computed over a `TradeBook` |
| `MCTradeBook` | an opening for TLC, and transfers through their own endpoints only |
| `TradeBookProofs` | the inductive invariants of groups, chain and books, and the theorems on book and views |
| `EventBook` | dividends, splits and adjustments of a fund and the way snapshots carry them |
| `EventViews` | the profits the read side reports over an `EventBook` |
| `MCEventBook` | an opening for TLC |
| `EventBookProofs` | the inductive invariants of events and books, and the theorems on book and views |
| `OneShot` | the abstract specification: what a client of the background jobs may rely on |
| `JobRunner` | submission, queue, execution, failure, crash and recovery of background jobs in several worker processes |
| `MCJobRunner` | two submissions on two workers |
| `JobRunnerProofs` | the inductive invariant, the theorems and the refinement of `OneShot` |
| `PriceSync` | the nightly price run and price jobs over a source that publishes late and revises |
| `MCPriceSync` | a calendar and the jobs that may be asked for |
| `PriceSyncProofs` | the inductive invariants of reports, types, changes and windows, and the theorems |
| `Scheduler` | one business day of `scheduler_service` in several worker processes: jobs, gates, named locks on pooled connections, retries, cascade, rechecks |
| `MCScheduler` | symmetry for TLC |
| `SchedulerProofs` | the inductive invariant and the theorems |

How they fit together. The three books (`SubscriptionLedger`, `TradeBook`,
`EventBook`) are the same snapshot chain seen from three tables: shares and unit
price, fund and cash positions of trades, positions of events. `_generate_*` adds
the contributions up, so a step of one leaves the others' tables alone, and they
are checked apart; `Chain` is what the asset books share. `TradeViews` and
`EventViews` extend their book: the read side keeps no state, it computes the
same facts along other ways. `JobRunner` decides when a recalculation or a price
job runs and what its row says, the books and `PriceSync` what it does.
`Scheduler` decides when the daily tasks run: its `SnapRun` is a sequence of
`advance` and `confirm` transactions of the books, its `NavRun` a nightly run of
`PriceSync`.

### SubscriptionLedger and the code

State. `subs`, `legs` and `snap` are tables: functions whose domain is the set
of existing rows. `legs[s]` is the CASH row of `trade` with `transfer_group =
sub_{s}`. `snap[d]` joins the rows of day *d* in the three snapshot tables:
unit price (`nav`), `total_shares`, the CASH position, and the holding rows
(`held`, 0 where the code writes no row). `booked` is a history variable: what
each subscription contributed to `total_shares` through the window sums. `tx` is
the snapshot transaction in progress and `saved` the committed database a
rollback restores; the other variables show what the transaction itself sees.

Actions. Each request of `subscription_service` is one action, guard and writes
from the function its map entry names. A request that writes snapshots is a
sequence of actions over `tx.phase`, because its steps read what the earlier
ones wrote:

    precheck -> checks -> before -> build -> after -> commit
                (CheckDay) (AutoConfirm*, ValidateAndClear) (Build*) (AutoConfirm*)

* generate: one day from `checks`, no confirmation afterwards (`routers/snapshots.py`).
* advance: catch-up, "next day" and one day of the scheduled task, which commit
  day by day; each day is one transaction.
* recalc: from `precheck`, every calendar day from start to the latest snapshot,
  one transaction; `RecalcClearDay` is its own deletion before the generation.
* confirm: the scheduled task with no day to generate.
* `Rollback` stands for every error: a failed check, a missing price, negative
  cash, an exhausted deadlock retry, a broken session.

`ClearDay` is `_delete_existing_snapshots` with the cascade in it. `AutoConfirm`
and `AutoConfirmRefused` are one iteration of the automatic confirmation in its
savepoint. The bulk deletion commits after each day, latest first, so it is a
repetition of `DeleteSnapshot`.

Abstractions. Days are 1..LastDay with a subset of trading days; a query for the
next trading day past the end of the calendar refuses the request. Money is
whole cents rounded half up; `Scale` stands for the 10000 of a four-decimal unit
price, so prices are few but roundings real. The market is the choice of `nav`
in `BuildNext`: the value of fund positions, and with it the unit price, may be
any element of `Navs`. Platforms, audit rows, notes and messages are left out.
A portfolio that an administrator closes is left out (planned). Requests do not
interleave with an open snapshot transaction; that is a separate module of the
plan, because nothing in the code orders them. Trades and events are not part of
this book: `TradeBook` and `EventBook` have them.

Two constants say how disciplined the users are. `DeleteAnyDay`: the single-day
DELETE endpoint and `ir snapshot delete` accept any day, while the interface
(`SnapshotsContent.tsx:536`) offers the button for the latest one and the bulk
deletion works from the latest back. `RecalcAnyStart`: the recalculation accepts
any start, while it is meant to start in the chain or, without snapshots, at the
earliest confirmed arrival (the message of `SNAPSHOT_REQUIRES_RECALCULATE`).

### Scheduler and the code

State. `due[j]` is the shared job store: the processes that may still fire job
*j* (a cron job of the day, retry *n* or recheck *n*). A process that read the
store before another one updated it fires the job too, so `Fire` leaves any
subset of the others. `pc[t]` is the place of a scheduler thread in its trigger
function, `task[t]` its job, `conn[t]` the connection its session has checked
out. `owner` and `depth` are MySQL's named locks: `GET_LOCK` succeeds for the
connection that already holds the lock and counts, `RELEASE_LOCK` acts only on
that connection. `log` counts the successful `snapshot_generate` records of the
day by trigger. `owed` (new prices whose cascade is not settled) and `restarts`
are history variables.

Actions. A session keeps a connection from its first statement to the next
commit, and `run_task` commits before, during and after a task. So an action is
what a thread does between two commits:

    NavGate -> NavRun -> CascadeCheck -> CascadeLock -> SnapRun -> SnapRelease -> NavRelease
    SnapGate -> SnapCheck -> SnapRun -> SnapRelease

`CascadeCheck` and `CascadeLock` are two actions although they use one
connection, because another process may commit between the query and the lock;
the scheduled run queries after it has the lock (`SnapCheck`). A recheck enters
at `CascadeCheck`. A refused gate leaves the locks alone: its release runs on the
connection of its own `GET_LOCK`.

Abstractions. Time is left out: a due job fires at any later moment, so the
07:30 run may come before, during or after the price synchronisation. Outcomes
of the tasks are choices. Other users of the connection pool only decide which
connection is idle, which `Usable` leaves open. `Recycle` closes an idle
connection that holds a lock (`pool_recycle`, `pool_pre_ping`), under a running
task too: a connection older than an hour is replaced at its next checkout, MySQL
frees its locks, and another process may enter the section. The history variable
`severed` names the locks so lost, until nobody is in the section any more; the
two properties of exclusion are stated over it, with no restriction on when a
connection is replaced. The change of the business day inside a window of rechecks
is left out; the module docstring discusses it.

### TradeBook, TradeViews and the code

State. `legs` is the part of table `trade` that belongs to rebalancings and
transfers: group and role to row, where the role tells fund leg, paying CASH leg
and receiving CASH leg apart (`transfer_group`, `product_id`, `trade_type`).
`snap[d]` joins the position rows of a day: cash and shares of each platform and
what is in transit. `lost` and `dropped` in a row are history: what the build of
the day left out, and shares that fell below zero, which the code drops
(`snapshot_service.py:1463`). `saved` is what a rollback of a recalculation
restores.

Actions. One per endpoint of `trade_service` and `cash_transfer_service`, with
the platform's available cash or shares, the group and date guards, and every
leg the handler rewrites; `ConfirmSell` creates the credit leg, `UpdateArrival`
moves it. The trade endpoints also accept legs of a transfer; those are
`ConfirmTransferLeg`, `UnconfirmTransferLeg`, `CancelTransferLeg` and
`DeleteTransferLeg`. A snapshot day is `Build`, from `Generate`, `Advance` (which
confirms arrivals as well), `RecalcDay`; `ConfirmOnly` is the scheduled task with
no day to generate. `DeleteDay` deletes any one day of the chain
(`routers/snapshots.py:394`) and leaves later days in place; the bulk deletion
repeats it from the latest day back. A recalculation starts at any day up to the
end of the chain, stored or missing. It is one transaction, a step per day, and may
end in `Rollback` at any step.

`TradeViews` translates the queries of `cash_flow_service`, `position_service`,
`cumulative_profit_service` and `list_trades` as operators, each along its own
way: balances from snapshots and windows, rows from legs, pairs from groups,
profits from differences of snapshots and from sums of legs. The pages of the list
of trades come from two queries, as in the code: rows sorted by the anchor of their
group, and the sizes of groups in the same order, which `WalkGroupPages` folds into
offsets and limits without looking at rows. Names of groups sort in an arbitrary
fixed order.

Abstractions. One OTC fund traded at par without fees, so that a quantity is
cash and shares at once and no step may change the value of the portfolio: the
price is abstracted, the conservation is not. Fees, decimals, names and notes
are left out. Day 0 is a settled snapshot.

### EventBook, EventViews and the code

State. `events` is table `share_change_event`: `<<e, "self">>` is an event,
`<<e, p>>` the child a fund-level split has on platform *p*. `base` is
`entitlement_shares`. `snap[d]` has the positions and, for each event, what is in
transit. `dropped` and `stale` are history: shares below zero, and whether an
event the day had counted, or the day it was entitled on, was deleted since.

Actions. Create, detect, update, confirm (as it is or with the choice of an
announced dividend), cancel, unconfirm, delete; `Build` with the cascade that
withdraws what is entitled on the rebuilt day (`Withdrawn(EntitledOn(d))`) and
the automatic confirmation (`AutoConfirmed`); the same chain actions as above.
`DeleteDay` withdraws the events entitled on the day, wherever in the chain it
lies: days after it keep what they had counted of them (`CountsOn`), and the events
wait, pending, until a recalculation has built the day again.
`InTransit` is `reinvest_receivable` with its three kinds of rows.

`EventViews` translates the profit queries: daily by differences, cumulative by
sums, receivables by status and date.

Abstractions. One fund on several platforms at a fixed price, a split of 2 for
1, adjustments of whole shares. Shares that trades bring or take are the constant
`Flow`. `Kinds` lists the types requests may carry.

### JobRunner, OneShot and the code

State. `row` is the status column of `sync_job` or `task_execution_log`, by the
`kind` of the submission: price jobs and recalculations share the first table.
`pc` is where the request, then the thread stands; `queue[p]` is the work queue of
process *p*'s pool; `boot[p]` is where the start-up of a process is: it recovers
orphans three times (`recover_orphan_jobs`, `recover_orphan_task_executions`, and
the first again from `init_scheduler`), each a read and a write. `effect` says
that a recalculation was committed. `raced`, `disowned` and `lost` are history.

Actions. `Count` and `Insert` are the two statements of a submission; then `Enqueue`,
`EnqueueFails` (the pool refuses the job and the row is written `failed`) or `Strand`:
reading the row back fails, or the commit of that `failed` does
(`market_data_service.py:933`, `945`), and a row stays that nobody executes. `Take`, `Start`, `Work`, `Settle` are the executor's
transactions; `Fault` is a failing write of any of them, after which a
recalculation rolls back and writes `failed` in `Rescue`, while the others commit
a broken session and leave the row (`market_data_service.py:1126`). `Crash` ends
everything a process was doing and starts its recovery. What a process recovers
is not restricted to its own rows, as in the code.

`OneShot` is the promise: a submission is open until it ends, takes effect at
most once and only while open. `OneShotRefined` maps `pc` to its phases.

Abstractions. What `Work` does to the database is its verdict, and for a
recalculation whether it was committed; the rest is in the books and in
`PriceSync`. A restart creates no new submissions beyond `Jobs`.

### PriceSync and the code

State. `source[p][d]` is what the data source shows of a day now, `record[p][d]`
the row of `price_record`: whether it is stored, its accumulated value and its
derived change, kept as the quotient it is computed from. `run` is the nightly
run and one job, each product by product: `view` is the snapshot of the database
the transaction of the current product reads from (InnoDB's repeatable read),
while its upsert meets the rows of the moment. `seen` is the answer of the source
the run holds meanwhile, `got` how much of it has come, `degraded` that the
accumulated values were lost. `loose` is history: why the changes of a product may
not fit its values.

Actions. `BeginNav`, `BeginJob`; for each product `Open` (or `OpenGone`, when it
was deleted meanwhile), then `Skip`, or `Fetch`, for akshare `FetchAccum` (a second
request), and `Store`, which upserts what was fetched whatever the source and the
table hold by then; or `FetchFails` or `WriteFails`. `End` writes the verdict. `Publish`, `SwitchSource`, `Vanish` are the environment:
the source, and `product_service`.

Abstractions. A unit price is there or not, values are small integers.
`data_source_status`, `sync_error` and `last_sync_at` are left out, as is a
broken session, which `JobRunner` has. A row of akshare without a price cannot be
read; tushare's are skipped.

## Runs

| run | question | answer |
|---|---|---|
| `ledger_any` | whatever subscription and snapshot requests are sent, deletions of any day and recalculations from any day among them, do legs, start date and prices agree with the stored snapshots in every state, inside transactions too? | yes |
| `ledger_bulk` | in disciplined use, are the accumulated snapshots a replay of the ledger, the chain complete, and does recalculation restore what it reverts? | yes |
| `ledger_redemption` | is a redemption never priced in the initial window, as the comment says? | no: after deletion and unconfirmation it is |
| `trades` | do the legs of a group stay consistent, does the value at par stay where it is from day to day, and do statement, profits and pages agree with it, whatever is edited, confirmed, reversed and rebuilt, and whichever days are deleted? | yes, but for two recorded slips |
| `trades_oversell` | do sales that passed the check of available shares never sell more than there is? | no: a sale confirmed for a later day counts neither as pending nor as sold |
| `trades_transfer` | does a cross-day transfer keep the value of its sending day? | no: not once it is confirmed and the sending day is built again |
| `events` | is each event in the snapshots and in the profits once, from the shares of its stored entitlement date, and does a recalculation repeat itself? | yes, up to the events of a day deleted inside the chain: the days after it had counted them and keep them, and a recalculation must build that day before they are settled again |
| `jobs` | when can two jobs of a kind overlap, is a reported success true, does every row leave the active statuses, is a submission executed at most once? | for two named reasons only; yes; yes, unless its last write or its submission was lost, and then at the next start of a process; yes |
| `prices` | are late prices fetched, do accumulated values survive, do derived changes compound to the return, do reports account for every product? | yes, but an answer without an accumulated value erases one that another run stored after it was asked for |
| `scheduler_locks` | do named locks keep processes apart, and does the scheduled generation succeed at most once? | yes, though releases miss the lock, unless the pool replaces the connection that holds it under a running section: then nothing does |
| `scheduler_prices` | does the cascade of new prices always end in a run, a success record or the bound on rechecks? | yes, in a day without restarts |
| `scheduler_leak` | is a lock free when nobody is in its section, as the release in `finally` means it to be? | no: the release may run on another connection |

Bounds of the ledger. Four trading days and one closed day: enough for apply,
confirm, a snapshot on and after each, and a recalculation crossing a closed day.
The passing runs have two subscriptions and one investor with two market prices
and both modes (`ledger_any`), and three subscriptions of two investors
(`ledger_bulk`): a first subscription, a second one or a redemption of it, and a
third by another investor, so that one investor may be redeemed while the other
stays. Amounts and share counts have one value each; with `Scale = 2` and prices
1.0 and 2.0 the shares of a subscription differ by the price used, which is what
the properties distinguish. Subscription identifiers are symmetric (every
definition treats them alike, and `Max` is applied to days only).

Bounds of the asset books. Three trading days with a closed day before the last,
so that order, confirmation and arrival may fall on different days, across the
holiday, on and after the day of a snapshot. `trades` has one rebalancing and one
transfer between two platforms and two quantities: the legs of two groups meet in
every window and in the platform's cash. An oversale takes two sales of one share
on one platform (`trades_oversell`), a transfer across days one transfer
(`trades_transfer`). `events` has one event of any kind and two amounts, with a
platform that holds throughout and one that sells out on the second day, so that
bases differ by day and a position may fall below zero; an event may be deleted
and entered anew. Two events would meet only in the sums of a day.

Bounds of the jobs. Two submissions of any kinds, one thread a process, one
restart and two failing writes: two submissions race, the second can be taken
while the first is executed, recovered or lost, and a failure can meet the crash
of either process, or strand a row. The theorems hold for any numbers.

Bounds of the prices. Four days, the last a holiday, two products of which one
changes; two changes of source or product, one job and one failing fetch or
write beside the nightly runs. The product that changes starts with tushare and may
be switched to akshare, so both clients and a change between them occur.
`Lookback = 1` instead of 10 puts the end of the window inside the calendar.

Bounds of the scheduler. Two processes, as deployed. `scheduler_locks` gives each
two threads and two connections: the least for a release on a foreign connection
and for two threads of one process in a section; one restart and one manual run. A
connection may be replaced at any moment: "two processes in a section" is six steps
away when the lock was severed, and a second scheduled success ten. Retries and
rechecks take the same locks the same way and are left to `scheduler_prices`, which
has one thread, one connection, one retry and one recheck and no symmetry.

Fairness. The books and `PriceSync` assume none: nothing they check depends on a
step being taken. In the scheduler, weak fairness of each thread's steps: a
thread that can continue does, and the pool always has a connection for it again.
Weak fairness of firing each retry and recheck: date jobs are stored with
`misfire_grace_time=None`, so some process fires them once a thread is free. The
cron jobs get none, because a process that is down or late at 07:00 skips them.
In `JobRunner`, weak fairness of a request once its row is stored, of each
execution (`Take` to `Rescue`: the pool has threads, and work ends) and of a
starting process's recovery (uvicorn starts a dead worker again, and start-up waits
for nobody). Faults, crashes and submissions get none.

Deadlock is checked in the ledger runs, where in every state some request is
possible. The other systems may stop: the bounded calendar of the asset books
ends, all submissions are over, the last day's prices are stored, no job of the
day is due. Their configurations say so.

## Proofs

`SubscriptionLedgerProofs` proves, for every calendar, every set of
subscriptions, investors, amounts and prices and for both modes, from the three
named assumptions on the constants only:

* `LedgerInvariant`: `Spec => []LedgerInv`, and from it
* `TypeCorrect`: `TypeOK`,
* `LegsAlwaysPaired`: `CashLegPaired`,
* `StartedAtAlwaysFirst`: `StartedAtIsFirstArrival`,
* `AlwaysPricedByStored`: `PricedByStoredSnapshot`.

The properties are not inductive. `LedgerInv` adds three things. The tables as a
rollback will restore them (`SavedOK`) satisfy the same properties, since
`Rollback` makes them current. A transaction in progress knows something
(`TxProgress`): the subscriptions still to be confirmed are pending, so no other
step of the loop confirms them first; in `before` and `build` the day is a
trading day; and in `build` no confirmed subscription was applied for on the day
(`PricedBy(tx.day) = {}`), which is why writing the day's row cannot change the
price of one. That last conjunct is the heart of `PricedByStoredSnapshot`: it is
established by `ValidateAndClear` and kept because nothing is confirmed between
clearing and building. `StartedAtIsFirstArrival` needs the arrival gate: without
it a later confirmation with an earlier arrival would leave `started_at` behind.

The proof is one lemma per group of actions. The two writes that matter,
`ConfirmWrites` and `UnconfirmWrites`, are treated once, over any database that
satisfies the properties, and cited for requests, cascades and automatic
confirmations alike.

On top of it stands the chain, proved from the same assumptions and
`Disciplined` (neither `DeleteAnyDay` nor `RecalcAnyStart`, the two ways of use
that break the chain):

* `ChainInvariant`: `Spec => []ChainInv`, and from it
* `AlwaysContiguous`: `SnapshotsContiguous`,
* `PendingAlwaysAhead`: `PendingLiesAhead`.

Inside a transaction both properties are false on the way: a recalculation clears
one day after the other and leaves holes before the days it has yet to reach.
`ChainInv` says what is known up to the day reached (`Reached`, `Known`): from the
first day of the chain no day before it is missing, and nothing pending is due on
a day before it; every day lies within the end of the recalculation, so at the
end that is the whole chain. A day without positions is skipped only if nothing
lies before it (`NothingBefore`), so a skip leaves no hole. The cascade is
harmless because what it takes back arrives after the day it was applied for.

And on the chain stand the books, again under `Disciplined`:

* `BookInvariant`: `Spec => []BookInv`, and from it
* `AlwaysBookedOnce`: `BookedExactlyOnce`,
* `HoldingsAlwaysFollow`: `HoldingsFollowLedger`.

The code accumulates: the row of a day is the row before it and a window of the
ledger. `BookInv` says what that comes to. Every day behind the one a transaction
has reached `Fits`: its contributions, its cash and, for investors who were never
short, its holdings are what a replay of the confirmed rows up to it gives. Days
ahead of a recalculation are left out, since the cascade has changed the ledger
under them. Two facts carry the step of `BuildNext`. `Opened`: when no day
precedes this one, no confirmed row does, so the first window misses nothing.
`Ahead` of the chain invariant: what a request confirms or withdraws lies on no
day that has counted it (`Moves`), so no row already built needs to change. And
`Valued`, which is about confirmed rows alone: shares and amount go by the price,
which is 1.0000 when no snapshot gives it.

On the books stands what a recalculation owes, still under `Disciplined`:

* `RebuildInvariant`: `Spec => []RebuildInv`, and from it
* `RecalcAlwaysReconfirms`: `RecalcReconfirms`.

A recalculation takes back, day by day, what the day had priced, and confirms it
again at the end of the same day; a refusal of `AutoConfirm` would leave it pending
silently. `RebuildInv` compares the tables with those a rollback restores. Until
its day is done, what was confirmed waits for the price of that very day
(`Awaited`), and `NeverRefused` shows that price and gate let it pass. The gate,
because the first arrival never moves forward (`StartKept`) and, when no snapshot
gave the price, because the window of the first price is the same for all arrivals
(`FirstWindow`). The price, because an old day is never skipped (`NeverSkipped`:
its first arrival was due before any day that is rebuilt, so `RowsKept` has it) and
because a day with a price can come back without one only if it is the first and
its cash is gone: but its legs are the old ones (`FirstPriced`), and a first day
with redemptions alone would have negative cash (`FirstLegArrives`).

`SchedulerProofs` proves, for any number of processes, threads, connections,
retries, rechecks, restarts and manual runs, from the two named assumptions, however
connections are replaced:

* `SchedulerInvariant`: `Spec => []IInv`, and from it
* `SchedulerTypeCorrect`: `TypeOK`,
* `LocksExcludeProcesses`: `NamedLockExcludes`,
* `ScheduledAtMostOnce`: `ScheduledSnapshotOnce`.

The exclusion rests on `HeldForAll`, of every lock that is not severed: the connection that holds a lock belongs to
the process of every thread in the section, and holds it at least as often as
there are such threads. Equality would be false, since a release that misses the
connection leaves the lock held once too often; the inequality is enough and is
kept by entering (both sides grow by one at most), leaving (both shrink, or only
the threads do) and closing connections (with a restart, the threads go too;
otherwise the section is empty or the lock is severed by that step). A severed lock
is trusted again once its section is empty, where the inequality holds of itself. Three lemmas say this once (`Kept`, `Entered`,
`Left`) and each step of a thread is reduced to one of them. `ScheduledAtMostOnce`
adds that, while the lock is not severed, a scheduled run in progress has seen no
record (`NoneBefore`); the lock
keeps other processes from adding one meanwhile, and a process does not execute
one job twice (`OneInstance`).

`Sums` has what the proofs about accumulated books need of
`SumFunctionOnSet`: the sum of the empty set, of a set without one element, of a
union, of a sum of functions, of a set split by a function, of a map carried to
another index set. The library's induction theorems take predicates, which the
provers cannot instantiate; here a predicate is the set of what satisfies it, and
`SetInduct` a fact about sets of finite sets, so the recursive definition below the
folds is unfolded once and no proof above it sees it. Products, for `PriceSync`,
are treated the same way.

`TradeBookProofs` proves, for every calendar, any finite set of platforms, any
groups, quantities and openings, from the named assumptions of `Chain` and
`TradeBook`:

* `TradeBookInvariant`: `Spec => []IInv`, and from it
* `TradeBookTypeCorrect`: `TypeOK`,
* `GroupsAlwaysConsistent`: `GroupsConsistent`,
* `PendingAlwaysAhead`: `PendingLiesAhead`.

`IInv` is `TypeOK` with `TableOK` of two tables, the current one and the one a
rollback restores. `TableOK(table, days)` says at once that groups are consistent
and that what is pending lies ahead of the days: the second needs the first,
since a purchase's dates are those of its two legs, and the first needs the
second, since a transfer can only be taken back while neither leg was passed. It
takes any set of days, so one lemma per request serves the table, and `FewerDays`
serves deletions and rollbacks. Lemma `Rewritten` reduces every request to the
group it rewrites.

Two more invariants stand on it:

* `BooksFit`: `Spec => []BookInv`,
* `GapsAreDeletions`: `Spec => GapsOnlyDeleted`, by `GapInv`, and from `BooksFit`
* `ValueAlwaysKept`: `ValueKept`,
* `TransitAlwaysHalfDone`: `TransitIsHalfDone`,
* `ProfitsAlwaysAtPar`: `ProfitsAtPar`,
* `StatementAlwaysBalances`: `StatementBalances`,
* `BreakdownAlwaysAddsUp`: `BreakdownAddsUp`,
* `AnyListWhole`: the pages of any rows, in any page size from 1, are whole
  (`ListedWhole`), for a finite set of groups, and from it
* `PagesAlwaysWhole`: `PagesWhole`.

`ValueKept` is not inductive: it speaks of committed days, and of one total, while
requests rewrite the legs a row was added up from. `BookInv` says of every row
(`RowFits`) that its cash and shares are the opening and the sums of all legs
arrived since, and that what is in transit, with what the build left out, is the
sum over groups whose first leg was counted and whose second was not (`Owed`). A
build moves this from the base to its day by the legs in between, however many days
between them were deleted. A request keeps it because the legs it
rewrites lie behind no day of the chain, or keep what was summed: lemma per
request, `Quiet`. What a rollback restores satisfies it too. The theorems follow
from `BookInv` alone, each by pairing legs: a group's counted legs cancel, which
leaves what is owed (`ValueKept`); costs and flows of a fund at par cancel the
market value (`ProfitsAtPar`); lists of the views regroup the same legs
(`BreakdownAddsUp`). `StatementBalances` reads each balance as a replay of legs, from
the row of the last day with a snapshot, and subtracts.

The pages are proved about apart from the books; of these they need only that legs
are finitely many and typed. Rows and groups are each listed in a strict order
(`GroupsOrdered`, `RowsOrdered`, where ids within a group and anchors and names
between groups decide), so every row has one place (`Placed`, `Listed`). The walk
over group sizes knows no rows: it ends every page at a border between two groups,
not before the page is full, and the last one with the last row (`PagesCut`). The
two meet in `PlacesInGroup`: the first *i* sizes add up to the rows of the first
*i* groups, so the rows of a group stand between two neighbouring borders, and a
page, which ends at borders, has all of them or none. The argument needs the order
of rows to refine the order of groups, which is what the sorting by an anchor per
group is for. That groups are finitely many is a hypothesis of these two theorems
alone: names of groups are numbered to be sorted.

`JobRunnerProofs` proves, for any submissions, kinds, processes, pool size and
bounds, from the three named assumptions:

* `JobInvariant`: `Spec => []IInv`, and from it
* `JobTypeCorrect`: `TypeOK`,
* `OverlapOnlyExplained`: `OverlapExplained`,
* `ReportedSuccessIsTrue`: `SuccessIsTrue`, and
* `RunnerImplementsOneShot`: `OneShotRefined`.

`OverlapExplained` is not inductive: a submission that has counted must be known
to have no active rival, unless that one was in the race or was disowned, and a
job that is alive must have an active row unless it was disowned. `SuccessIsTrue`
needs that a verdict about to be written is backed by the effect. The refinement
needs that a queue holds each job once, and only while it waits: otherwise a
thread would take a job that is over.

`EventBookProofs` proves, for every calendar, any events, openings and amounts and
any finite set of platforms, from the named assumptions of `Chain` and `EventBook`:

* `EventBookInvariant`: `Spec => []IInv`, and from it
* `ChildrenAlwaysAgree`: `ChildrenAgree`,
* `EntitlementAlwaysStored`: `EntitlementFromStored`,
* `PendingEventsAlwaysAhead`: `PendingEventsAhead`.

`IInv` is `BookOK` of the current table with the current chain, up to the day a
recalculation has reached (`Passed`), and of the tables a rollback restores, up to
the end. `BookOK` asks two things of each row. `RowOK`: a confirmed row has the
base that the stored chain gives it, a pending one is `Ahead`: not due on any day
built so far, unless its day of entitlement is missing inside the chain and the day
it is due on is stale. `ParentOK`: a child lies under its confirmed parent and has its dates. The
bound on the days is the heart of it: while a recalculation runs, rows that wait
for a day it has yet to rebuild are due on days of the old chain. What the cascade
withdraws never blocks, because an event is settled after the day of its
entitlement (`SettledLater`). `WithdrawnKeeps` treats the cascade once, for
rebuilds and deletions, `ConfirmedKeeps` all ways to confirm.

The books come next:

* `EventBooksFit`: `Spec => []BookInv`, and from it
* `EventBookTypeCorrect`: `TypeOK`,
* `CreditedExactlyOnce`: `CreditedOnce`,
* `ProfitAlwaysOnce`: `ProfitOnce`,
* `DailiesAlwaysAddUp`: `DailiesAddUp`.

`BookInv` says that every day in step (`InStep`: behind the day reached, and no
event it counted, nor the day of its entitlement, was deleted since) replays the confirmed rows and the constant
flow up to it, and that what is under way is told by the entitlement of the stored
chain (`Entitled`) and not by the base a row remembers, which a pending row has
not. `StepsBack`, that a day built on one out of step is out of step, lets a build
take its base as a replay. A row that is confirmed, withdrawn or rewritten keeps
every day it is not settled on (`Alike`, `CarriesOver`), and by `IInv` those are
the days of the chain. `CreditedOnce` then compares three ways a row may show, in
the shares, in the cash or under way (`Seen`), row by row, and `Sums` adds the rows
up. The profits of the views are sums over legs, of the same rows in another order.

Last, what a recalculation gives:

* `RebuildRepeats`: `Spec => []RepeatInv`, and from it
* `RecalculationAlwaysRepeats`: `RecalculationRepeats`.

`RecalculationRepeats` compares the end of a recalculation with its start, many steps
apart. `RepeatInv` says at each moment between them what there is to compare: the
events are those saved at the start, settled or to be settled again (`Recovers`), and
every saved day, rebuilt or not, is what it was (`Again`). A rebuilt day is the same
because it replays events that count the same (`RecoveredCarries`, then the lemmas
`CreditedOnce` rests on): an event that is pending on one side has not settled on
either, and one that has settled took its base from a day before, which is the same
by then. Two facts about all reachable tables are needed for it. `SplitOK` ties a
split to its children and `Full` says that every holder has one; a split rebuilt is
full, and one whose children add up to it is too (`WholeIsFull`), which is where the
condition `Whole` of the property comes from. `Clipped` says that a platform which
drops shares has none left: the replay fixes only shares less what was dropped, and
this fixes both.

`PriceSyncProofs` proves, for every calendar, any products, sources, requests and
bounds, from the named assumptions of `PriceSync`:

* `PriceInvariant`: `Spec => []IInv`, and from it
* `ReportsAlwaysTrue`: `ReportTrue`,
* `ValuesAlwaysKept`: `AccumKept`;
* `PriceSyncTypeCorrect`: `TypeOK`, by its own strengthening `Typed`;
* `ChangesAlwaysLinked`: `Spec => [](Typed /\ LinkInv)`, and from it
* `ReturnsAlwaysCompound`: `ReturnsCompound`;
* `LateNavsAreStored`: `LateNavStored`, with `NavWindow`.

`IInv` says that a running run has each product it was asked for in exactly one
place: to do, at hand, done, failed or missing. `ReportTrue` and `AccumKept` are
about steps: one lemma per action proves the invariant, the report and the stored
values together (`Good`).

`ReturnsCompound` multiplies changes that were derived in different batches.
`ChangesLinked` says what each of them is: unless something recorded in `loose`
interfered, it divides the value of its day by the latest one stored before it. A
batch keeps that, since a fetch reaches the end of the window and rewrites every
day the source shows from its start on, and what is stored is still shown
(`StillShown`), so no stored day after the batch keeps a change against a value
that is gone; it reads the right source as long as nothing was loosened
(`KnowsClient`). The product then telescopes: `AllTelescope`, by induction over
the stretches of days.

`LateNavStored` is about the step that reports the product done. Its window was
computed when the product was opened, from the view of that transaction
(`NavWindow`), and a job may have stored rows since, but taken none away. A day the
step leaves without a row lies before the window, and then more than `Lookback`
trading days behind the latest price of the view (`LeftOutIsFar`), which is a
statement about the cardinality of the days between.

Only model-checked, besides the runs that expect a violation:

* `NewNavIsHandled` and `EveryJobEnds`: liveness under fairness is out of the
  prover's reach.

Every invariant and every action property of a passing run is proved.

`TypeOK` of the ledger types the unit price of a snapshot and not its totals;
those are given exactly by `BookInv`.

## Limits the code has, documented

The runs with answer "no" above are disagreements of code and text, and
`PROJECT.json` quotes them. Others were met while modelling; the properties
exclude them by a named condition rather than claim them away:

* The query for an investor's last holding row finds an older row for an investor
  redeemed in full, whose baseline is then too old (`position_service.py:766`).
* The single-day deletion takes any day of the chain (`routers/snapshots.py:409`),
  against the cascade rule (`business-constraints.md:101`); the recalculation takes
  any start (`snapshot_service.py:549`, against line 97). `DeleteAnyDay` and
  `RecalcAnyStart` are these two; `ledger_bulk` leaves them off. In the asset books
  any day may always be deleted; days after it that had counted an event entitled on
  it are `stale` until recalculated, and the daily profit of the day after it covers
  two days (`DayBeforeStored` in `DailiesAddUp`).
* The lock of a running task is free once the pool replaces the connection that
  holds it (`database.py:15-16`), against the exclusion the docstring promises
  (`scheduler_service.py:3`): `severed`.
* A run that another one overtakes stores its older answer over newer values
  (`market_data_service.py:482-535`); `AccumKept` names this case.
* A day skipped for want of positions has already reverted its subscriptions
  (`snapshot_service.py:348`).
* The cascade after new prices reads the success record before it has the lock and
  may repeat the run of the day (`scheduler_service.py:361`).
* A confirmed event that snapshots counted can be deleted
  (`share_change_event_service.py:1390-1414`, against
  `business-constraints.md:244`): `stale` days keep it until recalculated.
* A recalculation whose final write fails is reported as failed although its days
  are committed (`snapshot_recalc_job.py:143-168`, against
  `business-constraints.md:416`), so `SuccessIsTrue` is an implication.
* A withdrawn sale falls back to its proposed day, which may lie behind the chain
  (`WithdrawnSale` in `PendingLiesAhead`).

## Plan

Done: `SubscriptionLedger`, `Scheduler`, `JobRunner`, `TradeBook`, `TradeViews`,
`EventBook`, `EventViews`, `PriceSync`, with their proofs. Next, in this order:

1. `SubscriptionRace`: the read, check and write steps of subscription requests
   interleaved with each other and with a snapshot transaction under row locks.
2. Portfolio close, reactivate, delete inside `SubscriptionLedger`; sessions.
3. `DbRetry`: gap locks, deadlock victim, bounded retry.
4. An abstract ledger (`ReplayLedger`: snapshots are functions of the confirmed
   entries) that `SubscriptionLedger` implements in disciplined use, and an
   abstract lock between processes that `Scheduler` implements.

## Not modelled

Concurrency of requests on one portfolio: the books serialise them, because
nothing in the code but row locks orders them, and those are in the plan. Prices
that differ from par with fees, manual market values, the strict price lag, the
performance series and groupings for display: arithmetic on decimals that no
property of the books tells apart. The locks of InnoDB behind `db_retry`. Closing
and deleting portfolios, sessions and keys. Product and investor records, audit
rows, asset classes, the front end, the CLI, external clients and the scripts of
deployment keep no state that a property of the books depends on, or none at all.
`PROJECT.json` gives the reason for each component.
