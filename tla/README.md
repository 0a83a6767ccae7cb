# AgomTradePro in TLA+

AgomTradePro is an investment-research platform built on Django 5, Celery and
Redis: forty-odd applications in a domain/application/infrastructure/interface
layout, an AI agent that users talk to through a web terminal, an order path to a
broker through a Windows agent process (QMT), and a market-data bridge that runs
beside that agent. This directory holds TLA+ models of the parts whose correctness
depends on interleaving, failure and order, the TLC configurations that check
them, and TLAPS proofs.

Five subsystems are modelled, from the places where the code makes promises under
failure:

1. the **queued terminal-agent runtime**: a durable ledger of Agent runs, workers
   with at-least-once delivery, a reconciler, a reaper, and the cache guard that
   caps concurrent executions;
2. **live orders**: the server's order book and the trading agent that places its
   orders at the broker exactly once, or admits that it does not know;
3. the **market bridge**: a paired worker that uploads batches from a durable
   outbox, and the server that stores each of them once;
4. **proposals** of the Agent: submission, human decision and execution;
5. the **simulated order ledger**: one account whose orders reserve cash and shares,
   are matched once a day, filled in parts, settled sessions later and corrected.

## 1. Inventory

| Component | State it keeps | Operations | Hard behaviour | What makes it correct |
|---|---|---|---|---|
| Queued terminal-agent runs (`apps/agent_runtime`, `apps/terminal/interface/queued_runtime_views.py`) | run rows, execution checkpoint, event log, broker queue | submit, replay, cancel, claim, start, heartbeat, append, transition, finish, reconcile, reap | duplicated, lost and late messages; crashes at any call; slow workers that wake up after being reaped; cancellation at any point | one execution per run; only edges of the graph; settled runs immutable; row and checkpoint agree; admission limits; leases are resolved; queued runs are dispatched |
| Execution guard (`terminal_agent_execution_guard.py`) | cache leases per user and per slot | acquire, release | leases expire, calls fail half-way, release is read-then-delete | one Agent per user, at most `max_concurrency` in all, as long as leases outlive executions |
| Live orders, server (`apps/broker_execution`) | orders, leases, events, fills, cancel commands, the account's stop | create, preview, approve, reject, cancel, lease, acknowledge, report, maintain, stop, resume | previews that grow old, overdue leases, events that are late, repeated, contradictory or too many | a queued order was never sent; a final order stays final; an overfill is never hidden; a human commits on what he saw |
| QMT trading agent (`qmt_agent/executor.py`, `state_store.py`, `qmt_adapter.py`) | SQLite records of submissions | recover, poll, execute, report, cancel | crash around the broker call, answers that never come, requests served after they were given up | no second placement; what is placed was approved and acknowledged; FAILED was never placed; a final status is the broker's |
| QMT market bridge (`qmt_agent/bridge_worker.py`, `apps/data_center/infrastructure/qmt_bridge_repository.py`) | binding and credentials; batches, facts, freshness; outbox | pair, approve, pause, revoke, repair, plan, ingest; collect, upload, delete | lost receipts, repeated and late uploads, two transactions per request, control actions in between | no batch lost, none stored twice, facts are those of stored batches, freshness is honest, nothing stored while collection is off |
| Agent proposals (`apps/agent_runtime/application/proposal_use_cases.py`) | proposal, execution records | submit, approve, reject, execute | requests that overlap or die between a read and a write without a lock | nothing executes unapproved; shown outcomes are recorded; the decision and the status agree |
| Agent tasks and hand-off | task rows, timeline | create, resume, cancel | - | see section 5 |
| Broker reconciliation, bindings, approval artifacts | snapshots and differences | compare, resolve | stale snapshots | differences stop trading |
| Event bus and failed-event retry (`apps/events`) | stored and failed events | publish, claim, retry | crash between claim and outcome | retries bounded; nothing forgotten |
| Decision rhythm (`apps/decision_rhythm`) | quotas and cooldowns kept in memory per request; two administrative counts | submit, consume, reset | the stored count is not the one that is checked | see section 5 |
| Task monitor (`apps/task_monitor`) | Celery attempts, worker snapshots | record, judge orphans | stale snapshots | a living attempt is never declared dead |
| Simulated order ledger (`apps/simulated_trading`) | account cash, positions with a sellable part, reservations, daily match decisions, trade and fill rows | reserve, cancel, match, fill, trade, release, correct a fee, stop, start, reset | many operations on one balance; partial fills with rounded cumulative fees; settlement that is late; an account stopped between match and fill | what one order holds nobody else spends; shares are sold only when settled; books follow from rows; a matched event can be filled; the daily capacity is shared |
| Accounts, portfolio, risk center | accounts, limits, valuations | create, transfer, value | - | read models over the ledger |
| Data center, research, analytics, strategy and signal apps | time series, factor values, rules | batch ingestion and computation | data quality | numerical, no shared control |
| AI providers, prompts, capability catalogue, terminal UI, audit, readiness, configuration, dashboard, SDK, MCP server, scripts, frontend | configuration and read models | request/response | - | - |

**How they interact.** `TerminalQueuedRunView` admits a run in a transaction and
publishes an id-only message from an `on_commit` hook. A worker
(`execute_terminal_agent_run`) claims the row, starts it, executes the Agent under
the execution guard and persists its events one by one, each after a heartbeat,
re-reading the row after each. Beat starts the reconciler and the reaper every
minute. All of them meet only in database rows.

A live order is created on the server, approved by a human on a preview of its
version, and leased to the trading agent, which polls. Before the agent calls the
broker it notes SUBMITTING in its own store and asks the server to acknowledge the
same; afterwards it notes and reports the outcome. From then on the broker is
polled and every order and trade it knows is reported as an event with an id made
from its content. At a restart the agent looks up its unresolved records at the
broker. A maintenance task expires orders and leases; doubt on the server's side
(an event that does not fit, too many fills) puts the order into
`RECONCILIATION_REQUIRED` and stops the account.

In simulated trading every writer first locks the row of the account, so its
reservations, fills, direct trades and corrections happen one after the other; they meet in
the cash and the positions of the account. A match decision is recorded in one
transaction and applied in a later one, and anything may come between.

The market worker shares the agent's host and nothing else. It asks for a plan,
sends its oldest batch if there is one, and reads the market only when the outbox
is empty.

A proposal is written by Agents and read by operators; executing one calls a
capability once, directly from the web request.

The hazards of these parts, line by line, are listed in `PROJECT.json` with the
properties that cover them.

## 2. Modules

| Module | Role |
|---|---|
| `RunContract` | the eleven statuses and `_ALLOWED_TRANSITIONS` |
| `RunLedger` | the rows, checkpoints and logs with every repository operation as an action; `LedgerSpec` lets callers ask for anything |
| `TerminalAgentRun` | web API, workers, beat tasks, broker and operator around the ledger |
| `RunPromise` | abstract specification: what the owner of a run is promised |
| `ExecutionGuard` | the cache leases, one cache call per action |
| `LiveOrder` | the order book; `ServerSpec` lets an agent report anything |
| `OrderPromise` | abstract specification of an order's way, and of the stop |
| `QmtAgent` | the trading agent and the broker, composed with `LiveOrder` |
| `MarketBridge` | binding, ingestion and market worker |
| `BridgePromise` | abstract specification of the archive |
| `AgentProposal` | a proposal and the requests on it |
| `OrderLedger` | the simulated account, one transaction per action |
| `HoldPromise` | abstract specification: what a reservation promises to its owner |
| `Totals` | sums, in a form that can be proved about |
| `*Proofs` | the theorems about the module they name |
| `MC*` | instances for TLC |

### RunLedger

`status[r]` is `dispatch_status` ("absent" before admission), `claimedBy[r]` is
`claimed_by`, `checkpoint[r]` the row of `TerminalAgentRunExecutionModel`,
`events[r]` the event log as a sequence of event types. `heartbeat_at` is
abstracted to `stale[r]`: whether it is older than
`TERMINAL_AGENT_ORPHAN_AFTER_SECONDS`. A run stands for the admitted pair of
run_id and client_request_id; submissions that conflict with a stored row change
nothing and are left out.

An operation on a stored run is one transaction under the lock of its row. An admission
is one too, but what it locks are the admission anchors (rows of the user table), and it
counts the runs four times, one query after the other: `admission[r]` says which count
comes next. `BeginAdmission` takes the anchors, `CountRows` is one of the first three
counts, `AdmitRow` the last one with the insert, `RefuseRow` a rollback. A claim or a
settlement takes no anchor and may commit between two counts; a run that is claimed after
the active rows were counted and before the queued ones is in neither. What the limits
then bound is `LoadBounded`: queued rows stay within the queued limit, and queued and
active rows together within the *sum* of both limits. The sum less one, which counts of
one instant would give, is exceeded.

Every method of the repository is an action with the row filter as its guard:
`HoldsLease(r, w, S)` is the filter on `claimed_by` and `dispatch_status`, a miss
is `None`. `claim`, `mark_started`, `cancel` and `reap_stale` write the status
directly in the code, `transition` and `mark_finished` go through the transition
graph; the model keeps that difference, which is why `LegalEdges` is a question.
`append_event` does not refresh the heartbeat; `reap_stale` orphans all stale
leases in one transaction. `LedgerSpec` has no caller discipline at all: any
operation, by any worker, in any order. `accepted`, `timed_out` and `blocked` are
in the graph and no code writes them.

### TerminalAgentRun

A delivery is a member of `Workers` with a program counter. The labels are the
points between two database calls of `execute_terminal_agent_run`:

| `pc` | next call in the code | action |
|---|---|---|
| `claim` | `claim` | `Claim`, `ClaimNothing` |
| `start` | `mark_started` | `Start` |
| `input` | `get_worker_input`, then the Agent service | `StartAgent`, `TurnAway` |
| `refused` | the stream of a service that executed nothing | `NextEvent` with "error" |
| `stream` | the event stream: `heartbeat` or `mark_finished(completed)` | `NextEvent`, `Complete` |
| `append` | `append_event` | `AppendEvent` |
| `check` | `get_for_owner`, choice of the branch | `Check` |
| `cancel`, `park` | `transition` to cancelled or waiting_approval | `Yield` |
| `fail` | `mark_finished(failed)` in the exception handler | `Fail`, `FailLost` |
| `return` | acknowledgement (`acks_late`) | `Ack` |

`LeaseLost` is `_TerminalWorkerLeaseLost`, `Raise` any other exception in the try
block (unreadable input, failing service, refused transition,
`HEARTBEAT_REWIND`, soft time limit), `Crash` the death of the process at any
point, with the message redelivered (`reject_on_worker_lost`) or acknowledged
(hard time limit). The Agent executes completely before its first event is
yielded, so one `StartAgent` is one execution and everything after it is
persistence. A busy guard is no exception: `stream_chat` executes nothing and yields one
error event (`terminal_agent_service.py:247-254`), which the task heartbeats, appends and
acts on like any other. That is `TurnAway`, and its run may still be cancelled by its
owner in between, hence cancelled without an execution; `OutcomeWasExecuted` says that
the error event is then its whole log.

A submission is `Submit`, `Count`, `Admit` or `Refuse`, the steps of the admission in the
ledger; the route looks at the emergency stop once, at its beginning.

Messages are a counter per run; the broker may lose them (`LoseMessage`) and every
publish may fail (`TryPublish`). `Replay` is a repeated submission. The reconciler
is two actions because it reads ids and publishes them later; its limit (100)
exceeds the global queue limit, so it is left out. The grace period and the
heartbeat age are clock time: `Reconcile(old)` may pick any queued rows, `Age(r)`
may make any lease stale, also that of a slow but living worker.
`emergencyStop` is `TERMINAL_EMERGENCY_STOP`, changed by a redeployment; the flags
`TERMINAL_QUEUED_INTAKE_ENABLED` and `TERMINAL_QUEUED_WORKER_ENABLED` are on, as
otherwise nothing happens.

A worker identity is `hostname:pid:uuid4`, new for every delivery. A member of
`Workers` is reused only when no row mentions it (`Fresh`), which no observer can
tell from a new one.

`RunPromise` has six phases per run, a count of executions and a mark that it was turned
away: a run waits, is worked on, is executed at most once or turned away, only an
executed run is parked, a run is cancelled after one of the two, and nothing happens
to it when it is over. The runtime implements it with `phase <- Phase`,
`executions <- agentStarts` and `refused <- TurnedAway`.

### ExecutionGuard

`lease[k]` is the cache value under the key of a user or a slot. `cache.add` is
atomic; `_release_if_owned` is a `get` (`CheckOwner`) and a `delete` (`Delete`)
which deletes whoever's value is there by then. Any call may raise (`AddRaises`,
`ReleaseRaises`), an add after it took effect as well. The constant `LeaseOutlives`
says whether no lease expires before its execution is over. The configuration does
not guarantee it: the lease lasts the execution timeout plus 30 seconds
(`terminal_agent_service.py:160`, 60 + 30 by default), the task may go on until its hard
limit of 120 seconds, and the lease is held while the events are being yielded.
`ExecutionsCapped` is therefore conditional, and the run `guard_stale` shows what the
stale owner does to his successor without the assumption. The runtime model does not
instantiate this component: whether the guard lets an execution pass is the choice
between `StartAgent` and `TurnAway`.

### LiveOrder

One trading account. `status[o]` is the row's status, `hold[o]` and `token[o]` its
last lease (the code keeps the old lease rows, which no query reads again),
`fills[o]` the broker trades attached to it, `command[o]` its cancel commands,
`applied` the stored event ids, `stopped` `kill_switch_active`. The version column
is represented by what it is for: `seen[o]` is the status a human saw in a preview
of the current version, and every write of a status outdates it
(`SetStatuses`). `Commit` is the mutation with `expected_version`.

A transaction that writes one row holds that row's lock. The kill switches it reads
without a lock, so a stop may commit between that read and the write: creation, approval
and acknowledgement are two actions each, `CheckCreate` and `Create`, `CheckApprove` and
`Mutate`, `CheckSubmit` and `Acknowledge`, and `passed[o]` remembers the request on the row
that found trading on (`FindsNoStop`). A write of the row by somebody else ends it, since
it needs the lock. Three more operations are two steps each: `LeaseCheck`
reads the switches and `LeaseOrders` leases (`broker_repository_agent_runtime.py:299`
against 311); `ResumeRead` looks for blockers and `ResumeCommit` clears the switch
(`use_cases.py:608`, 638); `run_maintenance` is two
updates, each its own transaction, `ExpireOrders` and `ReleaseLeases`. Everything else is one
transaction, hence one action: `LeaseOrders` leases every order that qualifies,
`ApplyEvent` stores the event, attaches the fill and moves the status, or goes to
reconciliation and stops the account.

Deadlines are clock time: `OrderExpires` and `LeaseExpires` may come at any moment at which
they make a difference (`Ticks`), which is until the order is sent or over, or until an
acknowledgement has read the clock.

`AnyAgent` is an agent that reports anything, in any order, as often as event ids last. The
endpoint takes any string for a status (`serializers.py:275`): one that is no status counts
as `RECONCILIATION_REQUIRED`, every other is tried on the graph alone, READY for a waiting
order and SUBMITTING for a leased one included (`Reportable`). `approved[o]` says that the
stored approval digest fits the order. An order that a report made READY or LEASED is not
approved, and the acknowledgement sends it back to `WAITING_APPROVAL`. (The digest covers
only fields that do not change after creation.) The server keeps its promises against all
such agents; `QmtAgent` then says what the real one does. `EvidenceIntegrated` is the gate
`broker_order_evidence_integrated()` (`application/evidence_gate.py:25`). The present build
keeps it FALSE, and with it no live order is ever created. The runs set it TRUE, as
`tests/component/broker_execution/test_execution_contract_capabilities.py:68` does;
the proofs hold for both values.

`OrderPromise` has six phases (none, waiting, queued, sent, unclear, done). The book itself
creates, queues and sends an order only in a request that found trading on, so none that
begins after a stop does, and it sends only what a human approved. What the agent reports it
takes for a fact about the order, which goes onward and never back, also while trading is
stopped; a report that leads to doubt stops trading in the same step.
`RECONCILIATION_REQUIRED` is "unclear": a failed cancellation leads there too, from sent,
and the way out is forward.

### QmtAgent

`pc` names the next call of the agent's single thread; `record` and `match` are the
rows of its SQLite store and the only state that survives `Crash`. One request is
several actions: the client starts it, the server serves it (`Deliver`, `ServeAck`),
and the client learns the answer or gives up (`PostEnds`, `GiveUp`), after which the
server may still serve it once (`DeliverLate`, bounded by `MaxLate`). So a request
can fail before the server saw it, after it did, or long before it does. One event that
raises on the server (an unknown order, a fill of another order) ends the POST: those before
it are committed, those after it dropped, which is why `PostEnds` may cut the outbox at any
place. An acknowledgement is checked and written in two actions, like everywhere; when the
agent no longer listens the write is `AcknowledgeUnheard`.

| Code | Actions |
|---|---|
| `initialize`, `recover_uncertain_submissions` | `Start`, `RecoverOne`, `Recovered` |
| `run_once`: heartbeat, order lease | `Heartbeat`, `AskForOrders`, `ReceiveOrders`, `LeaseUnheard` |
| `execute_order` | `SkipOrder`, `MarkSubmitting`, `AskSubmitting`, `Validate`, `Submit`, `RecordOutcome`, `Escape`, `OrdersDone` |
| `sync_broker_events`, the events of a POST | `SyncBrokerEvents`, `Deliver`, `PostEnds` |
| `process_commands` | `AskForCommands`, `CancelOrder`, `ReportCommand`, `CommandsDone` |
| the broker (external) | `Market` (`BrokerTrades`, `BrokerEnds`), `NewDay` |

`Escape` is an exception outside the six types `execute_order` catches: the record stays
SUBMITTING and nothing is reported.

A broker order is known by the client order that placed it, which is what the order
remark carries; what others placed in the same account are `Strangers`, in any state of
`Strange`. The broker id an agent stores (`match`) may be that of another order: when
nothing carries the remark, recovery takes the only order with the same asset, quantity and
price, and which orders agree in these is left open (`Candidate`). The adapter's queries
answer with the orders and trades of the day (`qmt_adapter.py:1017`): `NewDay` moves every
placed order to `past`, and from then on it is not `Visible`, neither to a poll nor to
recovery. A broker state the adapter does not know, or `ORDER_UNKNOWN` (which the broker may
show for an order in `Unsure`), is reported as reconciliation.

Simplifications that lose no behaviour the properties see: a cancel command may hit any
order that is visible, because the broker id last reported for its client order may be
another's; the local marks "acknowledged" and "uncertain" are one, because both count as
unresolved; a human's commit and a resume are one step with their preview, because
`LiveOrder` has shown what may come in between; one order lease is in progress at a time.
Equal requests that are late collapse, because the server treats a repeated event id as
known and an acknowledgement nonce once.

### MarketBridge

One binding. `pairing` is an open code, `token` the credential that `authenticate`
accepts (0 when it was revoked, replaced or has expired), `provider` the state of
the market data source, `received` the batches with a receipt, `facts` the stored
quotes and bars, `newest` `last_observed_at`. On the Agent's side `saved` is the
credential in `bridge.json`, `used` the one the running worker has loaded, `outbox`
the rows of its SQLite outbox. `made` remembers every batch; a batch is known by its
place in it. `net` are the uploads on the way: `late` ones have been given up by the
worker and can still be served, since its timeout says nothing about the server.

Authentication and ingestion are two transactions, hence `Authenticate` and `Ingest`.
`Ingest` is the whole second transaction: the binding is asked again, a batch with a
receipt gets it again, and samples are created one by one and compared with what is
there, with everything rolled back on a conflict. `valid` says what validation makes of a
payload: "never" is one whose text contradicts itself (an observation later than its
collection) and is refused for ever (`Sound`); "later" is one from an Agent whose clock runs
ahead of the server's, refused until the server's clock has caught up (`TooEarly`).
`daily_status` batches store no facts.

Left out: an inactive owner is refused like a wrong credential; the request for a
plan is one step; the payload formats and volume units.

`BridgePromise`: batches are stored in the order they were made, each at most once
and as a whole, a stored fact never changes, nothing is stored while collection is
off, and a revoked binding stays off.

### AgentProposal

One proposal and web requests that are used again and again. No use case holds a
lock or a transaction (`ATOMIC_REQUESTS` is not set), so a request is one action per
database call: `Read` reads the row and validates, then `Submit` or `Decide` write,
or `Call`, `Record` and `Finish` execute. `Blocked` is a guardrail, `Die` a death of
the process or an exception between two calls, for example the refusal of an
execution record. `update_proposal_status` writes without looking at the status it
overwrites. A terminal capability that is approved and executed at once is the two
use cases in a row. `calls`, `approvals`, `lost` and `overlapped` are history: no
code stores them.

`DecisionsAgree` holds in one direction whatever overlaps: a status that tells a decision
has that decision in `approval_status`. The converse (`DecisionShown`: a decision is still
shown by the status, or by the outcome it led to) holds only while requests do not overlap.
A submission that validated before an approval writes `submitted` over `approved`, and the
approval beside it stays; that lost decision is one of the violations of
`TransitionsEnforced`.

### OrderLedger

One account. `order[k]` is the reservation row under the idempotency key `k`,
`match[e]` the daily match decision under its operation key, `trade[t]` the trade row of
a direct trade (keyed by its idempotency key) or the fill row with its receipt (keyed by the
operation key of its event). `avail[a]` is `available_quantity`, the part of `qty[a]` that
is settled. Amounts are cents, prices fractions of a cent (`CentUnits`), and `HalfEven` is the
rounding of `Decimal.quantize`.

| Code | Actions |
|---|---|
| `OrderReservationRepository`: reserve, cancel | `Reserve`, `Cancel` |
| `LocalDailyMatchRepository.record_decision` | `RecordMatch` |
| `apply_fill_event` | `ApplyFill` |
| the settlement unit of work: direct trades, the release of due rows | `ExecuteTrade`, `ReleaseDue` |
| fee correction | `CorrectFee` |
| account repository and its guards: save, reset | `Deactivate`, `Reactivate`, `Reset` |
| the market calendar (external) | `NextSession` |

Every writer takes the row lock of the account first and commits everything it does in one
transaction, so every operation is one step. What is refused is rolled back, and a
replay with a known key returns the stored row: neither is a step. Each operation that
reads sellable shares first releases what is due (`AvailableNow`, `ReleasedRows`); that is part
of the same action. The code checks its books again wherever it reads them
(`BOOK_CASH_OVERHELD`, `SELLABLE_SHARES_OVERHELD`, `PENDING_SETTLEMENT_INVALID`
and others). Those checks are not guards of the model but
its invariants: a check that fires would leave the account unusable.

A match decision reads the close, the volume and the policy anew, inside its transaction:
`RecordMatch` takes any `capacity` of `Capacities` and any share step of `Steps`, so two
decisions of one session may see two capacities, as after a republished volume or a changed
policy. The decision keeps the capacity it read. When it is smaller than what is already
matched, the decision is refused (`PRIOR_MATCHES_EXCEED_DAILY_CAPACITY`, here a guard: it
really fires, and only that decision is lost); otherwise `Room` is what is left of it.
`DailyCapacity` is accordingly about steps: no decision takes the session's matches beyond
the capacity that it read.

`Held` is what an active order still keeps of its reserved cash, `HeldOf` of shares, and
`FreeCash`, `SellableShares` and `KeyFree` are the three questions that keep orders and
direct trades apart. A fill is charged the difference between the fee of the
cumulative gross with it and without it (`FillFee`).

Sums are `Total` of the module `Totals`: the number of units of a function's values. A fold
cannot be reasoned about without induction over data, a cardinality can. `MCOrderLedger`
compares `Total` with the sum of the community modules.

`HoldPromise` knows free cash, the cash each order holds, and whether an order is fresh, open or
closed. An order opens with money that was free, its own fills alone spend what it holds,
what is left comes back exactly once, and everything else moves free money and never
below zero. The ledger implements it with `free <- cash - HeldCash`.

## 3. Runs

| Run | Question | Bounds |
|---|---|---|
| `ledger` | does the ledger keep its types, its graph, its settled rows, the agreement of its tables and its load bound under callers without discipline? | 3 runs of 2 actors, 2 workers, 1 event per run, limits of 1 (active and queued, per user and overall) |
| `one_run` | one run against everything at once: is there one execution, one worker and a backed outcome, is the promise kept, are leases resolved and queued runs dispatched? | 1 run, 3 deliveries, 3 messages, 2 events |
| `cancel_stuck` | does a requested cancellation complete? It does not | 1 run, 2 deliveries, 2 messages, 1 event |
| `guard` | does the guard cap executions while leases outlive them? | 2 users, 3 executions, 2 slots |
| `guard_stale` | does a stale owner leave the lease of its successor alone? It does not | 2 users, 2 executions, 2 slots, leases may expire |
| `order_book` | does the server keep its orders and its promise right against any agent and any report? | 1 order of 1 unit, 2 leases, 2 cancel commands, 3 events, 2 trades |
| `agent` | server, agent and broker: is an order placed once, and is what the server shows what the broker did? | 1 order of 1 unit, 1 stranger (filled), 2 leases, 1 command, 1 late request |
| `bridge` | is every batch stored once, in order, whole and only while allowed, and does the outbox drain? | 2 batches out of 6 readings, 2 credentials, 1 late request |
| `proposals` | are executions approved, outcomes recorded and decisions consistent when requests overlap and die? | 3 requests, 3 executions, 2 lost requests |
| `proposal_race` | are the transitions of a proposal enforced? Not when requests overlap | 2 requests, 2 executions |
| `order_ledger` | are holds covered, settlement and books right, decisions honoured, orders the sum of their fills, and is the promise kept, with prices in whole cents? | 3 keys, 2 match events, 1 asset, quantities 1 and 3, capacities 1 and 2, T+1, 2 sessions |
| `sell_stuck` | does the fill of a matched event fit its order's hold? Not of every SELL | 2 keys, 2 events, capacity 1 |

The type invariants (`TypeOK`, `LedgerTypeOK`, `ServerTypeOK`) and the inductive strengthenings
(`ClaimDiscipline`, `LeasesHeld`) are proved for all constants and are not repeated in the runs.

Why these bounds suffice.

- Runs: three deliveries are a worker that holds the claim, one that lost the race
  and one that comes after a crash or the reaper; a fourth adds no new role.
  `MaxMessages` counts unacknowledged messages per run: two make a duplicate, three a
  duplicate of a redelivery. `MaxEvents = 2` is a progress event followed by a stop
  event. In `ledger` every limit is 1 and both actors compete: three runs reach each limit,
  and an admission that counts across a claim reaches the sum of two.
- Guard: two users with two slots; the third execution meets a lease of its user, or slots
  that a failed call left taken. A stale owner and its successor are two executions.
- Orders: `MaxLeases = 2` is a lease that runs out and the one that follows,
  `MaxCommands = 2` a cancellation repeated after the first one failed. Two trades
  against a quantity of 1 make an overfill; three event ids are an event, its
  successor and a contradiction. One late request in `agent` may be an old
  acknowledgement or an old event, served in any later state. Orders share only the
  stop of the account, which any transition can already set; several orders are in
  the proofs. The stranger is a filled order that recovery may take for the agent's own,
  today's or an earlier day's. `Unsure` is empty in the run, where RECON already comes from
  a failed acknowledgement, a raised call and a candidate; the proofs have it arbitrary.
  `PollLimit` is the code's 200 and is not reached; see disagreement 10.
- Bridge: two batches are one that is stuck and one behind it; the readings hold a
  newer and an older quote, one that contradicts the first, one that validation
  refuses for ever and one it refuses until later, and a pair of batches from one
  reading. The second credential comes from a repair.
- Proposals: two requests overlap, the third comes while they do. Three executions
  are one, its repetition after a lost request and one more after a failure.
- Order ledger: with three keys an order, its rival and a direct trade share one balance
  (11 cents) that covers two BUYs of a share but not three. A quantity of 3 against a daily
  capacity of 2 is filled in two parts on two days; the capacity of 1 is what a second decision
  of the day finds after the first saw 2; two match events are a part and the rest, or
  two orders that compete for the capacity. `MaxSession = 1` gives the session of a purchase and
  the one in which it becomes sellable. A fee of 75 percent, at least 2 cents, makes the minimum
  matter to small fills and the rate to larger ones. One asset suffices for the runs, since
  assets share only the cash, as orders already do; the proofs have any number.

Bounds of the model rather than the code are all guards of the action that counts:
`MaxMessages`, `MaxEvents`, `MaxLeases`, `MaxCommands`, `MaxLate`, `MaxBatches`,
`MaxTokens`, `MaxCalls`, `MaxLost`, `MaxSession`.

Symmetry is used where no liveness is checked and no individual value is mentioned:
over runs of one actor and workers in `ledger`, users and executions in `guard`, event
ids and trades in `order_book`, requests in `proposals`, keys and match events in the
order-ledger runs. Deadlock is checked in
`guard`, `guard_stale`, `order_book`, `agent` and `bridge`. The runtime, the
ledger and proposals may really stop (all runs settled, no message left; a proposal executed
or expired), and so may an account whose keys are used up in its last session, so those
configurations switch it off.

### Fairness

The fair specifications assume what the code's schedulers and loops do, and nothing
of users, operators, the Agent, the market, crashes or losses.

- `Reap`, `Reconcile`: beat fires both tasks every minute
  (`core/settings/celery_schedule.py:6-17`), so a step that stays possible is
  taken. `Age` is the passage of time. `WorkerStep(w)`: a worker process that lives
  goes on; the Agent has an execution timeout and the task a soft time limit. A crash
  may take the step's place for ever, so this says nothing of a worker that always
  dies. `Republish(r)`: the reconciler's loop goes on to its end. `Republish(r) /\
  Publish(r)` is strongly fair: a publish may fail any number of times, not every
  time. The same holds of delivering a message while the emergency stop is off, and
  of winning a claim that is possible again and again.
- `MarketBridge.FairSpec`: the worker's loop goes on (`AskPlan`, `Send`, `Delete`,
  its timeout), and of the uploads it waits for, not all are lost before they are
  authenticated or answered.

`QueuedDispatched` is conditional on the emergency stop being lifted for good,
`OutboxDrains` on a binding that stays open with a worker that holds its credential.
`LeaseResolved` needs no condition.

No liveness is stated of the trading agent, because what one would want does not hold: the
end of an order at the broker reaches the server only if it is reported on the same day
(`NewDay` hides it from every later poll and from recovery), one event that the server
rejects cuts off those behind it at every poll, and an order that went to reconciliation
without being placed is left by nothing the agent sends. These are disagreements 10 and 11.

### Disagreements between documents and code

Each of the first four is a run that ends in a counterexample; the fifth is met in a variant of
a run.

1. `cancel_stuck`. The plan
   (`docs/plans/terminal-agent-multi-user-runtime-plan-2026-08-18.md:180`) gives the
   path `cancel_requested -> cancelled`. The worker acknowledges a cancellation only
   where it re-reads the row after `append_event`. Anywhere else the cancelled row
   fails the filters of `heartbeat`, `append_event` or `mark_finished`; the worker
   stops with a lost lease, and the reaper looks only at claimed and running rows. A
   queued or parked run has no worker at all: its cancellation never completes.
2. `proposal_race`. The plan of proposals
   (`docs/archive/plans/ai-native/M3-proposal-approval-execution.md:65`) says
   "transitions enforced server-side". The validation and the write are two database
   calls without a lock: of two operators who approve and reject at once the second
   overwrites the first. `TransitionsEnforcedAlone` proves that overlap is the only
   cause.
3. `sell_stuck`. A matched event that waits for its fill "must be processed first"
   (`local_daily_match_repository.py:785`): it forbids the next match and the cancellation. The
   hold of a SELL is what the proceeds of the whole order do not cover of its fee; a first
   partial fill owes the minimum fee out of a smaller gross, needs more cash than is held and is
   refused every time. `BuyMatchesFit` proves that a BUY cannot get there while prices are whole
   cents, `EveryMatchFits` that a SELL cannot either when no fill owes more fee than it brings in.
4. `guard_stale`. The plan of the runs (line 191) says "stale owner 不能删除新 owner 的 lease": a
   stale owner cannot delete the lease of its successor. The release reads the token and deletes
   the key in two calls, and a lease lasts 90 seconds (60 + 30) where a task may go on for 120: the
   key expires and changes hands between the two calls, and the successor's lease is deleted.
5. A hold is released "including when its account is inactive"
   (`order_reservation_repository.py:528`), but not while a matched event waits for its fill; the
   fill needs an active account, and an account with active orders cannot be started again. An
   account stopped between a match and its fill keeps the hold for ever (`~active => \A k \in Keys :
   Active(k) => Cancellable(k)` fails).

The following were met while modelling. Those on orders lie behind the closed gate
and cannot occur in the present build; PLAN is `docs/plans/qmt-live-trading-bridge-plan.md`,
BRT `broker_repository_agent_runtime.py`, EXE `qmt_agent/executor.py`.

6. A replayed submission publishes its run again (`queued_runtime_views.py:212`),
   where `governance/terminal_agent_runtime_contracts.json:167` wants a replay "without
   another Agent, MCP, broker, or external side effect". `AtMostOneExecution` shows
   that the extra message is harmless.
7. A lease can be given after a stop, because the switch is read before the leasing
   transaction (BRT:299 against PLAN:566), and an order can be placed after a stop that
   comes between acknowledgement and broker call (EXE:562 against
   `docs/operations/qmt-agent-runbook.md:124`). An approval and an acknowledgement read the
   switch without locking it, and a stop may commit before they do (BRT:405): what
   `KeepsOrderPromise` states is that no request passes which begins after the stop. The same
   endpoint takes an agent's word for any status, stopped or not: READY for an order nobody
   approved (which is sent back before it is submitted) and SUBMITTING without an
   acknowledgement (BRT:562-584). A resume clears the
   switch whatever happened since its blockers were read (`use_cases.py:608` against
   PLAN:569).
8. A human can approve a LEASED order back to READY while the agent holds the lease
   (`rules.py:57` against PLAN:351). Maintenance releases overdue leases without their
   orders, which the next lease request then no longer finds
   (`broker_repository_reconciliation.py:300` against
   `docs/architecture/adr-0002-qmt-local-execution-bridge.md:28`).
9. When an order never reached the broker, recovery stores the broker id of the only
   other order with the same asset, quantity and price; after one more restart that
   order's status is reported as a fact (EXE:169 against PLAN:408, which wants such a
   match reviewed). `OutcomeIsTheBrokers` therefore speaks of the final status only for an
   order whose recorded match is its own; its fills are the order's own in every case, and the
   placement properties do not depend on it.
10. Of more than 200 events in one poll the later ones are not posted (EXE:622 against
   PLAN:216), and one event that raises on the server aborts those behind it, at every poll
   again (BRT:550, 632, 641, 660). An event answered with reconciliation is stored and
   its repetitions are duplicates, so polls cannot resolve the order (BRT:572 against PLAN:235).
11. When the report of a final outcome fails, no step reports it again and the server
   keeps SUBMITTING unless the broker has the order (EXE:574 against PLAN:371), and shows
   it the same day (`qmt_adapter.py:1017`). An order in reconciliation that was
   never placed is left by no event the agent sends, and while it exists trading cannot be resumed.
12. The bridge plan (PLAN:1128) wants batches confirmed and cleared; a batch the server
   refuses for its content stays first in the outbox and keeps all later ones waiting.
   `OutboxDrains` excludes exactly that (`Blocked`).
13. `waiting_approval` counts as active and nothing resumes it, so with the default
   limit of one active run per user a parked run refuses further submissions of its
   owner until it is cancelled; `deadline_at` is stored and never enforced.
14. With `DECISION_SNAPSHOT_REQUIRED` the execution record of every proposal is refused,
   since `execution_output` never carries a `decision_input_snapshot_id`; the refusal
   comes after the capability was called and leaves the proposal approved.

## 4. Proofs

The theorems hold for every number of runs, actors, workers, orders, events, batches,
credentials, requests and assets, for all prices, fee rates and lags, and for all bounds, under
the assumptions named in the modules: markers are distinct from what they mark, limits and
bounds are numbers, a run has an actor, runs, orders, trades, keys and match events are finite
sets (they are counted or listed), readings are non-empty sequences of well-typed payloads,
event ids include those the agent makes, and the keys of orders are none of the keys of match
events.

**Ledger** (`RunLedgerProofs`). `LedgerTypeCorrect` is the base.
`LedgerStepIsRowStep` characterises what any operation does to one row; together
with two facts about the graph it yields `LedgerLegalEdges`, `LedgerSettledStays`
and, with types, the inductive `LedgerCheckpointAgrees`. `LedgerLoadBounded` is a
counting argument over an admission that is not atomic. `AdmissionDiscipline` is inductive: there
is one admission at a time (`OneAdmission`, the anchors), and what its counts found stays true
until it inserts (`StillCounts`), because everything but an admission keeps or shrinks the load
and the queue (`LoadOnlyShrinks`, `CountsOnlyShrink`). Active rows found below their limit and
queued rows within theirs bound the two together, disjoint parts of the load (`SplitLoad`), below
the sum of the limits, and so the admission of one row keeps it (`AdmissionKeepsDiscipline`). The
bound is the sum of both limits, not the active limit: that is the point of the theorem.

**Runtime** (`TerminalAgentRunProofs`). None of the runtime's invariants is inductive alone: "at
most one execution" needs to know that a worker about to start the Agent is the only one who
ever held the claim. `ClaimDiscipline` adds what is missing: an unclaimed row has no claimant,
executions or events (`Unclaimed`); a delivery inside the try block, or in its handler, is the
`claimed_by` of its row, which has left the queue for good (`HoldsClaim`); its label fixes the
number of executions and the started flag (`StartedOnce`) and what the log holds (`LogSoFar`).
There is one lemma per action that touches these, one step per conjunct. From it follow
`RuntimeTypeCorrect`, `ExclusiveExecution`, `SingleExecution`, `StopEventLast` and
`OutcomesWereExecuted`. `RuntimeImplementsLedger` says that every step is one operation of the
ledger or leaves it alone (`LedgerOperation`), so all ledger theorems hold of the runtime
(`RuntimeLedgerSafety`). `RuntimeKeepsPromise` is the refinement of `RunPromise`: `PhaseMoves`
maps each edge of the graph to a phase change, `PromiseStep` each action to an abstract step or
a stutter.

**Guard** (`ExecutionGuardProofs`). `GuardTypeCorrect` without further assumption;
`GuardCaps` assumes `LeaseOutlives`, which the configuration does not guarantee (see
`guard_stale`). The inductive invariant is `LeasesHeld`: what an execution believes it holds
is its own. Distinct running executions then hold distinct slots, an injection into
`1..MaxConcurrency`.

**Order book** (`LiveOrderProofs`). `BookInv` joins the types, the currency of previews
and the overfill rule; every server transaction is shown once to move each row along
`Rows` (one lemma per transaction), from which the invariant and `FinalStays` follow.
`BookKeepsPromise` is a second pass with one lemma per transaction (`Kept`): a
transaction that moves a set of rows is one step of `OrderPromise`. A read of the switches
maps to `Pass`, which needs `~stopped`; a creation, an approval and an acknowledgement spend
what passed; and `OnwardFacts` says that every status a report can lead to is onward of the
old one.

**Trading agent** (`QmtAgentProofs`). `PlacementInv` is local to the agent: an order at
the broker has a record in the store, a record is written before the broker is called,
and the call is reached only from a record just written, so `PlacedOnce` needs nothing
of the server. `PlacedIsAcknowledged` needs the other half: `SentInv` says that the
agent is past its acknowledgement only for an order that is approved and whose status on the
server is in `Acknowledged`, and `StatusStep` that no server transaction leaves that set.

**Outcomes** (`QmtAgentProofs` as well). Every request of this agent is one of `AnyAgent`
(`RequestsAreTyped`), so the lemmas of the order book, one per transaction, are reused for
`AgentTypeCorrect` and for `AgentKeepsOrderPromise`, the order promise under this agent. That
statuses are true needs messages that are true: `MessagesTrue` says of every event in the outbox
or on the way that what it tells holds, and `TruthStays` that it still holds when it arrives,
since what the broker finished stays finished and an order recorded as FAILED is past its
placement (`NeverPlaced`). `RowFrom` lists where an outcome on the server may come from: an
event, or a human cancelling what was never acknowledged, hence never placed (`SentInv`).
`FailedIsNotPlaced` and `OutcomesAreTheBrokers` follow without an assumption on which orders
look alike: a report about a stranger or about another order is recorded in `match` before it is
sent, and a settled record is not opened again (`ForeignStays`), so an order whose match is its
own was never told another's outcome.

**Bridge** (`MarketBridgeProofs`). `BridgeInv` says that the outbox always holds the
last batches made, in order, that what was deleted is stored, and that only its first
element can be on the way without a receipt, which a late copy never contradicts. Order and
`BatchesSurvive` follow; `ArchiveInv` adds facts and freshness; `BridgeKeepsPromise` maps
`Ingest` to `Store` and everything else to a switch, a new batch or a stutter.

**Proposals** (`AgentProposalProofs`). `RecordFirst` is inductive. `LicenceInv` has two halves:
`Licence`, whatever overlaps, ties executing requests and statuses to an approval; `Sequential`,
as long as nothing overlapped, says that at most one request is under way, that what it read is
still true, and that an approved proposal nobody executes has an approval to spare and that the
decision is shown (`DecisionShown`). `DecisionsAlwaysAgree` joins it with the direction that
needs no such premise, which is inductive.

**Order ledger** (`OrderLedgerProofs`). `CoreInv` joins five parts, none of which is inductive
alone. `HoldsCovered` needs `OrderSound` (an order never spends more than it reserved nor fills
more than its quantity, and an active one has something left) to know that a fill takes away no
more than its own hold; it needs `SettledOnly` to know that a release only moves shares from
pending to sellable; both need the types, and `MatchSound` ties every decision to an order and a
session that exist. The account holds a total over all orders, so each operation is first shown
to change one summand: `TotalChange` says how a total follows its only changed value,
`OrderWritten` and `TradeWritten` apply it to rows, `Released` to the rows a release changes. There
is one lemma per operation.

On top of `CoreInv` come further inductive invariants, each with its own. Cash and positions
follow from the rows (`BooksAlwaysReconcile`). A pending match stays fillable in quantity and
price, since it blocks every other operation on its order (`MatchesAreHonoured`).
`CapacityIsKept` is about every decision with whatever capacity it read: what is matched before
it fits (otherwise it is refused), and it adds no more than the room left (`RecordFits`). Every
counter of an order is the sum over its fills, and the fees of the fills telescope to the fee of
the cumulative gross (`OrdersAreTheirFills`). `BuysBacked` says that what a BUY holds pays the
rest of its notional at its limit with the fee, because the fee is monotone in the gross
(`FeeMonotone`) and whole-cent prices are not rounded (`GrossExact`); `BuyMatchesFit` follows,
and half-cent prices break it. `EveryMatchFits` delimits the counterexample of `sell_stuck`: if
the fee that a fill adds never exceeds its proceeds (`SalesPayTheirFees`, required only of
market prices and whole steps), every matched event can be filled. `HistoryIsKept` lists what no
operation rewrites. `LedgerKeepsPromise` is the refinement of `HoldPromise`: `PromiseSteps`
gives the abstract steps in terms of free cash, holds and stages, and one lemma per operation
finds its step; `CoreInv` supplies that free cash is never negative.

Only model-checked: liveness under fairness (`LeaseResolved`, `QueuedDispatched`,
`OutboxDrains`), which is out of the prover's reach; that `Total` is the sum a
fold computes, which would need induction over data; and the four counterexamples.

## 5. Not modelled, and why

- Payload validation, redaction, ownership of reads, SLO evidence and the list and
  detail routes: they change no state the properties speak of.
- The language model, its MCP tools and capabilities. An execution is one step.
- Agent tasks: a task leaves its first status only by resume and cancel, the two callers
  of `update_task_state`; proposals write events of a task (`awaiting_approval`,
  `approved`) without moving it, and a hand-off is one read and one insert.
- Of the trading agent: dry runs; the pause, resume and `full_sync` commands, of which the last
  polls and posts the same events once more, between two commands, and uploads a snapshot; account
  snapshots; and the market data of the adapter. Of the server: access control, idempotent replays
  of creation, reconciliation of snapshots.
- Of simulated trading: replays (they return the stored row), the legacy writers, position
  adoption, broker projections and the deletion of an account (all refuse while orders are
  active), cost basis and profit, a reset to another capital, the calendar and the evidence that
  plans, matches and corrections carry, and the clock within a session.
- Decision rhythm: its managers keep quota and cooldown in memory for one request; the stored counts
  are changed by administrative operations only, and no two processes share what is checked.
- `EventRetry`: nothing in production calls the retry of failed events.
- PostgreSQL isolation below row locks: a transaction that works on one row or one account
  takes its lock first and is one action. What is read without that lock is an action of its own:
  the counts of an admission, which locks the anchors and not the runs that workers claim; the
  kill switches, which creation, approval and acknowledgement read under another row's lock; and
  the proposal use cases, which take no lock and are modelled call by call.
- The numerical, reporting and presentation applications (see the inventory). They are
  most of the repository's lines and hold no shared control state.

## 6. Plan

Done: the runtime with its guard, live orders with the trading agent, the market
bridge, proposals, the simulated order ledger, and their theorems. Left, in this order:

1. Broker reconciliation and snapshots on top of `LiveOrder`: differences stop trading.
2. `OrphanPolicy` of the task monitor as pure operators against a reference definition.
