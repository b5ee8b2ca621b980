# TLA+ verification of liangjian-funnel

`liangjian-funnel` is a research and paper-trading workflow for the Chinese
stock market.  Before the market opens it screens the market in stages (A1 to
A3), publishes *execution plans*, monitors them minute by minute (A4), fills
simulated orders, and reviews the day (A5).  Its arithmetic is ordinary; what
is hard is that everything is done by **short-lived processes that share SQLite
files**: a Node server starts a Python command for every slot and every minute,
a slow command is killed, a second one starts while the first still runs, and
every command makes several transactions with unguarded work in between.

Everything below is relative to the repository root, mounted at `src/`.

Contents: 1 inventory, 2 plan, 3 the modules and the code, 4 the runs and their
bounds, 5 the proofs, 6 what the code does otherwise than it says, 7 what is
not modelled.

## 1. Inventory

| component | state | operations | what is hard | what makes it correct | status |
|---|---|---|---|---|---|
| Node job runner and scheduler (`server/runner.ts`, `scheduler.ts`, `index.ts`) | slot table, timers, dispatch and retry keys, follow-up flags, handoff file | dispatch, timeout, SIGTERM, SIGKILL, hard finish, retry, stop | ticks that wait with an old clock, promise reactions after stop, children that outlive SIGKILL or the server | one process per slot, slots come back, nothing before the integrity job, one start per key, no follow-up lost | `JobRunner`, `WorkflowScheduler` |
| Scheduler lease (`runtime/scheduler.py`, `RuntimeStore.*_lease`, `process_identity.py`) | one row per schedule kind: owner, expiry, dispatch key, state | acquire, renew, complete, release, reclaim from a dead owner, MISSED report | dispatchers read the clock long before they use it; a heartbeat thread; kill at any point | one callback at a time, a success is not repeated, a killed minute is not replayed, one MISSED report | `SchedulerLease` |
| Execution plans and reviewed batches (`RuntimeStore.publish_plan_batch` ... `record_monitor_event`, `reviewed_batch_switch.py`, `close_regeneration.py`) | plan rows, supersessions, monitor events, candidates, staged bundles, pointer | publish, activate, invalidate, expire, regenerate, stage, switch | five kinds of writers that read minutes or hours before they write; replays | one status machine, an active plan was activated on its day, no batch is half replaced, an event is final | `PlanLifecycle` |
| A1 generation registry (`pipeline/a1_registry.py` and its users) | generation manifests, one current pointer | create, seal, fail, activate, ensure, consume, study | builds of hours from a pointer read before; a close that refreshes by itself | the pointer names a sealed generation, generations form one line, the close uses a pool of its day | `A1Registry`, `GenerationLineage` |
| Bounded work gate (`runtime/bounded_work.py`) | slots and in-flight keys | call, run_many_bounded, worker exit | a worker outlives its caller; a wait between two tests of a key | never more workers than slots, one worker per key, slots come back, callers return | `BoundedWork` |
| Paper broker ledger (`liangjian_paper_broker/`) | cash, orders, lots, fills, bars, sessions, risk days, settlements | admit, cancel, cancellation session, bar, open risk day, settle | partial fills over shared volume, minimum commission, T+1, retried sessions | cash and shares covered, fees once per order, sessions and days answered once | `PaperLedger` |
| Signal settlement: A4 lifecycles and the paper account of the runtime store (`record_monitor_event`, `_settle_prior_signals`, `PaperBroker.apply`, `commit_fill`, `reserve_simulation_order`) | signals, lifecycle of each plan, account, positions, lots, fills, reservations, quarantine | signal, invalidate, settle, reserve, commit, release, T+1 release, quarantine, missed window | one signal takes four transactions, monitors overlap, a persistence error hides the outcome | no update lost, dead signals unfilled, money promised once, reservations given back, lifecycles add up to the position | `SignalSettlement` |
| Notification policy, internal outbox, customer notices (`notification_policy.py`, `team_v2_internal.py`, `lark_notifications.py`, `notification_delivery_ledger.py`) | events and groups, outbox rows, delivery receipts | observe, claim, enqueue, flush, publish, record | two databases per notice, kills between claim, post and record | at most one post of an alert, a merged notice is summarised, one call per card, no row waits for ever while commands run | `Notifications`, `AtMostOnce` |
| Provider governance (`RuntimeStore`, `state.py` 4995-5330) | request windows, circuit breaker | admit, record, trip, probe | concurrent callers | budget kept, one half-open probe | section 7 |
| Research runs (`RuntimeStore` runs and stages) | run and stage status | start, finish, recover | restart while a run is RUNNING | legal transitions only | section 7 |
| Feature store generations (`pipeline/feature_store.py`) | generations, active pointer | build, seal, activate | the same as A1 | the same as A1 | section 7 |
| Workflow orchestration (`workflow.py`, `cli.py`) | none of its own | calls of all the above | the order of its calls | taken over by the modules of the stores it calls | - |
| Research pipeline, strategies, data sources, evaluation, review, team V2 sessions, publication archive, console | files and caches | computation | - | - | section 7 |

How they interact: the Node scheduler starts commands through the runner; a
command that is scheduled by Python too (`run-scheduled`) takes a scheduler
lease first.  The close command reads or refreshes the A1 pointer, computes A2
and A3 with the bounded work gate in front of its data sources, and publishes
plans.  The morning command and the minute monitor activate and end plans; the
monitor emits signals for them and settles the signals of earlier minutes against
the paper account; the broker of the team sessions fills admitted orders; alerts and
cards go out through the notification policy; outcomes, settlement and the team
reviews follow the close, started by flags of the Node scheduler.  The shared
state is SQLite (`BEGIN IMMEDIATE`, so a transaction is one atomic step of the
models) and a few files; nothing else synchronises two processes.

## 2. Plan

In the order of importance of what may go wrong:

1. `SchedulerLease` (mutual exclusion of the commands) - done, with proofs
2. `PlanLifecycle` (what is traded tomorrow) - done, with proofs
3. `BoundedWork` (threads, deadlines, liveness) - done, with proofs
4. `A1Registry` implementing the abstract `GenerationLineage` - done, with proofs
5. `PaperLedger` (money) - done, with proofs
6. `WorkflowScheduler` composed with `JobRunner` (who starts the commands) - done, with proofs
7. `SignalSettlement` (from a signal to the paper account) - done, with proofs
8. `Notifications` implementing the abstract channel `AtMostOnce` - done, with proofs

Next: the composition of `PlanLifecycle` with `SignalSettlement`, whose only common
variable is the status of a plan (`ended` here, the plan rows there); a second
instance of `GenerationLineage` for the feature store; the provider windows and
breaker, if their callers turn out to make more of them than one transaction each.

## 3. The modules

Every module states in its header what it takes over and what a time unit is.
`MC*` modules give the constants of an instance; `*Proofs` modules hold theorems
only.  Operators introduced by "A bug:" are single wrong versions of a
definition, used to see that a property notices it; no action uses them.

**SchedulerLease.**  One row of `scheduler_leases` and the processes that run
`dispatch_once`.  A process is one command: `Start` captures the clock
(`current`), `Probe`/`ProbeMissed` read the row, `Reclaim` deletes the row of a
dead owner, `Acquire`/`AcquireMissed` take it with the captured clock,
`Heartbeat` renews it, `HeartbeatFails` loses it, `CallbackReturns`, `Complete`, `CompleteMissed`,
`CompleteFails` and `Release` end it, `Crash` may happen anywhere.  A schedule kind is an instance, since rows
of different kinds do not meet.  `MaxLag` bounds the time between the reading of
the clock and the acquisition; in the code nothing does, since the clock is read when
the process starts and `run_scheduled` may keep it over the A1 maintenance
(`workflow.py:6765`).  The history variable `late` collects the processes that wrote
the row with an *outdated* clock: one of another minute, of the other side of the
slot's deadline, or so old that the expiry it wrote had already passed (`Outdated`).
`Exclusive` holds whatever they do.  The three action properties hold as long as
`late` is empty, and each is paired with what happens otherwise (section 6).

**PlanLifecycle.**  Plans of one lane; a day has five ticks (before 09:26,
09:26, 09:32, until 15:00, after 15:10), which are the only moments at which the
writers differ.  Publications (`close`, `sameDay`, `regen`, `candidate`,
`empty`), the morning review, the two recoveries (monitor and operator), the
monitor's terminal events, staging and the compare-and-swap of a reviewed batch.
Every writer is split where the code reads first and writes later: `ReviewRead`
and `ReviewActivate`, `StageBundle` and `CommitSwitch`, and so on, with `Abandon` for a process that dies in between.
Abstractions that matter: `CommitSwitch` takes its clock up to one tick before it
writes, because the write lock may be waited for (`now <= switch.wall + 1`); the
clock injected by the operator's `--as-of`, the single day of
`morning_window_authorization`, tighten-only publications and regenerations from
an empty source are left out.  A published payload carries no session of its own,
so that an operator's recovery can activate the plan of a later session with a
shortened horizon; the model does so too.

**BoundedWork.**  `call` is split at each of its tests of the key, the slot and
the deadline; the worker's end is split into answer, unregister, release, put.
`late` is the set of callers whose deadline has passed, so that a deadline may
fall between any two steps.  An operation may never answer.

**A1Registry** and **GenerationLineage.**  Weekly maintenance, the refresh that a
natural close makes by itself, updates from a seed, and studies.  A generation is
named by the process that builds it; a killed process takes no further step.
`GenerationLineage` is what the users of the registry rely on: the pool in force
is replaced by a pool derived from it, and a reported study had its pool in force
from beginning to end.  `A1Registry` implements it (`Implements`), with the
refinement mapping at the end of the module.  Weekly builds start in a
session's evening and read clock and pointer within that session; a capture takes
at least one instant; the two readings of the pointer of an update are merged (a
pointer that changed never returns, and the seal check would refuse).  Coverage
gates, ages and contract checks are left out.

**PaperLedger.**  The database is one record; `on_bar`, which decides order after
order, is a transaction of several steps on a copy (`BeginBar`, `ExpireNext`,
`SkipNext`, `FillNext`, `CommitBar`, `Rollback`), everything else is one step.
Fees are exact (thousandths, rounded as `money` does, minimum commission once per
order); prices, volumes and the participation limit are small integers.  Amounts over
a table are written with one helper, `Sum`, a fold over a finite set; that the signals
and the plans are finite sets is an assumption for that reason.  A bar is
the minute just closed (`run_control_minute`) or the one of 15:00 at any later
time.  Left out: cost basis and realised profit, fills at estimated prices, halt
reasons, reports, `place_order` outside admissions, and the shift by one minute of a bar
that is labelled by its end (`team_v2_control_minute.py:56`): `DueBar` names the minute
that a bar covers.  A limit price is not above
the no-chase price, as the admission checks it.

**JobRunner** and **WorkflowScheduler.**  The event loop of the Node server.  A
callback (tick, timer, end of a child) is one step; promise reactions follow as
steps of their own before the next callback: `queue` (calls of `dispatch` still
to be made), `parked` (ticks behind `await integrityFlight`), `busy` (BUSY answers
whose `.then` has not run).  `Idle` says that none is left.  A run is a record
with the timer that is armed (timeout, escalation, hard finish), the strongest
signal sent and, for the history, whether `stop` found it in its slot.  Processes
obey nothing: they exit at any time, survive SIGTERM, a SIGKILL and their server.
Exit and close event are one step.  Time does not depend on the children, with one
exception: a retry timer lasts five seconds (`scheduler.ts:114`) and the integrity
job ten minutes (`runner.ts:46`), so that none of one day, nor a tick that waits for
it, lives through the first instant (the hours before 06:50) of the next
(`NothingOverslept`).  `TimetableAssumption` says what the proofs use of the
timetable: a job that the integrity gate does not hold back is due at one instant
only, a daily key is not ahead of its instant, a job that is retried is due at one
instant and retried from it on, and the integrity job, the comparison and team-eod
are due by no clock.
Weekends, the throttles on `lastDispatch`, `team-morning-pm` and exit code 75 are
left out; a command that cannot be spawned is a run that closes at once.

**SignalSettlement.**  A monitor process settles one symbol in a run: `Begin` opens
the session (T+1 release, check of dead lifecycles) and lists the effective signals;
for each one, in the order of `First`, `Replay` finds a fill made before, `Pass`
has nothing to do, `ReadEntry` and `ReadExit` are the first half of
`PaperBroker.apply`, which reads account and position (`Snapshot`); `Reserve`,
`Commit` and `Release` are the transactions that follow.  `ReserveLost`,
`CommitLost` and `Crash` are the persistence errors, where the transaction may or may
not have happened, and deaths.  `commit_fill` is one transaction and so one step; its
conflict checks are `StillAsRead`.  Signals come from `BuySignal`, `AddSignal`,
`ExitSignal` and `PlanInvalidated` with the guards of `process_minute` and
`_emit_effective`; each carries what the one bar after it allows ("fill", "nofill",
"gap"), since that never changes.  Prices and fees are constants; a refusal for a
reason outside the model (participation, session times, corporate actions) is
`Pass` or `ReadRefused`, which are always possible.  `Fits` is the comparison with the
free cash; the limits per account, symbol, risk and theme beside it
(`state.py:4809`-`4816`) only refuse more, with the effect of `ReadRefused`.  A reservation is worth
`LimitPrice * Qty` and its fill costs less, as the code reserves at the limit.  Sums
over fills, lots and reservations are folds (`Sum`); symbols, plans and signals are
finite sets.

**Notifications** and **AtMostOnce.**  The policy ledger, the outbox and the customer
receipts are three databases: `EnqueueObserve` commits to the first while the
transaction of the second is open (`writer`), `EnqueueCommit` ends it.  A flush
command is `FlushClaim`, `FlushSummary` for each claimed group, then
`FlushTake`, `FlushPost`, `FlushRecord` row by row; a publisher is
`PublishObserve` or `PublishClaim`, then `PublishCall`, `PublishPost` once or twice
(the client's own retry) and `PublishRecord`.  Tick 0 is 08:45; a command begins only
until `CloseAt`, 17:55 (`Delivering`), while notices may be produced and published later.
Any process may die between two steps (`orphans` remembers what died with it) and
the destination may be removed and written back (`Configure`).  The answer of the
webhook is accepted or in doubt: REJECTED and UNKNOWN differ for no reader.
`AtMostOnce` is what the readers of the channel rely on; `PostedOnce` is the
refinement.  A failure to render an alert is a doubt without a post.  Left out: kinds that are
delivered at once or twice by rule (`IMMEDIATE_KINDS`, `DUAL_KINDS`), internal copies
of customer notices and failure notices.

### Fairness

`BoundedWork` and `Notifications` state liveness.  `FairSpec` of `BoundedWork` assumes weak fairness of each
caller's steps (a thread that can run is scheduled), of a worker's finalisation
after its operation ended, and of the passing of a deadline (time passes).
Nothing is assumed of `Answer`: an operation may hang for ever, which is what the
gate is for.  `Notifications` assumes weak fairness of an open enqueue transaction, of
the start of some flush command while their window lasts, and of the steps of
a command that is alive; time, producers, publishers and deaths are free.  The scheduler
starts a command every minute from 08:45 to 17:55 of a trading day
(`scheduler.ts:185`), and one that is started at any other time returns at once
(`team_v2_internal_command.py:16`-`19`); so nothing is assumed after the close, and on a
day off there is no window at all.  `PendingIsTaken` therefore says: as long as the
webhook is configured and the window lasts, a pending row is taken.  A row that is
queued after 17:55, or is still pending then, is never sent, because later commands read
the rows of their own day (`team_v2_internal.py:227`), and a group of the day that opens
after the last command is never summarised.  In `WorkflowScheduler` "the slot comes back" is stated as safety
instead, behind every held slot is a run with an armed timer
(`SlotsHeldByPending`): the liveness form multiplies the state space beyond use.

`CHECK_DEADLOCK FALSE` appears in every configuration because time, starts or
attempts are bounded and processes end; the last state of a run is not an error.

## 4. Runs

| run | instance | distinct states | shows |
|---|---|---|---|
| `lease` | 3 processes (symmetric), TTL 3, minutes of 2 ticks, 5 ticks, lag 2, a row keyed by minute or by one slot that is missed after tick 2 | 2.8 million | covered callbacks never overlap; unless a process wrote with an outdated clock, a recorded success is not rerun, a killed minute is not replayed, and there is one MISSED report, none after a success |
| `lease_record` (violation) | a slot that is missed after tick 1, lag 1 | - | late processes report a completed slot MISSED and run it again, see section 6 |
| `lease_late` (violation) | a monitor, lag 1 | - | a late process replays the killed minute, see section 6 |
| `plans` | either a close batch, a same-day recovery for that session and the batch of the next session, over two days, or a close batch, its regeneration, a reviewed candidate and an empty result for one session; one plan each (`SessionOrReplacement`) | 1.1 million | active plans, final events, one pending run, recoveries that do not mix batches, exact supersession records, total replacement |
| `work_gate` | two calls of one key (one waits for a slot) and a batch, two slots, threads that may not start | 134 thousand | accounting, key exclusion, refused work never ran, everything given back, callers return |
| `a1_registry` | one weekly FULL build, one close, one update, one study, 4 instants over two sessions | 1.9 million | lineage, days, refinement of `GenerationLineage` |
| `paper_ledger` | two BUY and two SELL orders (market and limit, round lots and odd shares) of two plans of a symbol, one session, two days of two minutes, two bar shapes, rates at which every sale pays for its fees, cash for one BUY order or for two after a partial fill; a session or a second sale | 0.9 million | cover, T+1, fees, sessions, settlement, peak |
| `scheduler_day` | seven jobs over three slots, one weekday of five instants, one restart, one survivor, one overdue run | 880 thousand | slots, gate, keys, follow-ups, orderly exit |
| `settlement` | two plans of two symbols, two monitors (symmetric), one day of three minutes, one ADD for each plan, cash for one reservation | 459 thousand | no lost update, dead signals unfilled, cash covers the reservations, clear failures release |
| `settlement_days` | two plans of one symbol, one active on each of two days of two minutes, two shares, two monitors (symmetric) that overlap only as long as one plan has signals (`OverlapOnOnePlan`) | 231 thousand | types, T+1, lifecycles add up to the position |
| `settle_exit` (violation) | the same with one monitor | - | exits under another plan, see section 6 |
| `notify` | either two alerts, their summaries and two flush commands, or two cards, their summaries and two publishers (`OneChannel`), one death or loss of the webhook, the last ticks of the window and one after it, budget 2 | 230 thousand | refinement of `AtMostOnce`, merged notices told, one call per card, no row waits for ever in the window |

Why the bounds are enough.  *Lease*: three processes are a killed owner, the one
that reclaims and the one that races it; five ticks are more than two minutes, so
that a row outlives its minute; two ticks of lag are a minute, so that a process acquires
with the clock of the minute before.  *Plans*: two sessions, because the interesting
mistakes carry a reading from one session into the next; three or four runs,
because a replacement involves the replaced, the replacing and a third party.  The
constraint `SessionOrReplacement` keeps the runs of a replacement out of a behaviour that
has a second session; the proofs do without it.
*Work*: the two calls of one key and a batch can hold more than the two slots; the
safety properties are proved for any number.  *A1*: one process of each kind over
a change of session, which gives every order of two builds and a study around it.
*Ledger*: two SELL orders are open together against the shares of one plan, also after one
of them was filled in part; the two BUY orders reserve 13 and 3 of a capital of 13, so that
the second is refused beside the untouched first, and is admitted beside it once the first
was filled in part at a price below its cap: the two then reserve exactly the cash, and one
bar can fill both from it; all orders share the volume of a bar; the constraint
`SessionOrSecondSale` gives a behaviour a cancellation session or the second sale, since a
session cancels BUY orders only (the proofs do without it); two days show T+1, settlement and the next day's basis; the second bar shape has no close
and leaves a position unmarked; with rates of a half, a quarter and an
eighth of the notional (so that they round) and a minimum commission of one unit every
sale of the instance pays for its fees, which `Covered` needs (section 6).  *Scheduler*: the five instants are the night, the
minute of a monitor, the close, outcomes and team-eod; four identifiers are the
three slots and one survivor; with one restart a server meets what its predecessor
left.  *Settlement*: two monitors, because a conflict has two sides, and a commit has
its snapshot, a foreign commit and its refusal within three minutes; two symbols, so
that the account is shared and the position is not; the second instance gives up most
of the overlap for a change of session, with a position that outlives its plan and an
exit that two monitors hold at once.  *Notify*: a
second notice of a channel is what can be merged or, for alerts, be over the budget; `MaxEarlier`
puts the first one at the budget; two commands or two publishers overlap at every pair of
steps and the one death hits every step in turn; the tick after the close has producers
and commands that are still running, and no new command.  The channels meet in nothing but
the number of faults, so that `OneChannel`, which keeps a behaviour to one of them, leaves
out no interaction; it never cuts a step of the internal channel once there is an alert, so
that it does not weaken `PendingIsTaken`.  The proofs do without it.

The clock of a dispatcher is captured when its process starts.  `SuccessIsFinal`,
`KilledMinuteStaysKilled` and `MissedIsFinal` are restricted to behaviours in which no
process has *yet* written the row with an outdated clock; within them a process may be as
late as `MaxLag` allows, and late processes that write nothing are part of them.  Without
the restriction each fails at a lag of one tick: `lease_record` and `lease_late` are those
runs, and the trace of `lease_record` also breaks the unrestricted form of
`MissedIsFinal`, since it reports MISSED after a success.

Properties that say one thing in parts are checked as one: `GateSound` of
`BoundedWork` (slots accounted, one worker per key, refused work never ran),
`ActiveLine` of `A1Registry` (sealed, unforked), `CostsForeseen` and `AnswersFinal` of
`PaperLedger`, `StartRules` of `WorkflowScheduler`; the parts keep their names.

Every property of a passing run has a wrong version of one definition that it
notices (`mutants` in `PROJECT.json`).

## 5. Proofs

All theorems hold for every value of the constants that satisfies the named
`ASSUME`s of the modules (which TLC evaluates in the runs).

| module | theorems | argument |
|---|---|---|
| `SchedulerLeaseProofs` | `TypeCorrect`, `MutualExclusion`, `SuccessNotRepeated`, `KilledMinuteOver`, `OneMissedReport` | *Covered*: a process in its callback with a live heartbeat and a row acquired in time **is** the owner of an unexpired ACTIVE row. Two helpers: nobody holds a clock of the future, and a row is reclaimed only from a dead owner. The action properties are about what the row remembers: a success of this minute or slot is in the row (*CompletedRow*), a monitor that runs or was killed owns an ACTIVE row that outlives its minute (*InMinute*), a report stays (*MissedRow*); *Deeds* says that a reclaim is of an earlier minute than the clock of who reclaims, *Missing* that nothing but another report can come between the look at the row and a MISSED report. No bound on the lag is assumed: a process that wrote late stays in `late` (*LateStays*), and as long as there is none every writer's clock still had the minute, the side of the deadline and the unexpired row of the present (*Prompt*), which is all that these facts need (*PromptSoFar*). |
| `PlanLifecycleProofs` | `TypeCorrect`, `EventTerminal`, `ActiveSession`, `PendingFromOneRun`, `Supersession`, `TotalReplacement`; with *MonitorOfToday*: `RecoveryJoinsItsBatch` | A plan only moves forward (*StatusStep*); what a process holds is older than now (*ProcessSound*); so an active plan was activated after 09:26 of its day, which is after every moment at which a candidate can be staged. For the monitor's recovery: what it may activate is no same-day batch (*Proven*), beside such a pending plan no other run's plan for the same session is active (*Beside*), and an active plan that was shortened to an earlier horizon was published in the evening, when nothing but a same-day batch was still pending for that horizon (*Evening*). |
| `BoundedWorkProofs` | `TypeCorrect`, `KeysExclusive`, `RefusedNeverRan`, `SlotConservation`, `GateIsSound`, `EverythingGivenBack` | *Threads* ties callers to their workers, *KeysHeld* and *KeysOwned* say who holds a key and that a held key is held by somebody who is not done, and every step moves at most one slot (*SlotStep*), which turns the sum into a step on a cardinality. |
| `A1RegistryProofs` | `TypeCorrect`, `SealedForever`, `OneLine`, `LineOfSealed`, `Monotone`, `CloseOfItsDay`, `Implementation` | Three layers: types; *Lines*, the generations that were ever active form one line, so the pointer never returns to a value it had; *Days*, no build is of an earlier session than its basis. The refinement of `GenerationLineage` needs *Lines*: comparing the pointer first and last is enough for a study only because of it. |
| `PaperLedgerProofs` | `BudgetKept`, `FeesOncePerOrder`, `OneAnswer`, `SettlementFinal`, `CostsAsForeseen`, `Finality`, `LedgerTypes`, `EverySaleIsBacked`, `NothingSoldOnItsDay`, `OpenedBelowThePeak`, `CashCoversOrders` | Invariants of one database content, which hold of the committed one and of the copy of a bar; a transaction also remembers that its day is not settled and that the orders it still has to visit are open. *Sound*: orders, fees, sessions, settled days. *Typed*: no lot and no cash below zero. *Shares*: the lots are what was bought and not sold, day by day; a step leaves the shares alone (*Calm*) or is one fill (*FillMove*), whose FIFO takes from the oldest lots exactly what it sells (*TakeTakes*). *Peaks*: the peak covers every net value that marks of one minute prove. *Cover*: the cash covers what the open BUY orders may still cost. |
| `WorkflowSchedulerProofs` | `TypeCorrect`, `SlotsHeld`, `SlotsExclude`, `OrderlyExit`, `StartsFollowTheRules`, `FollowUpsRemembered` | `SlotsHeldByPending` is inductive with *Laddered* (a run whose last timer is armed, or that was given up, was sent SIGKILL), which also gives the exclusion; *Marked* (stop has found every run that was pending) gives the exit; types need *Asking* (a BUSY answer still to be heard has a key). The runner's steps are lemmas of their own, used by the scheduler's. For what is started, each key that is asked of a job, in the queue, in a BUSY answer or in a retry timer, is followed back to the clock of the tick that asked: *Plain* (a job is asked for one key at a time), *Down* (a server that is gone asks nothing), *Timely* (a key names an instant that was reached), *OnceInv* (no key that was started is ahead of a clock that may still ask for it), *ReadyInv* (what is asked from 06:50 on is of a day that is ready), *OwedInv* (what is owed is still asked, or a flag or timer will ask). |
| `SignalSettlementProofs` | `DeadUnfilled`, `NeverPromisedTwice`, `FailureReleases`, `SettlementTypes`, `AccountIsItsFills`, `SettledOnly`, `LifecyclesAreThePosition` | Six layers. *Runs*: the shape of what a monitor holds at each step. *Lives*: a plan with a purchase has an entry quantity and a status that is not dead, and a live lifecycle that was entered still has something left, so an invalidation of it is an EXIT_PENDING. *Money*: reservations are covered by the cash and in the hands of a run or unsure; a step opens or ends at most one, and a fill takes no more than its reservation was worth. *Clocked*: no run is left over from an earlier session and entries are filled in the session of their plan. *Books*: fills, position, lots and cash agree, and so does every snapshot whose conflict checks still pass. *Counted*: what is left of a symbol's lifecycles is the sum of the fills they counted, and an uncounted fill is one of the two kinds that `LifecyclesFollowPosition` excepts. |
| `NotificationsProofs` | `TypeCorrect`, `AtMostOncePosted`, `MergedTold`, `CalledOnce` | *Taken*: a row held by a command is SENDING and held by one command only, and what is queued or about to be posted was never posted; so a step of the system is a step or a stutter of `AtMostOnce`. *Told*: a merged notice is placed in a group with a duplicate or of the day, which is open or claimed. *Owed*: a key is in the hands of at most one publisher, and in nobody's before its notice was observed or its group claimed. *Wired*: what is on the wire of a key is what the one call for it has posted so far. |

Sums.  `PaperLedger` and `SignalSettlement` add up tables with a fold over a finite set.
The library's facts about folds and its induction take an operator as a parameter, so the
proofs start from the recursive function behind the fold and show what they need by
induction over the subsets of a finite set (*SubsetInduction*, which has a set for the
predicate and rests on the well-founded order of the strict subsets): the sum of the empty set, of a set and one more element,
of two tables that agree, that differ in one place, or that add up.  Everything after
that is about the one order, lot or fill that a step touches.

`CashCoversOrders` has a hypothesis, `SalesPay`: no fill of a SELL lowers the cash.  The
code does not enforce it (section 6); without it the theorem is false.

`RecoveryJoinsItsBatch` has a hypothesis too, `MonitorOfToday`: a round of the monitor ends
on the day on which it began.  The Node runner kills a monitor after 58 seconds
(`server/runner.ts:43`), so its rounds do; nothing in the Python code does it for a round
started by hand.  Without the hypothesis TLC refutes the property on another instance
than the run's: a monitor's recovery stalls overnight, a reviewed candidate is switched in
the next morning, an operator's recovery of the day before shortens it to its own session,
and the monitor then activates the old batch beside it.

Only model-checked: liveness (`CallersReturn`, `PendingIsTaken`), which the provers do not
reach.

## 6. Where the code does otherwise than it says

Found while modelling, each shown by a run that TLC finds violated:

* `lease_late`: the reclaim of a dead owner's row is a deletion and, in a second
  transaction, an acquisition.  A late process of the killed minute, which read
  the clock before the death, acquires in between and replays the minute that
  `runtime/scheduler.py:162` says is never replayed.
* `lease_record`: the row is compared with, and written from, the clock that the process
  captured at its start (`runtime/scheduler.py:122`, `172`).  A process that acquires a
  slot after its deadline with a clock from before it completes the slot; another, which
  looked at the row before and found nothing, writes MISSED over the success; a third with
  an old clock finds a key that is not its own and runs the slot again.
  `AUDIT_REMEDIATION_2026-08-25.md:55` says that the "completion state prevents duplicate
  completed work", and the comment at `runtime/scheduler.py:141` that a completed job is
  not reinterpreted as missed.
* `settle_exit`: a position that is still held when another plan of its symbol becomes
  active is left out of the monitor's scope (`runtime/monitor.py:158`), although the
  comment above says "Presence of another active plan must not hide such a position".
  Its strategy exits carry the new plan and the settlement skips them
  (`workflow.py:8375`); the hard stop alone uses the plan of the position.

Smaller observations, without a run of their own.

*Work gate.*  `run_many_bounded` acquires a slot and starts a thread without a handler
(`bounded_work.py:160`); a thread that does not start loses the slot for the life of
the process, where `BoundedWorkGate.call` handles the same failure; `StartedGivesBack`
speaks of started work for that reason.

*A1.*  A close that refreshed A1 itself judges the new generation at the time before
the refresh (`workflow.py:2862`), and refuses it as of the future.  An exception after
`activate_generation` returns FAILED although the pointer has moved
(`workflow.py:3334`-`3365`).

*Scheduler.*  A tick that awaits the integrity job dispatches what was due at the clock
it had read (`scheduler.ts:165`), so that the auction evidence of 09:25:03 is started
when the integrity job ends.  Outcomes after the close replaces the key of 16:10
and, when BUSY, removes the job from `inFlight` while the first run goes on, so
that 16:10 can be dispatched twice in its minute.  After a restart a close that is
run again makes team-eod run again.  Reactions after `scheduler.stop` can start a
comparison or resume a parked tick, and `runner.stop` does not see those children
(`era = "late"`).  "Node keeps them from running concurrently" (`README.md:135`)
holds up to a process that survives its SIGKILL and the orphans of a killed server,
which is how `OneProcessPerSlot` states it.

*Paper ledger.*  A SELL whose proceeds are below its
fees (a few shares under the minimum commission) lowers the cash below what open orders
reserve; `on_bar` only refuses it when the cash falls below zero.  `Covered` therefore
holds of the sales that pay for themselves: the instance of `paper_ledger` has no other,
and `CashCoversOrders` assumes it.

*Settlement.*  The residual intent of a full exit that sold only the settled part
(`workflow.py:8349`) cannot be reached: an exit of an earlier session is skipped before
it.  A strategy SELL is accepted once for a plan and never again
(`monitor.py:1158`), so that one that found no fill in its session is not repeated in
the next; the hard stop is, once a session.  A quarantined plan, or a fill of a plan
without lifecycle (an ADD under another plan), leaves a lifecycle open when the
position is gone, which `LifecyclesFollowPosition` excepts.

*Notices.*  `notification_policy.py:4` says that "an uncertain send is never silently
attempted again".  Customer cards contradict it: the Lark client posts a card once more
after a timeout, a network error or a server error (`lark.py:189`; a test expects the two
attempts, `tests/test_lark_notifications.py:74`), and the reader may get it twice.  Only the
call of that client is single; `OneCallPerCard` says so, and that the second POST is that
call's own retry of an uncertain first one.  Internal alerts are posted once, as the line
says.  A process that dies between the two databases makes the retry
a duplicate, whose row is then sent although it was merged; a publisher that dies after
the observation leaves a card that is never sent; a retry in a later minute has
another title (`lark_notifications.py:942`) and is refused; a claimed summary dies with
its process; a row left SENDING is never taken again and a row of another day is never
sent.  `MergedIsSummarised` names the deaths it excepts (`orphans`).

## 7. Not modelled

Numerical screening, prompts and model calls (A1 to A3), strategies and risk arithmetic: floating point over price series, with
almost no protocol.  Data sources, caches and quality gates; evaluation, replay,
shadow evidence and the daily reviews: pure input and output over recorded data.
Team V2 sessions, publication archive and storage retention: file formats.  Provider
governance and research runs: every operation is one transaction on one table whose
guard is the whole rule, so a model would restate it.  Feature store generations: the
generations and pointer of the A1 registry again, a candidate for a second instance
of `GenerationLineage`.  Corporate actions, valuation and
the audit of the paper account: arithmetic inside one transaction.
The console, deployment and operator scripts.  The orchestration in `workflow.py` is present through the order in which it calls the stores.
