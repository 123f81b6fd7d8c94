# Formal models of ib_execution

TLA+ models of `src/src/ib_execution`: the execution engine (order protocol, end of
day, journal and bridge, risk breakers, start-up and what survives a process) and the
quote recorder beside it (raw log, feed repair, session loop, watchdog, health
verdicts). TLC checks them on small instances; for ten of them TLAPS proves safety
properties for every value of the constants. `PROJECT.json` maps every definition
to the lines it stands for and gives every checked property a mutated form of the code
with which its run fails.

    tlc -workers 2 -config MCOrderLifecycle_trading.cfg MCOrderLifecycle.tla
    tlapm OrderLifecycle_proofs.tla

Paths below are relative to `src/src/ib_execution` unless they start with `src/`.

## 1. Inventory

| Part | State it keeps | Operations | Talks to |
|---|---|---|---|
| Controller (`controller.py`) | link, sync and operating mode; per leg order state, target, live intent, attempt, position, working quantity; expected positions | `submit_target`, `_evaluate`, `_send`, `tick`, `reconcile`, broker and link callbacks, `halt`, `restore_from_journal` | journal (every fact), broker, witness, fence, risk, calendar |
| End of day (`controller.py` 718-869, `calendar.py`) | `flatten_reason`, `_eod_residual_recorded`, the residual event | `_check_eod`, `flatten`, `_record_eod_residual`, `_maybe_complete_flatten` | the legs; the next boot |
| Journal (`journal.py`) | append-only events, decision and execution tables, the writer's queue, `_failed`, `_closed`, the ownership lock | `commit`, `accept_decision`, `book_execution`, `acknowledge_halt`, `replay`, `close` | one writer thread |
| Controller bridge (`async_bridge.py`) | bounded queue, consumer task, one-thread executor, `_overflowed`, `_closed` | `_post`, `_request`, `_consume`, `close` | IB's event loop on one side, the controller on the other |
| Broker boundary (`broker_protocol.py`, `fake_broker.py`) | orders, executions, positions | `place_order`, `cancel_order`, `snapshot`; callbacks | the controller, unordered and late |
| Risk engine (`risk.py`) | daily and per-minute counters | `check`, `record_sent`, `roll`, `restore_from_events`, `run_self_test` | controller, journal |
| Execution host (`execution_host.py` and the gates) | the process and its exit code | `start` with its gates, `run_once`, `close`, fence retirement | everything above |
| Witness, fence, lock (`journal_witness.py`, `fatal_fence.py`, `processlock.py`, `durable_io.py`) | three small files on another volume than the journal | `record`/`verify`, `raise_fence`/`acknowledge`/`retire`, `acquire`/`release` | host and controller |
| Operator tools (`ack_halt.py`, `emergency_flatten.py`) | none | acknowledge a HALT or a fence; flatten | journal, fence, broker |
| Auditor (`auditor.py`) | one fold per invariant | replays a finished journal | journal |
| Recorder: raw log (`quote_recorder.py` 246-552, 1530-1760) | queue, counts, `_failure`, segments, session and finalize locks, three published files | `append`, `flush`, `close`, writer loop, crash recovery, `_finalize_day` | disk; other runs of the same session |
| Recorder: feed recovery (`market_liveness.py`, `quote_recorder.py` 1841-1970, 2512-2600) | ages of the streams, halts, outages, farms, pending recovery, incident, recovery timers | `assess`, `observe`, `plan`, `note_*`, resubscribe, reconnect | IB's status codes |
| Recorder: session loop (`quote_recorder.py` 2060-2930, `recorder_modes.py`) | session, log, reconnect budget, counters of handled, selected and filtered events, the stored fatal error | connect, resolve, wait, capture, back off, finalize | raw log, feed, heartbeat |
| Watchdog and heartbeat (`watchdog.py`, `event_loop_heartbeat.py`, `src/scripts/run_recorder_watchdog.py`) | last pulse, published status, time first seen stale | `pulse`, publish, `evaluate`, `kill_engine` | status file, process id |
| Health verdicts (`quote_recorder.py` DailyHealth, `recorder_health_v4.py`) | none in memory; two side files | gap and outage findings, `write_reanalysis_v4` | sealed raw log, original manifest |
| IB adapter (`ib_adapter.py`), delay measurement, evidence, attestation, preflight, gateway detection | none shared with the above | reports and signed bundles | files |

What is hard here. Handlers of the controller are serialised, but the broker, the clock
and the disk go on between any two of their durable writes, and the process may die at
each of them; callbacks come late, twice or not at all; a write that was refused may
still land; several facts are held twice (belief and journal, journal and broker,
journal and witness, counters and journal) and only a reconciliation or a replay brings
them together; the decision to stop has to outlive the process that made it. In the recorder a
writer thread, a publisher thread, a watchdog process and successive runs share files;
silence is normal and loss looks the same; and a completion marker must never be ahead of
what it vouches for. `PROJECT.json` lists these hazards at their lines.

What makes each part correct:

* **order protocol**: at most one unterminated order per leg in the durable record, and every order that may be alive at the broker is in it (SPEC invariants 1-4); trust only after a reconciliation explained the account to the share (14); exposure inside the limit although belief lags; restricted modes only reduce (C3, C4); an unacknowledged HALT binds every later process (22); every fill is booked and every order resolved in the end.
* **end of day**: no position is carried in NORMAL (15), completion means flat, an order that outlives its session is on record.
* **journal and bridge**: callbacks in order, a lost callback or a refused write stops the engine, everybody who waits is answered, a HALT leaves a trace outside the process (18, 22).
* **risk**: the caps hold of the journal's attempts over restarts, crashes and midnight (16); no process starts with a dead control (21).
* **host**: an engine that reaches the broker has in its journal every attempt behind an order (2), and one that may send owes nobody an acknowledgement (22).
* **auditor**: it passes every log the engine leaves when the invariants it reads were kept.
* **raw log**: accepted rows become durable in order and stay; a flush that returned vouches for what came before; one writer per session; the manifest is last and never ahead.
* **feed**: silence without explanation is labelled and repaired again and again, without hammering the peer.
* **session and watchdog**: a log holds one session and no manifest hides a dropped event; a wedged process is killed, a working one is not.
* **verdicts**: each instant of the session is charged exactly once and rightly; a whole amendment is of the log that was sealed or says that it could not be read, and nobody completes or contradicts a torn one.

## 2. Modules

| Module | Models | Depends on |
|---|---|---|
| `OrderService` | the abstract promise of trading one leg | |
| `OrderLifecycle` | one leg of the controller, its journal, the broker, crashes; implements `OrderService` | `OrderService` |
| `OrderInvariant` | the inductive invariant `IInv` | `OrderLifecycle` |
| `EndOfDay` | session phases, flattening loop, residual, next boot | `OrderLifecycle` |
| `EodInvariant` | what holds between its steps, `EodInv` | `EndOfDay`, `OrderInvariant` |
| `JournalAudit` | the auditor's folds, run along the engine | `OrderLifecycle` |
| `AuditInvariant` | how far a fold may be from the controller, `AuditInv` | `JournalAudit`, `OrderInvariant` |
| `RiskBreakers` | order of the checks, self-test, counters, replay | |
| `JournalWriter` | writer thread, queue, timeouts, close | |
| `ControllerBridge` | event-loop side, consumer task, worker thread | `JournalWriter` |
| `HostLifecycle` | gates, lock, witness, fence, operator tools | |
| `DurableLog` | the abstract promise of a session's raw log | |
| `RawEventLog` | queue, writer, segments, locks, finalization; implements `DurableLog` | `DurableLog` |
| `FeedRecovery` | liveness judgement, incident tracker, recovery scheduler | |
| `RecorderSession` | session loop, heartbeat thread, watchdog, reconnect budget | |
| `HealthVerdict` | gap and outage findings, the offline reanalysis | |
| `MC*` | symmetry and constant definitions for TLC | |
| `*_proofs` | theorems and lemmas | their component |

**OrderLifecycle.** Handlers run one at a time (`async_bridge.py`, one executor thread), so the only
interleaving inside the controller is with a crash, a failing journal and the
outside world. A handler is cut at its durable writes: `pc` names the one it has
reached, and no other handler starts before `pc` is `"ready"`. `_send` is
`Evaluate -> CommitIntent -> SendAttempt -> PlaceOrder -> SendReturned` with its
refusals and doubts; `_reconcile_impl` is `TakeSnapshot -> AdoptExecution* ->
CompleteReconcile` or one of the failures. Broker steps, callbacks in flight (`net`,
an unordered set from which a message may be taken any number of times or never)
and foreign facts are actions of their own. `Crash` clears what the process holds
and leaves journal, broker and network; `Start` brings a fresh process.
`ctlVars` and `legVars` are the fields of `Controller` and `SymbolState`;
`jrnVars` is what the events in the log add up to; `broVars` is the account. Left
out: further legs; prices, texts, alerts and deferral records; corrections and reversals of
executions. An execution of n shares is n executions of one; a risk refusal is a free
choice here (`RiskBreakers` has the engine); the timers of one tick are separate actions,
which allows more orders of them than the code does. The broker does not fill an order after it has confirmed its cancel.

**OrderService** promises: an order is committed with its size, attempted while no other one is, and sent at most
once; a send finds a settled account (nothing alive, every execution recorded), no HALT, room under the limit for the whole
order, and outside NORMAL only reduces; executions are recorded once each, and an order is closed for good, when it can
execute no more. There is no process in it that could crash. `OrderLifecycle` maps the journal to `stage`, `size` and
`recorded`, the broker to `life`, `done` and `account`, the HALT in the log to `halted`, and every mode but NORMAL to
`restricted`. Handlers, timers, callbacks, snapshots, link and restarts are stutters, or make something known. An order lost
on its way and one not yet at the broker are one step of the service: `Send` leaves the order alive or dead.

**EndOfDay** adds the session clock (`phase`: before the window, in the flatten window, past the hard
deadline, closed), `flatten_reason`, the residual record and the day of the last
execution; of further legs the loop visits only the mode change
is kept. Every step of `OrderLifecycle` is embedded. A running controller ticks
before a phase is over, and no handler outlasts a phase.

**JournalAudit** runs the auditor as an observer: `audit` holds the state of its folds, and a
step's events are read off its changes, because the setters of the controller write an event exactly when
they change something (and none while the journal is fenced or the process is down).
Each `PassesI<n>` is what the auditor compares at an event of its invariant n.

**RiskBreakers.** `Trips` gives the condition of every control, `Refusal` the one that raises
first; `SelfTest` is the must-reject suite as a start gate, with at most one control `broken`.
`_send` is `Check -> CommitIntent -> StartSendAttempt -> RecordSent` and a crash may fall between
any two; `sent` is the journal's attempts per UTC day, from which `Restored` rebuilds
`counters`.

**JournalWriter and ControllerBridge.** `JournalWriter` is one handle: a FIFO of requests, the thread that commits them
and one caller with a timeout. `ControllerBridge` adds what stands before it:
`call_soon_threadsafe` puts, the bounded queue, commands that wait for room, the
consumer task, the single-thread executor and the overflow's own `halt()` job. A
controller method is its durable writes and the way it ends; `_guarded` and
`_fail_closed_journal` are modelled in full. Nothing in `src/` instantiates the
bridge yet (SPEC section 8 requires it before Gate B2), so the commands and
callbacks it gets are those of its own interface.

**HostLifecycle.** Hosts pass the gates of `start()` in their order (`GateFence`, `GateOwnership`,
`GateWitness`, `Connect`), then send and halt. The log is a sequence of events;
`stamp` tells apart two events that had the same sequence number at different times,
which is what the digest in the witness is for. `PowerLoss` keeps any prefix of the
log (the module text of `journal_witness.py` is about WAL recovery that does so).
`owed` is a history variable: every HALT that was committed and witnessed, and every
fault for which a fence was raised, until an operator acknowledges it.

**DurableLog and RawEventLog.** `DurableLog` promises: accepted events, a stable prefix that only
grows, stopped runs, and a seal only on a stopped run whose events are all stable. `RawEventLog`
is the code: `append` and its overflow latch; `flush` as check, enqueue and
wait, with the writer running between; `close` as enqueue, join and its time-outs; the writer as collecting,
writing row by row, rolling segments, syncing, counting, and answering controls; `Start` with the
rename of every partial file in sight (`_recover_crashed_segments`); `_finalize_day` with its accounting
check, the snapshot it reads back, and the three replacements. Several runs of the program share the
directory, one after the other or the next one recording while the last finalizes. A run's rows are counted, not
listed: the writer keeps their order. The mapping takes as stable the synced rows while a partial file exists, and
the published ones otherwise; a run counts as stopped once its log takes no more.

**FeedRecovery.** One `Poll` is one turn of the recorder's loop: assess, observe, plan, then the
repair. Ages saturate one past the first late value; a timer is the number of polls left.
`dark` and `sinceFull` are history variables that no reconnect resets.

**RecorderSession.** One process: the loop with a time allowance per blocking call, callbacks and their
counts, `_finalize`, the publisher thread (`status` is the file), the watchdog (`Poll`, SIGTERM, SIGKILL), the
process's own deadline. A tick passes only when everybody who is due has run. A wedge
is a call below Python that never returns.

**HealthVerdict.** The findings are operators on a log (bar stamps, SYSTEM rows, a flag `flawed` for a delayed market row, a
RECORDER_ERROR or a salvaged segment); `Label` and `DarkAt` say the same of a single instant without intervals. The
state machine writes a log, seals it, and runs `write_reanalysis_v4` against files that may be changed
under it, in several runs at once: the recorder's task calls it after it has finalized, and a script calls it by hand. A decoding error
does not end a run (`iter_raw_rows` swallows it): the rest of the segment is skipped, and `Read` then reports "unreadable", which is a
day that is not healthy with RAW_SEGMENT_INCOMPLETE and the read error on record. The rows skipped are not modelled, since no
others can make such a day healthy. `_create_durable` is two steps, since it creates the final name with O_EXCL and writes in place: between them
the file is "torn". `Abandon` (a refusal, an error elsewhere, a crash) leaves every file as it is, and `PowerLoss` may
take away one that is not synced yet. A process that dies after its last write and before its fsync is `WriteHealth`
followed by `Abandon`.

## 3. Runs

| Run | Module, bounds | What it shows |
|---|---|---|
| `core_trading` | `OrderLifecycle`: 2 decisions, 2 orders, targets -1, 0, 2, limit 2, one rung; crash, STOP_NEW | long, short and through zero with partial fills and restarts: `OneUnterminatedIntent`, `LiveOrdersAreOpen`, `TrustIsJustified`, `ExposureBounded`, `NoFalseHalt`; and every step is one of the service or a stutter: `ImplementsOrderService`, which contains `RestrictedModeReduces` (the guard of `Send`) |
| `core_faults` | `OrderLifecycle`: 1 decision, 2 orders, target and limit 2, two rungs; crash, journal, witness, foreign order, foreign position | the whole `IInv`, `HaltOutlivesProcess`, `OnlyExplainedIsTrusted` |
| `core_audit` | `JournalAudit`: 2 decisions, 2 orders, targets 0 and 1, two rungs; crash, journal, witness | `AuditFindsNothing` |
| `core_liveness` | `OrderLifecycle`: 1 order; link, snapshot, expiry | `EveryFillBooked`, `EveryOrderResolved` |
| `eod_session` | `EndOfDay`: 2 days, 2 orders, a second leg, crash | `NoNormalCarry`, `LateOrderIsRecorded`, `CompletedIsFlat` |
| `bridge` | `ControllerBridge`: 3 callbacks, 1 command, queue of 1, one write per method, every fault | `AppliedInOrder`, `LossIsFenced`, `RefusalIsFenced`, `HaltLeavesATrace`, `NothingIsLeftWaiting` |
| `host` | `HostLifecycle`: 1 host started again and again, 8 events ever committed, every fault | `SendsAreRemembered`, `NothingIsLaundered` |
| `rawlog` | `RawEventLog`: 2 runs, queue of 2, batches of 2, 2 + 1 events; I/O errors, time-outs, crashes | `ManifestIsLast`, `FlushIsDurable`, `WriterOwnsSession`, `OutputsOnlyGrow`, `ImplementsDurableLog`, `EveryTickSettles` |
| `feed` | `FeedRecovery`: late after 2, idle after 3, bars-only every 4, slow 5 doubling to 10, 2 fast attempts, 2 farms | `SilenceIsLabelled`, `SlowReconnectsPaced`, `SilenceIsRepaired` |
| `risk` | `RiskBreakers`: order 4, position 2, notional 4; per day 4 shares, notional 6, 3 orders; 2 a minute; prices 1, 2; days of 3, minute of 2, horizon 6 | `DailyCapsHeld`, `MinuteCapHeld`, `DeadControlNeverStarts` |
| `session` | `RecorderSession`: ticks of 15 s: timeout 1, grace 1, request 1, close 2, finalize step 1; budget 1 and 1; 1 event; every fault | `ShortLogIsNotPublished`, `OneSessionPerLog`, `OnlyTheWedgedIsKilled`, `WedgedIsKilled` |
| `verdict` | `HealthVerdict`: session [1,5), gap of 2, 2 farms, 2 SYSTEM rows, any bars; sealed logs of one row, 2 runs, 2 changes after the seal, a decoding error, crash or power loss anywhere | `VerdictIsExact`, `AmendmentIsOfTheSealedLog` |

Why the bounds are enough for what they are asked. Two orders are the fewest with
which one can be forgotten while another is sent; a limit of two shares and a target of
two allow a partial fill at every moment; targets of both signs make the through-zero
refusals happen; two rungs let a reprice happen and the ladder end; two sessions
are a night and a morning after. A queue of one and three callbacks overflow once or twice,
with callbacks handled before and after a loss. Eight events in the log are enough for
two HALTs with their acknowledgements and a boot between them, a tail lost in the
middle, and a log that grows past the lost place again. One host is enough because the lock admits one; what a
second one can do before it has the lock is in section 6. That a failing gate releases the lock
is modelled (`GateWitnessRefuses`, `ConnectFails`), and no property asks for it: what they ask is that the broker is not reached.

Two runs of the recorder are a dying or finalizing one and its successor; two events, a queue of two and
batches of two give a batch that is full, one ended by a control, a queue that overflows, and a barrier behind unwritten rows. The
intervals of `feed` are in the order of the defaults and no two coincide. The caps of `risk` are such that each of them is
the one that binds, and the horizon has two midnights, one of them inside a minute. A tick of fifteen
seconds makes the heartbeat timeout and grace of the recorder's host one each, its request
deadline (10 s) less than one and its close (30 s) two: rounded against the recorder. Five instants and a gap of two
allow a gap at either edge and one in the middle, and two SYSTEM rows open and close an outage inside it. What is sealed and
reanalysed has at most one row: a bar at 3 makes a healthy day of that session and its loss an unhealthy one, and the publication asks no
more of a log. Two changes are a file rewritten and put back; two runs are the task and the script.

Deadlock is not checked where a stop is real: a closed bridge, a fenced host and a log at its bound, a
finished recorder, a process that failed its self-test with the clock at its horizon, a reanalysis that
was refused. It is checked in the order, end-of-day, audit and feed runs.

## 4. Fairness

`core_liveness`: a handler that has started goes on to its end (`WF` of the `pc` steps: straight
code). Ticks and reconciliations recur while they have something to do: no timer in
`src/` calls them, the drivers do (`src/scripts/deterministic_soak.py:73` and `:130`,
`src/scripts/demo.py:67`), so strong fairness is a statement about whoever drives
the controller. A cancel that is tried again and again gets out in the end. The broker
connects again, says what happened, and cancels an order it is asked again and again to cancel. A strategy, a fault and an operator are owed nothing. `EveryOrderResolved` is
conditional on a link that stays up in the end.

`bridge`: the loop, the worker thread and the writer thread run; a waiting call is
answered or times out. Nobody has to call the bridge, and nothing has to fail.

`rawlog`: weak fairness of the writer thread's steps of each run, and of nothing else: the main
thread need not append, flush or close.

`feed`: the loop goes on polling, and a connection attempt succeeds in the end. No message
from IB is owed.

`session`: the publisher and the watchdog are scheduled, signals are delivered, and time passes. Nothing
is assumed of the loop itself: that is what the watchdog is for.

## 5. Proofs

Every constant is assumed to be what the module's named ASSUME says, and nothing else.

**OrderLifecycle_proofs.** `TypeCorrect` is `Spec => []TypeOK`;
`attempt \in 0..MaxAttempts` is the conjunct that needs an argument: a live intent stays
below the end of the ladder (`OnLadder`), and only a terminal event moves `attempt` by one.
`InvariantHolds` is `Spec => []IInv`, and from it follow
`HaltLatch`, `SingleOrder`, `NothingAliveIsForgotten`, `TrustEarned`,
`ExposureLimited`, `RestrictedReduces`, `NoHaltWithoutCause` and `TrustIsExplained`:

1. `DurableBeforeSend` ties the broker to the journal: the broker knows no order
   without a durable attempt. With `SendInProgress` it covers the instants between
   the attempt and the broker's answer.
2. `SyncedOwnsTheOpen` says what trust is worth: while SYNCED the only unterminated
   order is the leg's, so sending a new one from IDLE cannot make two.
   It is needed because `OneUnterminatedIntent` alone says nothing of the leg.
3. Trust is regained only through a snapshot. `SnapshotCovers` is the snapshot's promise
   while it is being worked on: whatever is alive is in it, and what is not in it has ended with
   exactly the fills it shows. This is where the broker's stable snapshot is used.
4. `OneOrderBehind` and `SnapshotExplained` are the arithmetic: with nobody else in the account
   the difference between broker and journal is the unbooked fills of one order, so
   adopting them leads to equality and no HALT is raised for our own fills.
5. `BeliefIsJournal`, `SendBounded` and `SendReduces` carry the sizing decision of
   `_evaluate` to the moment the broker has the order.
6. `HaltObeyed` ties the latch in the log to the mode of any process that has restored.
7. `TrustIsExplained` is about a sum over all orders, which would take an induction over sets. `PositionIsBooked`
   needs none: it says that *some* function adds up the booked executions of every set of orders and has the
   journal's position for the whole. Booking a share changes that function in one place. `TotalIsSum` then says that
   the recursive `Total` of the property is this function, since a smallest set on which they differ cannot exist.
8. `TradingIsTheService` is the refinement, from `IInv`. A step that writes the journal is `Commit`, `Attempt` or `Learn`
   (`JournalRefines`): what was committed has a size because a trusted belief is the account (`SizedOnTruth`), an attempt is
   the only one because of `SyncedOwnsTheOpen`, and a reconciliation closes at most one order, one that the
   snapshot proves dead. A step of the broker is `Send`, `Execute`, `Die` or nothing (`BrokerRefines`): in `SendRefines` the
   account is settled because the order being sent is the only open one, and has no fills. What is left steers, or acknowledges
   (`ControlRefines`). A restart takes no step of the service at all unless it changes the mode.

*The end of the day* (`EodInvariant`). `DayKeepsTheCore`: the steps of `EndOfDay` are steps of `OrderLifecycle` or leave
all but its mode alone (`Aside`), so one order, known orders, justified trust and bounded exposure carry over to `EodSpec`. `HaltObeyed` does
not: the loop's next leg takes a HALTED engine to FLATTEN_ONLY (section 6), so nothing below may rest on it.
`CarriedIsRestricted` is `CarryIsRestricted` read where the leg's belief is the journal's. For it, `BeliefTracks`: belief and
journal differ only after a position mismatch, and then the engine stays HALTED with no leg left to visit until it restarts.
`CompletionIsFlat` needs `TerminalAtRest`: a completion is written inside `_after_terminal`, when the leg is IDLE, and then whatever the broker
still had of ours is done and booked, except what that very call has sent since. `LateOrdersRecorded` needs `CompletedIsOver`: once a
completion took the residual back in a restricted mode, there is no position to reduce or the engine is halted, so
nothing is sent that could be late again.

*The audit* (`AuditInvariant`). `AuditedClean` is an invariant of the pair of engine and auditor: the auditor's open, cancelled
and working sets are orders the journal has open (`FoldsAreOpen`), its link, sync and mode may lag only while the
controller allows less (`StatesInLog`: after a fence or a crash, or before the restore), and every intent and execution
is in the log (`FoldsAreWhole`). `CommittedIsPermitted` carries the gate's decision from the commit to the send attempt: nothing runs
between the two. With these each fold passes at each event, because the engine's own invariant says what the event means.

**RawEventLog_proofs.** `WritersHoldTheLock`, `ManifestCompletes`, `PublishedRowsStay`, from three
inductive parts. `OwnerInv`: a run between its start and its close holds the session lock, and a later place means its
writer has exited; a close that gives up waiting keeps the lock, which is why. `DiskInv`: no row is synced before it is
written, an open segment has nothing published that is not synced, and a writer with none open has
published all it wrote; so recovery and the closing of a segment only add rows. `FinInv`: who is finalizing holds the finalize lock, the
outputs are inside its snapshot, the snapshot inside what is published, and each file already replaced equals the
snapshot. The lock makes snapshots a chain, so no output shrinks.

`LogImplementsPromise` is the refinement of `DurableLog`. `RowInv` counts the rows: what is written, in the writer's hands and in the
queue is what was accepted, as long as there is a writer, and never more. The queue is a sequence of tokens, and counting
its ticks would take an induction; instead `Numbered` says that its ticks *can* be numbered from the last written row to the last
accepted one, which appending and taking preserve. `SealInv` carries the accounting check of `_finalize_day` to the
manifest. Each action is then one of the promise or a stutter; a start salvages only stopped runs, since an open segment of a
run that has not stopped would need the session lock. `FlushesAreDurable` adds `FlushInv`: while the log has not failed
there is at most one barrier, its caller waits, and nothing is behind it, so its answer finds everything accepted written.

**RiskBreakers_proofs.** `NoDeadControlAtWork`: a broken control cannot answer its probe under its own name, so
the self-test fails. `CapsOfTheDayHold`, from `CapInv`: the counters of
today never know less than the journal's attempts of today, days ahead are empty,
and an order that was approved fits today's journal *and* an empty one, because midnight may
come between the check and the attempt. The restore is of the greatest day with an attempt, which is today or
a day that `roll` discards. Of `ValidConfig` only that the limits are natural numbers is used, and for the minute that its cap is positive.
`NoMinuteOverTheCap`, from `MinuteInv`: the stamp in memory is taken after the attempt it counts, so the memory's stamps,
paired with the journal's from their ends, are never earlier and never fewer (`Trails`), except for the attempt just made. What is
recent in the journal is then recent in memory, and an approved order still fits the minute it is sent in.

**RecorderSession_proofs.** `EventsKeepToTheirSession`: where callbacks can run, the session of the loop is that of the
log, since `Resolve` lets nothing past it otherwise. `NoShortLogPublished`: every handled event is selected or filtered until a callback raises; from then on
`handled > selected + filtered` for good, although a reconnect clears the stored failure,
and the accounting check refuses.
`TheLivingAreSpared` says of the watchdog that it signals no recorder which is not stuck, can publish and is not closing
its log. Its hypothesis `DeadlinesFit` is about constants: two request deadlines fit heartbeat timeout and grace together, and so
does the longest silence of the finalizer. The first holds of the defaults (twice ten seconds, and fifteen plus fifteen
in the host); the second nothing in the code bounds, so it is an assumption on disk and data. From `WatchInv`: the last
pulse plus what the present call may still take is no more than the watchdog's patience (`LoopInTime`), a publication
shows the last pulse or there has just been another (`StatusFollows`), so what the file shows is not older either (`ShownInTime`);
and the grace period only counts from a status that was already stale (`Behind`), so a signal takes a status older than that.

**HealthVerdict_proofs.** `AmendmentsAreTrue`, for any number of runs: between a run's first and second capture the number of changes is the
evidence that the files are the sealed ones, so that what it reports from then on is true of the sealed log or is the read
error (`Captured`); and the run that created the health file is the only one that publishes, because all others find the name
taken, so that what is there tells how far it came (`Created`). `VerdictsAreExact` is about what loops compute, for any session, thresholds and farms and any log of bars and
SYSTEM rows; `LogInv` says which logs a recorder writes. The loops of `HealthVerdict` are recursive functions on an initial
segment of Nat. `LoopRuns` shows that the function such a recursion defines exists, and `LeastOf` (a nonempty set of
naturals has a least element), with `IndexInduction` from it, takes the place of the library's induction. Then what a loop has after each row is
an invariant of its index: the status after n rows is what stands of them (`StatusIs`), the outages paired up to a row are
those that began and stand before it, each instant in one of them at most (`PairedIs`), the missing seconds up to a bar are the
number of instants in the long gaps before it (`MissingIs`). Over these, `PieceAt` and `PieceOf` cut a
gap at the edges of the outages, so that an instant of a long gap is in one piece, of the class `Label` gives it
(`EachInstantIsCharged`), and the two reports count the same gaps and seconds (`TheReportsAgree`).

**HostLifecycle_proofs.** `AttemptsAreRemembered` and `HaltsAreObeyed` hold for any number of hosts. The heart is
`MemoryInv`: what was sent and what is owed comes before the event the witness vouches for, so a log that still has that
event (`Vouched`, by sequence number *and* stamp) has everything before it. A power loss leaves a prefix, which either still
has the event or fails the witness gate. `StampInv` makes an event recognisable after its number was used again,
`VouchedInv` says that whoever passed the gate works on a vouched log, `LockInv` that only one does, and `TailInv`
covers the instants between a commit and its witness. `OneHostLaundersNothing` assumes one host: `AloneInv` says that
without a broker session it cannot owe a fence it did not see. With two it is false (section 6, fence checked before the
lock), and `HaltsAreObeyed` is what remains true.

**ControllerBridge_proofs.** Four theorems for any queue size, any number of callbacks, commands and writes.
`CallbacksInOrder`: `OrderInv` lays what was handled, the executor, the queue and the loop's pending puts out in one
line of increasing delivery numbers; an overflow, a withdrawn job or a shutdown only takes elements out of it. It needs
`WaitInv`: the only callback that waits in the executor is the one the task awaits. `LossesAreFenced` adds
`LossInv`: until the engine is halted the HALT job of the first overflow is in the executor ahead of every later callback, because
what is behind a lost callback still has to pass the queue. `RefusalsAreFenced` and `HaltsLeaveATrace` follow a refused
write through its hands: the journal that refused once refuses for good (`JournalInv`), so the HALT after a refused note is refused
too; its future is the awaited item's, since the executor holds that item once and otherwise HALTs of an overflow
(`OpenInv`); and the task that reads "unavailable" raises the fence. Both hold while the bridge is open: `close()` takes away the
task that would read the future.

**FeedRecovery_proofs.** `SilenceLabelled`: `LabelInv` ties the clock of the subscription, which a reconnect sets back, to
the history, which it does not: where they differ an incident is open and no bar has ended it. `ReconnectsPaced`:
`PaceInv` says that the time since the last reconnect and the time to the next add up to a base interval at least,
whatever brings the timer nearer.

Only model-checked: the liveness properties (`EveryFillBooked`, `EveryOrderResolved`, `NothingIsLeftWaiting`, `EveryTickSettles`,
`SilenceIsRepaired`, `WedgedIsKilled`), which need fairness and ENABLED, out of reach of the provers used. Every other property of
every run is also a theorem.

Each inductive invariant was first checked by TLC: `IInv` in `core_faults`; `EodInv` and `AuditInv` on the instances of `eod_session` and
`core_audit`, whose MC modules extend theirs for the purpose: add the name to the INVARIANTS of the cfg.

## 6. Where the code does not do what it says

**With a trace.**

* A failed cancel is not followed by a HALT (`controller.py:647`; `auditor.py:319`: "A callback failure must be followed by HALT, with no send in between.", `src/docs/SPEC.md:285`). `cancel_order` raises: `_request_cancel` journals a CALLBACK_FAILURE, marks the order uncertain and returns. The next reconciliation finds the order gone or adopts its cancellation, the account is SYNCED, and the engine sends again; the auditor rejects the log of a session in which nothing else went wrong. `JournalAudit` leaves this one fold out.
* Unbounded ladder (`controller.py:1686`; `src/docs/SPEC.md:134` says it is bounded). `attempt` moves in `on_cancelled` only. Send, working, reprice timer, `cancel_order`; the cancel is confirmed but its callback is lost; the cancel timer marks the order uncertain; `reconcile` finds it absent and clears the leg with `attempt` unchanged; the decision is evaluated again on the same rung. Repeat.
* Rejected cancel retried (`controller.py:1724`, 1720; "never auto-retry a rejected cancel", SPEC 142). `on_cancel_rejected` reconciles and returns when that fails, with the order uncertain; a later reconciliation finds it live, makes it WORKING, and the reprice timer cancels it again.
* HALTED weakened (`controller.py:748`, 808). `_check_eod` tests for HALTED once, then walks the legs. The witness fails while the first leg is flattened, which halts; the next leg's `set_mode(FLATTEN_ONLY)` takes the mode out of HALTED in the same process. The fence file still binds the next one.
* Completion is declared on belief (`controller.py:830`: "Close the durable flatten lifecycle once broker exposure is flat."). Somebody else's position is in the account; `reconcile` books what it adopts, finds the mismatch and halts before any leg hears of the adopted fills (955-980); a later full execution of the flattening order reaches `_after_terminal`, the leg believes it is flat, and EOD_FLATTEN_COMPLETED is written while the account is not. The engine is halted then, and that is what the second disjunct of `CompletedIsFlat` says; without such a position it is flat.
* `close()` may never end (`async_bridge.py:123`; `src/tests/test_async_bridge.py:71` awaits it as if it did). A handler is running when `close()` cancels the consumer; `except BaseException` catches the cancellation; the task returns to `queue.get()` and `close()` waits for it.
* Fence checked before the lock (`execution_host.py:203`; the docstring at 19 gives the order as a guarantee). A host reads the fence clear; a running host fails, raises the fence and exits; the first takes the lock and connects with the fence standing.
* An acknowledged fence cannot be retired (`fatal_fence.py:185`, `src/docs/RUNBOOK.md:161`). `require_clear` refuses an acknowledged fence too, and retirement is a method of a started host, which nothing in `src/` calls.

The next points were met while modelling; the models reproduce the code and the runs do not depend on them.

*Controller and journal.* A target may be placed after it expired: `_evaluate` checks `valid_until`, then two durable
commits pass (566; SPEC 278 says never); the auditor's check 11 cannot see it, since the commit's own time is
stamped after the check. `cancel_reason` is not cleared when a reprice-cancelled order ends by a fill or by
reconciliation, so a later cancellation by the broker takes a rung (1685). A flatten that exhausts its ladder is dropped
like any missed decision (431; SPEC 150 says it goes on); a flatten target lives ten minutes and
the window twenty. An order uncertain at the hard deadline is recorded with residual 0 and working 0; if it
fills later the next boot is NORMAL (790; RUNBOOK 216 says FLATTEN_ONLY). `flatten_reason` survives into the next
session. The overflow's `halt()` has its exception swallowed (`async_bridge.py:105`), so a HALT whose
write is refused there leaves no trace until a later method writes. A command that waits for room is overtaken by
callbacks that came after it. A graceful close of the journal turns a late callback's write into a fatal fence.
`raise_fence` on an acknowledged fence records nothing (`fatal_fence.py:200`), so `owed` does not count that cause.
`Journal.close` releases the lock after ten seconds even if the writer is still blocked (700).
STOP_NEW has no caller outside tests although SPEC 408 and 505 name some. The comparison with the newest HALT in
`_do_ack_halt` (`journal.py:383`) refuses nothing in `HostLifecycle`: `ack_halt` holds the journal's lock from reading
the HALT to acknowledging it, and nothing in `src/` calls the controller's own. Only a handle opened with `owner=False`, which tests do, can need it.

*Risk and auditor.* With the example configuration (`src/config/risk.example.yml`: ten shares, order notional 5000) a full
reversal at a price of 600 is refused although `validate` demands that a full reversal be executable in shares
(`risk.py` 94-102). `_i16` lets a minute span UTC midnight while `_DayCounters.roll` clears the stamps, so the auditor may
reject a burst around midnight that the engine is built to allow; `MinuteCapHeld` is stated per day.
`on_rejected` writes an event without `intent_id`, so `_i4` keeps the order open and reports a false alarm. Nothing in the engine writes
PROCESS_STARTED, so checks 10, 15 and 21 look at nothing, and after a crash the folds for link and sync keep the
values of the dead process.

*Recorder.* `_run_session_loop` overwrites its session before it raises the rollover (`quote_recorder.py` 2690-2700),
so the log of one day is finalized with the window of the next; `published` in `RecorderSession` records which window was
used. `_fatal_prerequisite_error` is cleared by a reconnect (2670); the accounting check is what catches it, and
`ShortLogIsNotPublished` shows that it does. A failed publisher ends the run without finalizing. When a
batch fails, a barrier already taken with it is not answered (463-475, "Release any caller waiting
on a publication barrier."); its caller times out. A `_finalize` that fails after the close appends to a closed log and raises
RecorderWriteFailed over the cause. `_outages[1100]` survives a socket reconnect, so silence stays explained until 1102.
The watchdog compares pid and start time before SIGTERM, and before SIGKILL, five seconds later, only that the pid
exists (`watchdog.py`: "same pid AND same start time, or we refuse to signal"). Closing the log may take thirty seconds without a
pulse, as long as heartbeat timeout and grace together: `OnlyTheWedgedIsKilled` excepts it, and fails without the exception.
The live judgement calls bars late after 12 s and the offline one after 15 s, and the offline one ignores halts. `write_reanalysis_v4`
does not reread the original health report and manifest at its end. A passing error while a segment is decoded (439-457) does not
refuse the reanalysis: the second capture matches, and a "not healthy" amendment of an unchanged and healthy log is published for good,
since existing targets are never replaced; `AmendmentIsOfTheSealedLog` says that nothing but such an error, on record in both
files, can deny a healthy day. `_create_durable` (984-1010) writes in place under the final name, so a crash may leave a torn
`health-v4.json`, or a torn amendment: the existence of the "completion marker" (1022) is not completion, and
only one that can be read whole counts. A torn file also blocks every later reanalysis until somebody removes it.

## 7. Not modelled

In modelled components: several strategies on one symbol, attribution of orders of several legs and after a restart
(`controller.py:1766`); corrections and reversals of executions, fees; the manual and the emergency flatten; half
days and holidays; calendar, platform and volume gates, which read and refuse; the inode check of the
process lock (`processlock.py:166`); `allow_short` and the waivers for closing orders in `check`; reuse of a process id
between SIGTERM and SIGKILL; `measure_clock_skew` before the first wait (`quote_recorder.py` 2712; what it may raise is `ErrorRaised` one step later) and the
instants between a published manifest, the FINALIZED pulse and STOPPED, which `Finalized` takes in one step although a
publisher that fails there leaves a published manifest on a failed run; quote and trade streams, cross-stream diagnostics and row validation
of the health reports; the sampling of quotes beyond its being a choice; calendar silence and `mark_decision`, which nothing in `src/` calls.

Components: the IB adapter's order side raises NotImplementedError until Gate B2, so there is no behaviour yet; delay measurement, evidence,
attestation, provenance, preflight and gateway detection compute reports from files in one pass and share no
state with execution; the scripts drive the modelled operations.

## 8. Plan

Next, in this order:

1. Several legs: attribution of intents and of foreign fills, and the end-of-day loop over full legs; `OrderService` for
   each leg.
2. A HALT latch that `OrderLifecycle` and `HostLifecycle` both implement.
3. The IB adapter, when it has behaviour.
