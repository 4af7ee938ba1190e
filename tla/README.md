# sunReceiver: formal models, checks and proofs

sunReceiver is one Go process that polls the devices of a solar power plant
(solar inverters, batteries, charge controllers, an off-grid inverter, energy
meters), keeps their points in Redis and PostgreSQL, draws a dashboard, drives
two indicator lamps and sends notifications. This directory models the parts of
it whose correctness depends on order, failure and time. All source paths below
are relative to `src/cmd/sunreceiver/` unless they begin with `src/`.

Contents: 1. Inventory. 2. How the parts interact. 3. The modules and the code.
4. The runs. 5. Fairness. 6. What is proved. 7. Findings. 8. What is not
modelled. 9. Plan.

## 1. Inventory

| component | state it keeps | operations | hard behaviour | what makes it correct | module |
|---|---|---|---|---|---|
| **DDS238 tariffs** `meter_poller.go`, `meter_tariff.go`, `meter_backfill.go` | table `dds238_daily_tariffs` (four boundary readings and four amounts a day), `best` (least distance captured per boundary), Redis series | one-second poll; capture near 00:00, 07:00, 23:00; store of a boundary with finalization of one or two days; pass that fills missed boundaries every five minutes | three writers on a row, a midnight reading in two rows, restarts, failed calls between steps, a replaced meter | both copies of a midnight agree; a day is finalized exactly when complete and plausible; live readings are not replaced by worse ones; missed boundaries are filled | `MeterTariff`, `TariffLedger` |
| **Dashboard** `dashboard.go`, `web.go`, `mercury.go` | cache of the boundaries and the month (a minute), cache of Mercury's month (ten minutes), reads of a period shared by requests (`flight`) | handlers that join caches, table and the living day; `loadRange` | caches of different ages around midnight; a read that hangs, panics or ends late | a month adds up to what the meter shows; an answer is young and of its period; nobody waits for ever | `TariffView`, `LoadRange` |
| **SR-201 relay** `relay_control.go` | `desired`, `blinkOn`, `lastCmd`, `lastSent`, the UDP socket | `SetLamp`, ticker of half a blink period with keepalive, `send` outside the mutex | lost datagrams, tick and callers interleaved around each send | the relay comes to show the desired state; blinking keeps its rhythm | `RelayControl` |
| **Indicator lamps** `relay_control.go`, `dashboard.go` (`apiRelay`) | none; each decides from snapshots in Redis every two seconds | red lamp (export), white lamp (grid voltage), HTTP override | two snapshots read one after the other, both growing stale; override races the loop | a lasting state of the grid is shown | `IndicatorLamps` |
| **Averages** `accumulator.go`, `avg_r.go`, `dts017_accumulator.go`, `main.go` | Redis points, `averages_*`, the loop's target | backfill at start; boundary timer, delay timer; one goroutine per finished bucket; shutdown; groups, roundings, upsert | timers late by whole buckets, late points, restart, failed writes, cancelled context, rows put back as points and averaged again | finished buckets only; no average replaced by a poorer one; a restart repairs; nothing left out; a row is of its own device and bucket | `Accumulator`, `AverageRows` |
| **Restoration of Redis** `main.go`, `redis_store.go`, `pg_store.go` | Redis data, lock key with TTL, marker of an incomplete restoration | decide, lock, query and save three kinds of series, unlock, mark | two instances, crash between any two commands, swallowed errors | one restorer; the marker stays until the history is back | `Restore` |
| **Redis store** `redis_store.go`, `rts_store.go`, `inv_store.go`, `map_store.go`, `kes_store.go`, `dds238_store.go` | `*:current` keys, RedisTimeSeries, `tsCreated`, `tsFailUntil` | save a snapshot, create series lazily with labels, complete a snapshot of the МАП | creation backs off after an error, a device is renamed, Redis loses its data | the series of a device are found under its name; no kept tag is lost | `Series`, `MapPoll` |
| **PostgreSQL store** `pg_store.go`, `avg_r.go`, `dds238_pg.go`, `map_pg.go`, `kes_pg.go` | averages, readings and error history | upserts, partition upkeep | one row of several tables; rows read back | a row is not changed by being read back and written again | `AverageRows` (in part) |
| **DTS017M meter** `dts017*.go` | as DDS238, plus its own accumulator and clock correction | poll with retries of a block, setting of the clock; the rest as DDS238 | late and foreign frames | an answer belongs to its request | `MeterLink`, `AverageRows` |
| **Meter clients** `meter_client.go`, `meter_config.go`, `src/internal/modbusmap` (`ReadFull`) | TCP connection | frame, send, drain, read, reconnect | a late answer, half a frame or a foreign block on a kept connection | as above; polls recover | `MeterLink` |
| **CE308 meter** `ce308*.go` | BLE session, pairing agent, adapter, state of the outage | find, connect, pair, ask and collect fragments, save, one record of an outage | an adapter that is renumbered, a bluetoothd that is stuck or restarts, late fragments, connects that outlive their timeout | no link left but by a Disconnect that failed; an answer is not of an earlier command; one record per outage; readings resume | `Ce308` |
| **BMS26** `bms26*.go`, `bms_accumulator.go`, `bms_view.go` | slots with back-off, open buckets per device in memory, alarm sets | poll, accumulate without Redis, flush closed buckets, report alarms that appear | the bucket is closed by the clock while points carry the poll's time; restart; two slots of one battery; flapping warnings | every point in one bucket; rows final; an alarm that lasts has one row | `Bms26`, `BmsAlarms` |
| **Grid inverters** `grid_poller.go` | `lastSeen`, `lastAlarms` | list and read with limited workers; points of new readings; alarm rows and F35 clearance | inverters missed by a cycle, frozen readings, transactions refused, applied in part or not acknowledged, series that cannot be created | one row per alarm, appearance and clearance alternate, one point per reading | `GridPoll` |
| **МАП, КЭС, MPPT** `main.go`, `map_errors.go`, `map_store.go` | last snapshot, error timers, count of empty answers | poll, complete the snapshot, log a silence after a delay, prune the controllers | transient empty lists; flapping; a refused save | silence is real; what is shown is measured and listed | `MapPoll`, `BmsAlarms` |
| **malina26 HTTP client** `malina26.go` | active device, probing and broken flags, token | fail over to the fallback, probe the primary, renew the token | two loops share the state and drop the mutex around every request | the device that answers is found again | `Failover` |
| **Notifications** `notify.go` | tracker, two detectors with an outbox, recipient in memory and in the file | judge, debounce, send, repeat; register and forget a recipient | undelivered alerts while the state goes on changing, restarts | alarm and recovery alternate, get through, and do not reach one who has left | `Notify` |
| **Solarman V5, Modbus map clients** `src/internal/solarman`, `src/internal/modbusmap` | TCP connection | frame, unframe | used by `src/cmd/probe` only | | |
| **Operating-system glue, web page, one-off tools** `tray_*.go`, `logfile_*.go`, `web/`, `migrate_avg.go`, `src/scripts` | | | | | |

`PROJECT.json` lists the same components with their status, and under `hazards`
the places where this code can go wrong in a way a test hardly reaches, with
the properties that would notice.

## 2. How the parts interact

- Pollers write points into **Redis** and, for tariffs, alarms and errors,
  rows into **PostgreSQL**. The accumulator moves finished five-minute buckets
  from Redis to PostgreSQL; the restoration moves them back when Redis is lost.
- The tariff backfill reads the Redis series its own poll writes and the
  PostgreSQL row its own poll captures into: shared state without a lock. The
  dashboard reads the same row and the same series through caches of its own.
- The lamp controllers read the pollers' latest snapshots in Redis and call the
  relay controller, as does the HTTP handler: shared state under `c.mu`, which
  is released around every datagram.
- The pollers of the Malina26 server share the HTTP client and its choice of
  the active inverter; `pollMAPMalina26` notes for the notifications what it
  has got.
- `main` starts the restoration before the pollers and the accumulator, handles
  signals only after everything is started, and at the end waits for the
  goroutines that are still averaging.

## 3. The modules and the code

`PROJECT.json` maps every definition to its lines. A definition that stands for
faulty code ("Faulty variant") precedes the one it could be mistaken for; no
specification uses it.

**`MeterTariff`** models `runMeterPoll`, `meterTariffCapture.atBoundary`,
`StoreMeterBoundary` with `applyMeterBoundary` and `finalizeMeterDay`, and
`runMeterBackfill` with `backfillMeterBoundaries`. A reading is identified by
its timestamp; `load` says what the two registers show at each moment, so `at`
holds timestamps and amounts are computed from them as the SQL does. `Poll` is
one answered poll with all it does (series point, then capture); `BackfillLook`
and `BackfillStore` are separate actions because the poll may run between the
query of the row, the search of the series and the store. `StoreBoundary` is
one action: the code makes it one transaction. `Restart` loses `best` and the
pass in progress. Faults: a lost Redis write or read, a failed transaction, a
failed query of the row, a crash.

**`TariffLedger`** is what that table promises, without its storage: one
reading per boundary and a bill that is always the bill of the readings. A
reading gives way only to one from within the capture window or to one that is
no farther from the boundary. `MeterTariff!Ledger` is the refinement mapping;
`RefinesLedger` says that the two-row table implements the ledger.

**`TariffView`** extends `MeterTariff` with the page: `apiCurrent`,
`loadTariffData`, `meterTariffToday`, `addTariffs`, `mercuryStatic`,
`mercuryForecastNow`. A request is taken apart where the code gives the mutex
up or asks PostgreSQL again (`ReadRow`, `ReadMonth`, `StaticStart`,
`ReadRange`, `ReadDay0`), so that polls, captures and the clock come between.
`Account` is what the page ought to show, from the samples alone; it is an
account while every boundary since its beginning has a sample and the snapshot of
Redis is no older than these (`Known`: a lost Redis write leaves the capture in the
table and not in the snapshot).

**`LoadRange`** models `dashboardHandler.loadRange`: a leader that reads,
requests that wait for it, entries that grow old, waiters that give up, a read
that panics (`recoverMiddleware`), a leader that ends late. Its theorems assume
`LoadRangeAssumption` explicitly, because the panel's run takes the module as an
instance.

**`RelayControl`** models the relay's owner. Each critical section of `c.mu` is
one action: `Apply` (`applyLamp`), `TickScan` (from taking `c.mu` to giving it
up before a send), and each datagram is another, so that ticks and callers
interleave where the code lets them. The clock is the age of `lastSent` in
ticks. A datagram arrives or is lost. A failed dial is a lost datagram.

**`IndicatorLamps`** models the decisions of both lamp loops and the HTTP
override. Snapshots change at any time; the white lamp reads two of them in two
steps; a decision is applied later than it is made.

**`Accumulator`** models `runAccumulator`, `backfillAccumulator`,
`averageBucket` and the end of `main`. A bucket is the number of its points and
an average the number of points it was made of. `tail` counts the points stamped
within the last second of their bucket, which the loop does not read
(`readBucketWindow` asks for `[start, end - 1 s]` of series with milliseconds,
against its comment at `accumulator.go:145`) and the backfill does. The goroutine
of a bucket reads and writes in two steps. `Stalls` names where the process may lag behind the
clock (during the backfill, between two waits, after a timer has expired), so
that one run can ask what a punctual process does and another what a late one
does. **`AverageRows`** is the other half: what is averaged, with the groups of
`accBucketKeyOf`, the means, last values and roundings, the upsert, and the rows
put back as points at their bucket's start and averaged again. A snapshot of the
MAP, measured or put back, is completed from the one saved before it
(`mergeMAPSnap`); the loop reads a bucket up to its last second (`Window`), the
backfill all of it.

**`Restore`** models the `switch` in `main` that decides on a restoration,
`restoreRedisFromPG`, the lock, its expiry, the marker and two instances on one
Redis. The history of a device is one point: the properties ask whether it is
back, not how long it is. `dropped` is what a restoration lacks through failures
that its result does not count: the errors of three of the five queries of
`averagesAll`, and points that cannot be saved.

**`Failover`** models the choice between the two inverters in `fetchMapRaw`,
`fetchMAP` and `mapErrCells`. A fetch is five steps, as `s.mu` is given up
around both requests: look at the state (`Begin`), read the list
(`ListAnswers`, `ListFails`), choose (`Choose`, `ChooseNone`), ask the device
(`Raw`), book the result by what the fetch itself saw (`Book`). `lastListCheck`
and `primaryBroken` are ages in ticks; `lastListCheck` takes the time at which
the fetch began, so a slow request makes it older (`age`). The server and its
devices are external: a device is listed or not, readable or not, and has a new
generation whenever it is plugged in. `overlapped` is a history variable: two
fetches have run at the same time.

**`Notify`** models `mapTrack`, `alertDetector` (`evaluate`,
`confirmDispatched`, `reset`), the monitor's two reports in a tick,
`dispatch` with its outbox, the events of subscribers and the file. A tick is
two steps, since messages are sent between them. `wire` is the message of a
step; `told`, `run` and `gone` are history variables of the message sent last and
whether it was acknowledged, what the samples said and who has left.

**`GridPoll`** models a cycle of `runGridPoll`: the list and the documents are
read (`Fetch`), one is handled after another (`Handle`) while the inverters go
on, and what was missed is pruned (`EndCycle`). Before a transaction `tsEnsure`
creates the series, or begins its back-off, during which `tsAdd` puts no point
(`Ensure`, `Puts`, `BackoffEnds`; the labels are in `Series`); `Exec` returns an
error after Redis has applied nothing, the HASH without the point, or all
(`Refused`). **`MapPoll`** is `runMapPoll`: `pollAndSaveMap` with
`saveWindowSnapshot`, `mergeMAPSnap`, `mapErrState`, the controllers and
`shouldPrune`; a snapshot that Redis applied although `Exec` returned an error is
shown and not remembered (`SaveMapFails`). **`Bms26`** is `runBms26Poll` without alarms:
`bms26Poller`, the accumulator of open buckets, the flush and the display.
**`BmsAlarms`** is the history of errors of batteries and МАП: what was seen,
what is new, what the table already has.

**`MeterLink`** models `meterClient` in its three modes (TCP, RTU, RTU with the
connection kept) below the poll of `runDts017Poll`. Frames are records of the
block they answer; the gateway delivers them whole, in two parts, late, or not at
all. **`Ce308`** models the poller, `openCE308` with the adapter, the agent and
the bounded connecting, `ce308Meter.Read` with the signal of `onNotify`, and the
record of an outage, against a bluetoothd that is reset, renumbered, restarted
or stuck, and whose Disconnect may fail: the code logs or drops that error
everywhere, and the link stays, `halfOpen`, until it is lost, another Disconnect
succeeds or the next session takes it over. **`Series`** models `tsEnsure` and `tsAdd` under `saveInvSnapshotState`,
with a Redis that refuses commands or loses its data and a device that is
renamed.

`MC...` modules give the constants that a configuration cannot write.
`MCPanel`, `MCHistory`, `MCPollers` and `MCDevices` put several modules side by
side: they share no state, a behaviour is a behaviour of one of them, chosen in
the initial state, and the state space is the sum of theirs. `...Proofs` hold
the proofs.

## 4. The runs

Twelve, eight of which pass. Most invariants of a run are conjunctions of named
parts; the parts are in the modules, each with its comment. `TypeOK` and
`TypesOK` are the type invariants.

**`meter`** (`MCMeterView`). A day of 12 ticks with boundaries at 0, 4 and 8,
`Tol` 1, `MinAge` 3, `MaxDist` 2: the smallest calendar with the code's
proportions (5 s < 10 min, 30 min on either side within the hour between 23:00
and 00:00). The clock runs over two days to the window of the third midnight, so
that two finalized days touch. A behaviour has one of two modes. *Writers*: the
meter may answer on, near and between boundaries, and is steady with one fault
(a crash, a lost Redis write or read, a failed transaction, a failed query of
the row) or replaced at 23:00 without one. *Page*: the meter is steady, requests
come at six moments around midnight, one at a time and at most one a tick, and
the fault is a restart (once there is a cache to lose) or a failed query.
`TableAgrees`: both copies of a midnight's reading agree, samples of a day are
in order, a complete day has the amounts of the samples it holds now, two
consecutive days add up to what the register gained. `LiveCaptureKept`: a
reading from within the window is never replaced by one from outside.
`MissedBoundaryFilled`: a missed boundary near a stored point is filled.
`RefinesLedger`: the table implements `TariffLedger`. `PageAddsUp`: once the
table has stood still for the life of a cache, the month shown and Mercury's
forecast are the account of the samples, each day counted once.
**`view_midnight`** (violation, see 7).

**`panel`** (`MCPanel`). *Relay*: two lamps, two callers, keepalive of two
ticks: a lamp that is first and one that is not, two orders for one lamp at once,
a keepalive that is due on some ticks only. `MemoryAgrees`: the remembered
command never contradicts a steady desired state and a blinking lamp's phase
agrees with it. `LampsFollow`: the first lamp is repaired after any lost
datagram and after racing orders, blinking lamps keep switching. *Indicator*:
both devices configured and every pair of snapshots; `LampsShowGrid`: a lasting
state of the grid is shown again and again. *Charts*: three requests for two
periods that share their beginning, `TTL` 2, `FlightMax` 1, time to 5: a leader
that outlives `TTL`, a waiter that gives up and a third request that comes to the
entry left behind. `AnswersServe`: an answer is of the request's period, from a
read that began less than `TTL` before the request, and a period is read by one
leader at a time while no read lasts for `TTL`. `WaitsEnd`: nobody waits for ever.

**`acc_safety`** (`MCAccumulator`). Three buckets of three ticks, two buckets to
a calendar day, up to two points a bucket, points up to a tick late, two faults
anywhere (reads, writes, crash, stop), and any lag. `BucketsAreOwned`: only
finished buckets are averaged, each by one writer. `AverageNeverShrinks`: no
average is replaced by one from fewer points. `NothingLeftOut`: a restart whose
own backfill succeeds averages every bucket of yesterday and today before it from
all its points, and a bucket that the loop averages without having lagged has
all its points but those of its last second, late ones too. Two faults suffice for a crash and a failure of
the restart that follows it; two days are in the window and the third bucket
moves it. **`acc_gap`**, **`acc_stop`** (violations, see 7).

**`history`** (`MCHistory`). *Restoration*: two instances
(interchangeable), one device of each of four kinds of query, two faults out of
failed queries, reported or swallowed, failed saves, crashes, a failed deletion
of the lock, a failed write of the marker and a restoration that outlives its
lock. `RestorationHolds`: one restorer at a time unless a restoration outlives
its lock, and one that believes itself complete is, but for what its uncounted
failures cost it. `MarkerRemovedWhenWhole`: the marker goes only when all else
is back. *Rows*: two inverters of different brands with one serial number, the
DTS017M and the MAP, two buckets of two moments, the second of them in its
bucket's last second in one of the buckets, one tag that is left out (`Lossy`:
the MAP's power or an inverter's counter), one device and bucket a backfill fails
at (`Failing`), two starts, each with or without a restoration. `RowsStayTrue`: a row lies
within what its own device had in its own bucket (the MAP's completed readings
may be older, never later), and stays what it was when restored and averaged
again, but for readings that a row of the MAP lacked and a restoration added. **`restore_crash`** (violation, see 7).

**`failover`** (`MCFailover`). The telemetry and the error loop, both intervals
of two ticks (about 30 s each), two failures to a back-off, each loop fetching at
least once a tick, one change of the devices after any initial state of them.
One change reaches every situation the code distinguishes: with the four initial
states of each device it is a return, a loss, a failure or a recovery of either,
at any moment of both fetches. `FlagsTellDevice` and `ReturnAfterSuccess`: as
long as no fetches overlap, the flags tell which device is read and the fallback
is left only for a primary that has answered. `DeviceIsFound`: while a device
can be read, data go on, and without overlap the primary is read again once it
works.

**`notify`** (`MCNotify`). Two accounts, one with a chat of its own, a window of
one tick and a declared silence of one, one restart. A window of one tick has
both answers (young, old enough) and lets alarm and recovery change places
within few ticks. `Alternation`, `Hysteresis`, `LeaverIsLeftAlone`,
`AlertsGetThrough`: a message is repeated until it is acknowledged and then
followed by its opposite, each after a full window of agreeing samples, never to
one whose leaving is recorded, and what lasts is told.

**`pollers`** (`MCPollers`). *Grid*: one inverter (inverters share nothing
but the set of those handled in a cycle, which `got` may leave out), two codes,
three readings, two changes of alarms, one restart. `AlarmsAlternate`: one row each
time an alarm comes up, F35 and its clearance in turn. `ReadingsAreKept`: what is
shown has its point or is tried again, whatever transactions fail, and a frozen
reading has one; a reading saved while its series could not be created is excepted.
*МАП and controllers*: one kept tag (one that is not completed shows what the last
payload had and nothing is claimed of it), two values (interchangeable), two
controllers of which one has no label, a silence of two ticks, three empty
answers. `SilenceIsReal`: "no data" is written only after the whole delay.
`ShownIsTrue`: kept tags are the newest acknowledged, or those of the save applied
last without an acknowledgement; controllers that have gone leave, listed ones stay. *Batteries*: two slots of one serial number, buckets of two
moments, time to 4. `PointsBecomeRows`: every point is in exactly one place, rows
are not written twice, what is shown was measured, back-offs end. *Alarms*: a
warning, a protection, a cell of the МАП, a window of two ticks, four changes.
`AlarmsHaveRows`: an alarm that lasts has one row, is not silenced by a refused
one, and rows of a flapping warning are spaced.

**`devices`** (`MCDevices`). *CE308*: two kinds of energy, one retry, one
disturbance of bluetoothd, the adapter or the radio, answers lost and connections
left to themselves and failed Disconnects without a bound. `SessionsAreClean`: every
connection is ended or was tried to be (a link that remains is half open), a
command does not take what came before it, one record per outage. *Link*: three
blocks and the setting of the clock, two requests unanswered at most, all three
modes. `AnswersAreOwn`: a decoded block is the answer to its request (for RTU
without a transaction number: of the block's kind, and of this request unless an
unanswered one is on the connection). *Series*: two tags, two names, two moments,
two saves. `TroublePasses`: once the trouble is over, the CE308 is read again,
polls of the Modbus meter succeed, the series are found under the device's name
(unless Redis has lost them: `CalmDown` of `Series` asks for `hidden = {}`).

Deadlock is checked in every run but `acc_*`, `pollers` and `devices`, whose
clock, time or counts stop at a bound with nothing left to do (and the CE308's
poller at the stop of the service).

## 5. Fairness

- *Clock* (`WF` of the tick in `meter`, `Accumulator`, `Failover`, `panel`): time
  passes.
- *Goroutines* (`WF` of the tariff backfill, of the accumulator's loop and bucket
  goroutines, of the relay's ticker and of callers that have left `c.mu`, of the
  lamp loops, of both loops of `Failover`, of a request of the charts whose read
  has ended or whose time is over, of the monitor of `Notify`, of the pollers of
  `devices`): the Go scheduler runs what is runnable; none of these loops waits
  for another, and every call they make has a timeout.
- *Network* (`SF(Arrival(o))` in `RelayControl`): of datagrams that repeat one
  order for ever, some arrive. It is assumed of orders one by one, so it helps
  only orders that are really repeated.
- *Messenger* (`SF` in `Notify`): a message sent again and again is acknowledged
  in the end.
- *Calm* (`devices`, no fairness): the liveness properties speak of behaviours in
  which the disturbances end (`CalmDown`); answers of the meter (`WF(Answer)`,
  `WF(Meter)`) and an end of each connecting (`WF(LateEnds)`) are assumed.
- *Server* (`Failover`, the premise `Usable`, no fairness): the list is answered
  and the device in question can be read from some moment on.
- A read of the charts may hang for ever; nothing is assumed of polls, answers
  of the DDS238, callers, operators or subscribers.

## 6. What is proved

The proofs assume what `ASSUME` states of the constants and nothing else:
`ClockAssumption` (the backfill's minimum age exceeds the capture window, its
reach is at most half of each gap between two boundaries: 10 min against 5 s, 30
min against the hour from 23:00 to 00:00), `DataAssumption` (types),
`ViewAssumption` (caches live for a while, and that of the tariffs for no less than
the capture window: 60 s against 5 s; the clock stops within the days of the table),
`RelayAssumption` and `NoneIsNoOrder` (at least one lamp, a positive keepalive), `PanelAssumption`
(types; periods are pairs), `DevicesAssumption` with `Ce308Assumption` (types; blocks of
different sizes), `FailoverAssumption` with `NoneIsNothing`, `NotifyAssumption`, `AccumulatorAssumption` (the delay is
shorter than a bucket), `RestoreAssumption`, `HistoryAssumption` (types; the key of a device is its own, but for inverters of different
brands, which is what the brand in the key of a group is for), `GridPollAssumption` (F35 is a code and
its clearance is not, bounds are naturals), `PollersAssumption` (types; the slots of
the batteries are a finite set of numbers, the kinds of alarms are disjoint). TLC evaluates them in the runs. Where
a composition is proved, its constants are those of its parts and have values in
the `.cfg` only.

`MeterTariffProofs`, for every calendar, horizon, load and set of faults:
`TypeCorrect`, and `TableAgreesCorrect` with its parts, from the inductive
invariant `TableInv`. `SamplesInOrder` is not inductive: it says nothing of where
a sample may lie, so a store could break the order with the next boundary.
`Placed` says that each sample is within `MaxDist` of its boundary (order
follows, because two windows meet in a point at most), `PickedNear` that a point
the backfill has picked and not yet stored is near the boundary it is for, and
`NextColumn` is `NextIsOpening`. `EnergyConserved` then needs only that both days
carry the amounts of their samples and share the midnight between them.

`LiveCaptureKeptCorrect` and `RefinesLedgerCorrect` (the refinement of
`TariffLedger`, step by step) need more, because the backfill takes a failed
query of the row for "not captured": then only the series tells it what the row
holds. `SeriesStandsIn`, their hypothesis, says that a Redis write and a query of
the row are not both among the failures, or that there is one failure at most, as
in the run `meter`; without it both are false, TLC shows it, and so does section 7.
`Remembered` says that the series has the readings of the table, `TooOld` that
the pass visits only what the poll can no longer capture (its minimum age
outlasts the window), `PickedGood` that the point in hand is then no worse than
what the row holds, though it was found before the store. `Billed` says that a
day its columns make billable carries its bill already, so a store may leave the
days it does not touch. Proving the refinement showed that the ledger once
promised too much (a reading gives way only to one from within the window): with
the code's minimum age below its reach, 10 min against 30, a failed query lets the
backfill replace a point before the boundary by a nearer one that came after the
first pass. The days of the run are too short to show it.

`PageAddsUpCorrect` is a theorem of `ViewSpec`, where requests, queries that fail
and faulty writers come in any order (the run keeps the faults of the writers apart
from the page). It has two halves. *The account*, of a table that agrees with itself
(`MonthCounts`, `ForecastCounts`): sums over days and over boundaries are folds, of
which the library says nothing that can be used, so `FoldExists` obtains the
function of the fold's recursion from a least counterexample, and `FoldTakesAny`
that it does not matter which element is taken first; `DayOver` and `NextBoundary`
say what comes after a boundary in the calendar, `DayIsBilled` that the bill of a
day that is over is what its boundaries account for, `SumToday` the same of the
living day in each of its zones, `DaysAddUp` adds the days by a least
counterexample again. *The caches*: `ViewInv` says that a cache stamped after the
last change holds what the table says (`CacheTrue`, `StaticTrue`), that a request
has read the table as it is, unless something changed in its tick (`RequestTrue`),
and that no sample comes long before its boundary (`NotEarly`). The last is needed
because the month's sum is of all finalized days, the present one included: the
capture of midnight comes up to `Tol` early and finalizes a day that is not over,
which would then be counted twice, as finalized and as living. A table that has been
still for `TariffTTL` cannot be in that state as long as `Tol <= TariffTTL`
(`NoneAhead`); without this assumption the proof fails at that lemma.

`PanelProofs`, for any number of lamps, callers and requests, any keepalive,
periods and limits: `TypesOKCorrect`, `MemoryAgreesCorrect`, `AnswersServeCorrect` of
the composition, from invariants of each part by itself. `MemoryAgrees` is inductive
over `TypeOK`; the proof shows that releasing `c.mu` around the sends does not
matter to it, because every change of `desired`, `blinkOn` and `lastCmd` is made
inside one critical section. `AnswersServe` needs `IInv`: `Served` (whoever holds
an answer or waits for one has a young leader of its own period), `Single` (two
leaders of one period only after one has outlived `TTL`), `Bounded`.

`FailoverProofs`, for any number of loops, intervals and history of the devices:
`TypeCorrect`, `FlagsCorrect`, `ReturnCorrect`. `Book` decides by what its fetch
saw, not by what is shared, so `FlagsInv` adds that, unless fetches have
overlapped, at most one loop is busy (`Alone`), what it saw is still so and the
device it asks is the shared one (`ViewIsCurrent`), and that a known handle is
one of a configured device (`HandleKnown`).

`NotifyProofs`, for every window and any accounts and restarts: `TypeCorrect`,
`AlertsAlternate`, `NobodyGoneIsTold`, `HysteresisCorrect`. The invariant ties
`told` to what each detector remembers (`sentDown` holds exactly while the last
acknowledged message is an alarm, with what each outbox may hold in either case), and
says that neither recipient, in memory or in the file, is one who has left. For
the hysteresis, `Timed` says that a detector that waits for nothing times an alarm
or a return to normal no longer than the samples have agreed. The return it
remembers while an alarm waits in the outbox, or after a recovery was confirmed,
is older than that: `Timed` says why it does no harm (an alarm waits only when no
return is being timed, and a return counts only once an alarm was told).

`PollersProofs`, for any inverters, codes, cells, controllers, batteries, alarms,
windows, back-offs and delays: `TypesOKCorrect`, `AlarmsAlternateCorrect`,
`ReadingsAreKeptCorrect`, `SilenceIsRealCorrect`, `ShownIsTrueCorrect`,
`PointsBecomeRowsCorrect`, `AlarmsHaveRowsCorrect` of the composition, which is
all that `pollers` checks. *Grid*: documents are older than what
the server has by the time they are handled, so the invariant relates them to it:
`Told` (a row that tells of an alarm still up is remembered, and the document
agrees), `Ordered`, `Acknowledged` and `Remembered` (the server is ahead of the
document, the document of what was saved, no acknowledged point is newer than that,
and what was saved has its point or was saved without a series). *МАП*:
`Episodes` says that an episode of errors is no older than the silence it is about,
`Display` that a controller still shown was missed by no more answers than were
empty in a row, so one tolerance bounds both. *Batteries*: `Ledger` keeps
rows, closed and open buckets apart by the clock (rows are of windows before that
of the last flush, everything else is not), so that no flush meets a row that
exists; and adds up per window. `Patience` bounds the back-offs. *Alarms*:
`ToldOnce` says that what was told of is still up and remembered, unless a poll has
missed the slot that shows it; `Places`, that the MAP and the slots show different
alarms. The minimum `bms26SelectCurrent` takes exists by the library's theorem on
well-founded orders, instantiated with a set and not with an operator.

`AccumulatorProofs`, for any lengths of bucket, delay and day, any buckets, points
and faults: `TypeCorrect`, `BucketsAreOwnedCorrect`, `AverageNeverShrinksCorrect`,
`NothingLeftOutCorrect` with its parts. `Owned` keeps the writers apart by the
clock: the backfill has what ended before its start, the jobs what the loop has
aimed at since; `Fresh` says that whoever is about to write has read no less than
the table shows. `Pending` follows the backfill through its list, so that at its
end everything it saw is averaged. `AveragesAreWhole` needs the exact moments of a
punctual process: `OnTime` says where the clock stands in each state of the loop,
`Whole` that a job reads after the last point of its bucket. This holds while
points come within the delay (`LateInTime`, `Lateness <= Delay`: a point is stamped
by its poll, which takes seconds, and the delay is two minutes); a later one is
averaged by the next start only.

`HistoryProofs`, first of `Restore`, for any devices, kinds of data and
instances: `TypeCorrect`, `OneRestorerCorrect`, `RestorationHoldsCorrect`,
`MarkerRemovedWhenWholeCorrect`.
`OwnsLock` says that until a lock has expired under its owner, whoever restores is
the one the lock names. `CompleteIsTrue` says nothing of the phase in progress:
`Fetched` adds that what was queried is saved or still queued, `Unqueried` that a
phase begins with an empty queue. Nothing is assumed of what fails: a restoration
may lack what its own uncounted failures cost it (`dropped`, section 7), and
nothing else, through failed queries, crashes, slow restorations, failed writes
of the marker and another instance's restoration. Then of `AverageRows`, for any devices, loads, counters,
lengths of a bucket, gaps and starts: what averaging does to a set of points.
That needs to know what a sum over a set is. The community modules define it by a
recursion over subsets, and the induction theorems cannot be used; `FoldExists`
proves that there is a function as the recursion wants it from a least
counterexample (a set of numbers has a least element, from the library's theorem
on well-founded orders), and `SumBounds`, in the same way, that a sum lies between
as many times the least and the greatest of what is summed. `RoundNear` and
`RoundAgain` say what rounding does to that and to what is rounded already.
`RowsStayTrue` says nothing of the points rows come from; the inductive `RowsInv`
does: a point is what was measured, or the row at the start of a bucket that was
put back, either completed from what the device had before (`WindowTrue`); rows
are rounded and only of buckets that are over, so nothing measured
later joins a row that was put back. At last `TypesOKCorrect`,
`RowsStayTrueCorrect` and `RestorationInHistory` of the composition, which is all
that `history` checks.

`DevicesProofs`, for any kinds of energy and retries, any blocks of different
sizes and depth of the gateway, any tags, names and moments: `TypesOKCorrect`,
`SessionsAreCleanCorrect`, `AnswersAreOwnCorrect` of the composition. *CE308*:
`Connection` says that while the poller is apart from the meter there is no link but
one that a late connection made, which it is still going to close, or that a
Disconnect failed to end; `Session` that
each command before the one asked has its answer, that no more commands wait at
the meter than were asked (`Asked`, which bounds the queue by kinds and retries),
and that a signal tells of an answer in the meter's memory; `Outage` that the record
of an outage is an hour old and not repeated while it is remembered. *Link*: that an
answer is the request's own does not follow from the frames in hand, because the
client skips what does not fit and resumes in the middle. `Body` says that the
frame whose rest it waits for fitted, `Clean` that where no older request waited
when this one was written all that comes is this one's, `Solo` that where every
timeout closes the connection one request at most is waiting, of whose answer no
more than the first bytes have come. That the sizes differ is used where a late
answer of another block is refused. *Series*: types only, they are inductive.

Only model-checked: liveness (`MissedBoundaryFilled`, `LampsFollow`, `LampsShowGrid`,
`WaitsEnd`, `DeviceIsFound`, `AlertsGetThrough`, `TroublePasses`), which is outside
the prover's reach. Every invariant and every action property of a passing run is
stated by a theorem.

## 7. Findings

Each is a run that TLC finds violated by what the code does.

- `view_midnight`, `RowIsOfToday`: the cache of boundaries is kept by age, not by
  day (`dashboard.go:923`), so for up to a minute after midnight the day that has
  begun is computed from yesterday's boundaries.
- `acc_gap`, `EveryBucketAveraged`: a bucket that ends while the backfill runs is
  covered neither by it nor by the loop (`accumulator.go:335-337`; the DTS017M's
  loop is alike, `dts017_accumulator.go:119`).
- `acc_stop`, `StopLosesNothing`: the writes that `main` waits for at shutdown
  run on the context that the shutdown cancels (`main.go:1051`).
- `restore_crash`, `HistoryOrMarker`: the marker is written after the
  restoration, and signals are not handled before it ends, so an interrupted
  restoration is never repeated (`main.go:1107-1115`).

Seen while modelling and not the subject of a run:

- *Lamps.* `lastSent` is one time for all lamps (`relay_control.go:436-444`): each
  repetition of the first lamp resets it for the others, so a lost datagram of
  the second steady lamp is never repaired, and `FirstRepaired` claims it of the
  first only. `lastCmd`, "the last command sent" (`relay_control.go:137`), is the
  last one noted: of two racing sends the other may have been last on the wire.
- *Failover.* `markPrimarySuccess` clears `activeFallback` whatever device is
  chosen (`malina26.go:446-452`): when one loop books the primary's answer after
  the other has chosen the fallback, the client never looks for the primary again
  while the fallback answers; `PrimaryReturnsAlone` excludes overlapping fetches.
  One reconnection seen by both loops counts as two failures
  (`malina26.go:433-437`).
- *Tariffs.* A failed query of the row counts as "not captured"
  (`meter_backfill.go:124-128`); together with a lost Redis write of the poll the
  backfill replaces a live reading by a farther one, against
  `meter_backfill.go:71-73`. After a restart in the capture window a farther
  reading may replace a nearer one, against `meter_tariff.go:76-77`;
  `LiveCaptureKept` bounds the damage to the five-second window.
- *Page.* A 00:00 reading captured before midnight counts its day in the month
  and as the living day for a moment. Mercury's cache computed between midnight
  and the capture lacks yesterday for up to ten minutes. Failed queries of the
  tariffs are cached for a minute like answers. A leader of `loadRange` that ends
  late deletes by key whatever entry is there (`dashboard.go:3097`). The button of
  the CE308's energy checks and sets its flag in two critical sections
  (`dashboard.go:3378-3420`), so two requests at once are both accepted.
- *Averages.* The loop leaves the points of a bucket's last second out of its
  average (`accumulator.go:153`; stamps have milliseconds, `rts_store.go:166`),
  against the comment "[start, end)" of `readBucketWindow`; the next start's
  backfill brings them back as long as Redis keeps them.
- *Restoration.* `averagesAll` drops the errors of three of its five queries
  (`pg_store.go:189-196`), so a restoration may call itself complete without
  them, against `main.go:1397-1399`, and remove the marker; a point that cannot be
  saved is passed over too. The properties say that it lacks nothing else
  (`dropped`). A row of the MAP without a reading gets that of an earlier row when
  it is restored, and the next backfill writes it into the row. An instance that finds the lock taken goes on at
  once and averages from a half-restored Redis, against `main.go:1065-1070`.
- *CE308.* An answer that comes after its command was written again is taken for
  the answer of the repetition, and the repetition's for the next command's:
  `parseCE308End` does not compare the command's name
  (`ce308_client.go:332-334`). A reading that fails for ever while connecting
  works leaves no record. A Disconnect that fails leaves a half-open link on the
  adapter, as `ce308_client.go:306-307` says; the poller only logs it
  (`ce308_poller.go:117-119`), and nothing tries again before the next session.
  An error whose row PostgreSQL refuses is marked as
  written.
- *Series.* After Redis has lost its data, points go to series that `TS.ADD`
  makes without labels and retention until the service restarts; the same after a
  `TS.CREATE` that failed.
- *Pollers.* A reading of a grid inverter that comes while the `TS.CREATE` of its
  series backs off counts as saved (`rts_store.go:156-164`, `grid_poller.go:414-416`)
  and never gets a point. A save of the МАП that Redis applied and did not
  acknowledge shows measurements which the next save that lacks them takes back
  (`map_store.go:58-66`). A tag of the МАП that has vanished for good is kept for ever under
  fresh timestamps (`redis_store.go:110`). An F35 that ends while the service is
  down is never cleared in the table. A poll of one slot of a battery forgets the
  alarms of the other and reports them again.

## 8. What is not modelled, and why

Decoding of registers, wording, formatting, schema creation and the web page are
data or I/O. Concrete times are counted in ticks, and calendar arithmetic
(daylight saving, time zones) is left out: every day has one length. Of the
dashboard, the grouping and thinning of points and the split of a period between
Redis and PostgreSQL (`seamWindows`, never crossed with the cut-off of
`redis_store.go:229-241`) are pure reads; the DTS017M's cache and its tariff
files are line for line those of the DDS238; the button of the CE308's energy is
one flag. The token of the Malina26 client is one retry inside a request.
PostgreSQL's partitions are SQL that PostgreSQL runs. Solarman, Modbus map
clients, the migration, the tray and the scripts are not used by the service or
hold no state of it.

Abstractions worth knowing: in `Accumulator` a failed attempt stands for all
three retries and averages are counts of points; in `Restore` a device's history
is one point; in `Failover` a request that fails once is a device that cannot be
read for a moment; in `Ce308` the fragments of an answer are read in one step and
a press of the button is the timer; in `LoadRange` deleting an entry and closing
its channel is one step; in `MeterLink` the blocks of a meter have different
sizes (`MeterLinkAssumption`), as those of the DTS017M do.

## 9. Plan

1. Compositions: `IndicatorLamps` over `RelayControl`; `Restore` with
   `Accumulator`, where a second instance averages what the first has only half
   restored.
2. The token of the Malina26 client, the button of the CE308's energy, and the
   split of a period between Redis and PostgreSQL.
