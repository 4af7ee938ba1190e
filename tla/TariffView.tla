----------------------------- MODULE TariffView -----------------------------
(***************************************************************************)
(* The main page's view of the tariff table, together with the writers of  *)
(* MeterTariff.                                                            *)
(*                                                                         *)
(* A request to /api/current takes the newest snapshot of the meter from   *)
(* Redis, the boundaries of the day and the sums of the finalized days     *)
(* from a cache of TariffTTL, and adds the living day to the sums.  For    *)
(* the supplier's meter (Mercury) it adds what the DDS238 gained since a   *)
(* reading taken by hand at T0: the finalized days since, from a cache of  *)
(* MercuryTTL, the living day, less what the day of T0 had gained at T0.   *)
(* Every query is a step of its own: the poll and the backfill write the   *)
(* table between them.                                                     *)
(***************************************************************************)
EXTENDS MeterTariff, Functions

CONSTANTS
    TariffTTL,     \* tariffCacheTTL
    MercuryTTL,    \* mercuryCacheTTL
    StaleAge,      \* inverterStaleWindow
    T0,            \* the tariff boundary of the reading taken by hand
    RequestTimes   \* BOUND: the moments at which the page may ask

\* The caches outlive the window of the capture (60 s and 10 min, 5 s).
\* BOUND: the clock stops within the days of the table.
ASSUME ViewAssumption ==
    /\ TariffTTL \in Nat \ {0} /\ MercuryTTL \in Nat \ {0} /\ StaleAge \in Nat
    /\ Tol <= TariffTTL
    /\ T0 \in Boundaries
    /\ RequestTimes \subseteq Time
    /\ Horizon \div DayLen <= LastDay
    /\ None \notin [Rates -> [Registers -> Nat]]

VARIABLES
    cur,       \* timestamp of the newest snapshot in Redis, or None
    cache,     \* tariffAt, tariffB, tariffM, or None
    static,    \* mercuryCacheAt, -Day, -Sum, -P0, or None
    request,   \* the request under way or just answered, or None
    changed    \* history: when the table, or the day, last changed under the
               \* caches, or a query of theirs failed

viewVars == <<cur, cache, static, request, changed>>

DayOf(t) == t \div DayLen

Nought == [r \in Rates |-> [m \in Registers |-> 0]]

Plus(a, b)  == [r \in Rates |-> [m \in Registers |-> a[r][m] + b[r][m]]]
Minus(a, b) == [r \in Rates |-> [m \in Registers |-> a[r][m] - b[r][m]]]

\* max0f
NotNegative(a) == [r \in Rates |-> [m \in Registers |->
                      IF a[r][m] < 0 THEN 0 ELSE a[r][m]]]

\* What a register gained between two samples, nothing if one is missing.
Gain(m, from, to) ==
    IF from = None \/ to = None THEN 0 ELSE load[m][to] - load[m][from]

-----------------------------------------------------------------------------
(* What is computed from a row of boundaries.                              *)

HourIn(t) == LET o == t % DayLen
             IN  IF o < DayStart THEN "0000"
                 ELSE IF o < DayEnd THEN "0700" ELSE "2300"

\* meterTariffToday: the amounts of the day so far, by the zone the clock is
\* in.  In the day zone 00:00 stands in for a missing 07:00.
Today(t, row, sample) ==
    LET morning(m) == Gain(m, row["0000"], row["0700"])
    IN  NotNegative([r \in Rates |-> [m \in Registers |->
          CASE HourIn(t) = "0000" ->
                 IF r = "night" THEN Gain(m, row["0000"], sample) ELSE 0
            [] HourIn(t) = "0700" ->
                 IF r = "night" THEN morning(m)
                 ELSE Gain(m, IF row["0700"] # None THEN row["0700"]
                              ELSE row["0000"], sample)
            [] HourIn(t) = "2300" ->
                 IF r = "night" THEN morning(m) + Gain(m, row["2300"], sample)
                 ELSE Gain(m, row["0700"], row["2300"])]])

\* Faulty variant: the night before 07:00 is left in.
PartialOfDay(t, row) ==
    NotNegative([r \in Rates |-> [m \in Registers |->
        IF r = "day" /\ HourIn(t) = "2300"
        THEN Gain(m, row["0700"], row["2300"]) ELSE 0]])

\* ddsTariffPartialUpTo: what the day had gained at its boundary before t.
PartialUpTo(t, row) ==
    NotNegative([r \in Rates |-> [m \in Registers |->
        IF r = "night"
        THEN IF HourIn(t) = "0000" THEN 0
                                   ELSE Gain(m, row["0000"], row["0700"])
        ELSE IF HourIn(t) = "2300" THEN Gain(m, row["0700"], row["2300"])
                                   ELSE 0]])

\* DailyTariffsRange and addTariffs: the finalized days from..to.
FinalizedDays(from, to) == {d \in Days : d \in from..to /\ tariff[d] # None}

SumOfDays(from, to) ==
    [r \in Rates |-> [m \in Registers |->
        SumFunction([d \in FinalizedDays(from, to) |-> tariff[d][r][m]])]]

\* The boundaries of a day without a row (MeterBoundaryValues gives an empty
\* one), and of a day whose row was not read (nil): nothing is gained of either.
NoBoundaries == [k \in Marks |-> None]

-----------------------------------------------------------------------------
(* A request.                                                              *)

At(step) == request # None /\ request.step = step

\* Faulty variant: the cache is good for as long as the process runs.
CachedForEver(t) == cache # None

\* loadTariffData: the cache is young enough.
Cached(t) == cache # None /\ t - cache.time < TariffTTL

\* apiCurrent: a meter that is silent shows no tariffs.
Ask ==
    /\ request = None
    /\ now \in RequestTimes
    /\ cur # None /\ cur > now - StaleAge
    /\ IF Cached(now)
       THEN request' = [step |-> "static", cur |-> cur, row |-> cache.row,
                        month |-> cache.month, sum |-> Nought, p0 |-> Nought]
       ELSE request' = [step |-> "row", cur |-> cur,
                        row |-> NoBoundaries,
                        month |-> Nought, sum |-> Nought, p0 |-> Nought]
    /\ UNCHANGED <<vars, cur, cache, static, changed>>

\* A query may fail.
QueryFails ==
    /\ "read" \in FaultKinds /\ faults > 0
    /\ faults' = faults - 1
    /\ changed' = now

QueryAnswers == UNCHANGED <<faults, changed>>

Others == UNCHANGED <<now, load, series, best, at, tariff, todo, picked, cur>>

Stamp(row, month) ==
    cache' = [time |-> now, row |-> row, month |-> month]

\* What loadTariffData has read so far; what mercuryStatic has.
TariffsRead(step, row, month) ==
    request' = [step |-> step, cur |-> request.cur, row |-> row, month |-> month,
                sum |-> request.sum, p0 |-> request.p0]

MercuryRead(step, sum, p0) ==
    request' = [step |-> step, cur |-> request.cur, row |-> request.row,
                month |-> request.month, sum |-> sum, p0 |-> p0]

\* loadTariffData, the boundaries of the day: an answer, be it of a day without
\* a row, is followed by the sums; when the query fails nothing is summed, and
\* its nil and the empty sums are stamped.
ReadRow ==
    /\ At("row")
    /\ \/ /\ QueryAnswers
          /\ TariffsRead("month", at[DayOf(now)], request.month)
          /\ UNCHANGED cache
       \/ /\ QueryFails
          /\ TariffsRead("static", NoBoundaries, Nought)
          /\ Stamp(NoBoundaries, Nought)
    /\ Others /\ UNCHANGED static

\* loadTariffData, the finalized days of the month (the year is the same sum
\* over more days), and the stamp: a sum whose query fails is left empty.
ReadMonth ==
    /\ At("month")
    /\ \E month \in {SumOfDays(0, LastDay), Nought} :
          /\ \/ QueryAnswers /\ month = SumOfDays(0, LastDay)
             \/ QueryFails /\ month = Nought
          /\ TariffsRead("static", request.row, month)
          /\ Stamp(request.row, month)
    /\ Others /\ UNCHANGED static

\* mercuryForecastNow, mercuryStatic: a reading of the future needs no
\* correction; else the cache, which is of one day, or the queries.
StaticHit == /\ static # None
             /\ static.day = DayOf(now)
             /\ now - static.time < MercuryTTL

StaticStart ==
    /\ At("static")
    /\ IF now <= Moment(T0) THEN MercuryRead("done", request.sum, request.p0)
       ELSE IF StaticHit THEN MercuryRead("forecast", static.sum, static.p0)
       ELSE MercuryRead("range", request.sum, request.p0)
    /\ UNCHANGED <<vars, cur, cache, static, changed>>

\* mercuryStatic: the finalized days from that of T0 to yesterday.
DaysSinceT0 == SumOfDays(T0[1], DayOf(now) - 1)

ReadRange ==
    /\ At("range")
    /\ \/ /\ QueryAnswers
          /\ MercuryRead("day0", DaysSinceT0, request.p0)
       \/ QueryFails /\ MercuryRead("done", request.sum, request.p0)
    /\ Others /\ UNCHANGED <<cache, static>>

\* mercuryStatic: the day of T0, and the stamp.
ReadDay0 ==
    /\ At("day0")
    /\ \/ /\ QueryAnswers
          /\ LET p0 == PartialUpTo(Moment(T0), at[T0[1]]) IN
                /\ MercuryRead("forecast", request.sum, p0)
                /\ static' = [time |-> now, day |-> DayOf(now),
                              sum |-> request.sum, p0 |-> p0]
       \/ /\ QueryFails
          /\ MercuryRead("done", request.sum, request.p0)
          /\ UNCHANGED static
    /\ Others /\ UNCHANGED cache

Request == Ask \/ ReadRow \/ ReadMonth \/ StaticStart \/ ReadRange \/ ReadDay0

\* A request is answered: "forecast" with Mercury's, "done" without.
Answered == At("forecast") \/ At("done")

LivingDay == Today(now, request.row, request.cur)

\* apiCurrent: the month with the living day.
ShownMonth == Plus(request.month, LivingDay)

\* mercuryForecastNow: what is added to the reading taken by hand.
ShownForecast ==
    NotNegative(Minus(Plus(request.sum, LivingDay), request.p0))

-----------------------------------------------------------------------------
(* The writers, and what the page sees of them.                            *)

Unless(same) == changed' = IF same THEN changed ELSE now'

ViewPoll ==
    /\ Poll
    /\ cur' = IF now \in series' THEN now ELSE cur
    /\ Unless(<<at, tariff>>' = <<at, tariff>>)
    /\ UNCHANGED <<cache, static, request>>

ViewBackfill ==
    /\ Backfill
    /\ Unless(<<at, tariff>>' = <<at, tariff>>)
    /\ UNCHANGED <<cur, cache, static, request>>

ViewRestart ==
    /\ Restart
    /\ cache' = None /\ static' = None /\ request' = None
    /\ UNCHANGED <<cur, changed>>

\* BOUND: a request takes less than a tick, and there is one per tick.
ViewTick ==
    /\ request = None \/ Answered
    /\ Tick
    /\ request' = None
    /\ Unless(DayOf(now') = DayOf(now))
    /\ UNCHANGED <<cur, cache, static>>

Writer == ViewPoll \/ ViewBackfill \/ ViewRestart \/ ViewTick

ViewInit ==
    /\ Init
    /\ cur = None /\ cache = None /\ static = None /\ request = None
    /\ changed = 0

ViewNext == Writer \/ Request

ViewSpec == ViewInit /\ [][ViewNext]_<<vars, viewVars>>

-----------------------------------------------------------------------------
\* The table and the day have stood still, and every query was answered, for
\* longer than a cache lives.
Quiet(ttl) == now - changed >= ttl

\* The boundaries from b to now.
Since(b) == {c \in Boundaries : Moment(b) <= Moment(c) /\ Moment(c) <= now}

SampleOf(b) == at[b[1]][b[2]]

\* Each of them has a sample that the snapshot does not lag behind, as it does
\* when Redis lost the point of the capture.
Known(b) == \A c \in Since(b) : SampleOf(c) # None /\ SampleOf(c) <= request.cur

\* The account without days, rows and caches: from each boundary to the next,
\* or to the snapshot, at the rate that begins there.
EndOf(b) ==
    LET later == {c \in Since(b) : Moment(c) > Moment(b)}
    IN  IF later = {} THEN request.cur
        ELSE SampleOf(CHOOSE c \in later :
                         \A e \in later : Moment(c) <= Moment(e))

BeginningOf(r, from) == {b \in Since(from) : (b[2] = "0700") = (r = "day")}

Account(from) ==
    [r \in Rates |-> [m \in Registers |->
        SumFunction([b \in BeginningOf(r, from) |->
                        load[m][EndOf(b)] - load[m][SampleOf(b)]])]]

\* The month the page shows is, at each rate, what the meter gained since the
\* month's first boundary: finalized days and the living day, read from two
\* stores and a cache, neither leave a gap nor overlap, once the table has
\* been still for as long as the cache lives (dashboard.go, apiCurrent).
MonthAddsUp ==
    Answered /\ Monotone /\ Quiet(TariffTTL) /\ Known(<<0, "0000">>) =>
        ShownMonth = Account(<<0, "0000">>)

\* Mercury's forecast adds exactly the energy since T0 (docs/meter_mercury.md,
\* "remains exactly the energy after T0"), once the table has been still for
\* as long as its cache lives.
ForecastAddsUp ==
    At("forecast") /\ Monotone /\ Quiet(TariffTTL) /\ Quiet(MercuryTTL)
    /\ Known(<<T0[1], "0000">>) =>
        ShownForecast = Account(T0)

\* What the page shows adds up, for the DDS238 and for the supplier's meter.
PageAddsUp == MonthAddsUp /\ ForecastAddsUp

\* The boundaries a request computes the living day from are those of the day
\* it asks in (dashboard.go:914-915).
RowIsOfToday ==
    Answered => request.row["0000"] \in
        {None} \cup {s \in Time : Dist(s, DayOf(now) * DayLen) <= MaxDist}
=============================================================================
