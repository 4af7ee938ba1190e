---------------------------- MODULE MeterTariff ----------------------------
(***************************************************************************)
(* The daily tariff table of the DDS238 electricity meter.                 *)
(*                                                                         *)
(* Three writers share sunreceiver.dds238_daily_tariffs: the one-second    *)
(* poll captures the registers within Tol of a tariff boundary (00:00,     *)
(* 07:00, 23:00); a background pass fills boundaries the poll missed with  *)
(* the nearest point of the Redis series; and every store finalizes the    *)
(* days it touches.  Redis and PostgreSQL calls fail, the process          *)
(* restarts, and the meter may fall silent at any time.                    *)
(*                                                                         *)
(* A sample is identified by its timestamp; its registers are              *)
(* load[r][timestamp], so a column that holds a sample stands for the pair *)
(* import/export of that moment.  Time is counted in ticks from the first  *)
(* midnight.                                                               *)
(***************************************************************************)
EXTENDS Integers, FiniteSets

CONSTANTS
    DayLen, DayStart, DayEnd,  \* ticks of a day; offsets of 07:00 and 23:00
    Tol,         \* meterCaptureTol
    MinAge,      \* meterBackfillMinAge
    MaxDist,     \* meterBackfillMaxDist
    LastDay,     \* BOUND: the days are 0..LastDay
    Horizon,     \* BOUND: the clock stops here
    PollTimes,   \* BOUND: the moments at which the meter may answer
    Loads,       \* the register trajectories the environment may follow
    FaultKinds,  \* which of AllFaults the environment may inject
    MaxFaults,   \* BOUND: how many of them
    None         \* SQL NULL

AllFaults == {"crash", "redis", "store", "read"}
Registers == {"import", "export"}
Hours     == {"0000", "0700", "2300"}
Marks     == Hours \cup {"next"}
Rates     == {"day", "night"}
Days      == 0..LastDay
Rows      == -1..LastDay
Time      == 0..Horizon
Samples   == Time \cup {None}
Boundaries == Days \X Hours

ASSUME ClockAssumption ==
    /\ DayLen \in Nat /\ DayStart \in Nat /\ DayEnd \in Nat
    /\ Tol \in Nat /\ MinAge \in Nat /\ MaxDist \in Nat
    /\ LastDay \in Nat /\ Horizon \in Nat /\ MaxFaults \in Nat
    /\ Tol < MinAge
    /\ Tol <= MaxDist
    /\ 2 * MaxDist <= DayStart
    /\ 2 * MaxDist <= DayEnd - DayStart
    /\ 2 * MaxDist <= DayLen - DayEnd
    /\ 2 * Tol < DayStart /\ 2 * Tol < DayEnd - DayStart
    /\ 2 * Tol < DayLen - DayEnd
    /\ DayLen > 0

ASSUME DataAssumption ==
    /\ Loads \subseteq [Registers -> [Time -> Nat]]
    /\ PollTimes \subseteq Time
    /\ FaultKinds \subseteq AllFaults
    /\ None \notin Int /\ None \notin AllFaults

VARIABLES
    now,      \* the clock
    load,     \* what the two registers show at each moment; never changes
    series,   \* timestamps of the points saved in the Redis series
    best,     \* meterTariffCapture.best: boundary -> least |delta| or None
    at,       \* daily_tariffs: the four boundary columns of each day
    tariff,   \* daily_tariffs: import_day..export_night, or None
    todo,     \* boundaries the running backfill pass has still to visit
    picked,   \* the point found for the earliest of them, not yet stored
    faults    \* faults the environment may still inject

vars == <<now, load, series, best, at, tariff, todo, picked, faults>>

Dist(x, y) == IF x < y THEN y - x ELSE x - y

Offset(h) == CASE h = "0000" -> 0
               [] h = "0700" -> DayStart
               [] h = "2300" -> DayEnd

Moment(b) == b[1] * DayLen + Offset(b[2])

-----------------------------------------------------------------------------
(* Storing one boundary.                                                   *)

\* Faulty variant: the hours before 07:00 are not billed.
LateNightOnly(row) ==
    [r \in Rates |-> [m \in Registers |->
        IF r = "day" THEN load[m][row["2300"]] - load[m][row["0700"]]
                     ELSE load[m][row["next"]] - load[m][row["2300"]]]]

\* The four tariff values: the day rate is 07:00 -> 23:00, the night rate
\* the two pieces around it.
Amounts(row) ==
    [r \in Rates |-> [m \in Registers |->
        IF r = "day"
        THEN load[m][row["2300"]] - load[m][row["0700"]]
        ELSE (load[m][row["0700"]] - load[m][row["0000"]])
             + (load[m][row["next"]] - load[m][row["2300"]])]]

Complete(row) == \A k \in Marks : row[k] # None

\* Faulty variant: negative amounts are not refused.
BillableUnchecked(row) == Complete(row)

Billable(row) ==
    /\ Complete(row)
    /\ \A r \in Rates, m \in Registers : Amounts(row)[r][m] >= 0

\* finalizeMeterDay: an incomplete or negative day leaves the row as it was.
Finalize(row, old) == IF Billable(row) THEN Amounts(row) ELSE old

\* Faulty variant: the day that 00:00 closes is forgotten.
TouchedToday(b) == {b[1]}

\* The days a boundary belongs to: 00:00 also closes the day before.
Touched(b) == IF b[2] = "0000" THEN {b[1], b[1] - 1} ELSE {b[1]}

\* Faulty variant: 00:00 is not copied to the row of the day before.
OpeningOnly(b) == {<<b[1], b[2]>>}

\* applyMeterBoundary: the columns a boundary is written to.
Columns(b) == {<<b[1], b[2]>>}
              \cup (IF b[2] = "0000" THEN {<<b[1] - 1, "next">>} ELSE {})

\* StoreMeterBoundary: the columns and the days they finalize, in one
\* transaction.
StoreBoundary(b, s) ==
    /\ at' = [d \in Rows |-> [k \in Marks |->
                  IF <<d, k>> \in Columns(b) THEN s ELSE at[d][k]]]
    /\ tariff' = [d \in Rows |-> IF d \in Touched(b)
                                 THEN Finalize(at'[d], tariff[d])
                                 ELSE tariff[d]]

-----------------------------------------------------------------------------
(* The live poll.                                                          *)

\* meterBoundaryTimes: the boundaries next to the clock on either side.
PrevNext ==
    {b \in Boundaries :
        \/ /\ Moment(b) <= now
           /\ \A c \in Boundaries : Moment(c) <= now => Moment(c) <= Moment(b)
        \/ /\ Moment(b) > now
           /\ \A c \in Boundaries : Moment(c) > now => Moment(b) <= Moment(c)}

\* The boundary atBoundary does not return early for: inside the window, and
\* nearer than what this process has already captured.
Captures(b) ==
    /\ b \in PrevNext
    /\ Dist(now, Moment(b)) <= Tol
    /\ best[b] # None => Dist(now, Moment(b)) < best[b]

\* runMeterPoll, one successful answer: the series point, then the capture.
\* best is updated before the store and is not taken back when it fails.
Poll ==
    \E lost \in SUBSET (FaultKinds \cap {"redis", "store"}) :
        /\ now \in PollTimes
        /\ Cardinality(lost) <= faults
        /\ faults' = faults - Cardinality(lost)
        /\ series' = IF "redis" \in lost THEN series ELSE series \cup {now}
        /\ \/ /\ \A b \in Boundaries : ~Captures(b)
              /\ "store" \notin lost
              /\ UNCHANGED <<best, at, tariff>>
           \/ \E b \in Boundaries :
                /\ Captures(b)
                /\ best' = [best EXCEPT ![b] = Dist(now, Moment(b))]
                /\ IF "store" \in lost THEN UNCHANGED <<at, tariff>>
                                       ELSE StoreBoundary(b, now)
        /\ UNCHANGED <<now, load, todo, picked>>

-----------------------------------------------------------------------------
(* The backfill.                                                           *)

\* Faulty variant: the window begins today.
TodayCutoff == (now \div DayLen) * DayLen

\* recentCutoff: 00:00 of yesterday, the lower edge of the Redis window.
RecentCutoff == ((now \div DayLen) - 1) * DayLen

\* Faulty variant: a boundary is looked at while the poll may still capture it.
EligibleAtOnce(b) == Moment(b) < now /\ Moment(b) >= RecentCutoff

\* backfillMeterBoundaries: which boundaries a pass visits.
IsEligible(b) == /\ now - Moment(b) >= MinAge
                 /\ Moment(b) < now
                 /\ Moment(b) >= RecentCutoff

Eligible == {b \in Boundaries : IsEligible(b)}

\* meterBoundaryCaptured, when PostgreSQL answers.
Captured(b) ==
    /\ at[b[1]][b[2]] # None
    /\ b[2] = "0000" => at[b[1] - 1]["next"] # None

\* Faulty variant: the nearest point at whatever distance.
Anywhere(b) == {s \in series : Moment(b) <= now}

\* nearestMeterReading: within MaxDist, the nearest, of two the earlier.
Around(b) == {s \in series : Dist(s, Moment(b)) <= MaxDist}

IsNearest(s, b) ==
    /\ s \in Around(b)
    /\ \A t \in Around(b) :
          \/ Dist(s, Moment(b)) < Dist(t, Moment(b))
          \/ Dist(s, Moment(b)) = Dist(t, Moment(b)) /\ s <= t

\* The pass visits its boundaries in calendar order.
IsFirst(b) == b \in todo /\ \A c \in todo : Moment(b) <= Moment(c)

BackfillStart ==
    /\ todo = {} /\ Eligible # {}
    /\ todo' = Eligible
    /\ UNCHANGED <<now, load, series, best, at, tariff, picked, faults>>

\* The row is read, then the series searched.  A failed read of the row
\* counts as "not captured", of the series as "no point near".
BackfillLook ==
    \E b \in todo, fault \in {None} \cup (FaultKinds \cap {"read", "redis"}) :
        /\ IsFirst(b) /\ picked = None
        /\ fault # None => faults > 0
        /\ faults' = IF fault = None THEN faults ELSE faults - 1
        /\ \/ /\ \/ Captured(b) /\ fault # "read"
                 \/ Around(b) = {} \/ fault = "redis"
              /\ todo' = todo \ {b}
              /\ UNCHANGED picked
           \/ /\ ~Captured(b) \/ fault = "read"
              /\ fault # "redis"
              /\ \E s \in series : IsNearest(s, b) /\ picked' = s
              /\ UNCHANGED todo
        /\ UNCHANGED <<now, load, series, best, at, tariff>>

BackfillStore ==
    \E b \in todo, fails \in BOOLEAN :
        /\ IsFirst(b) /\ picked # None
        /\ fails => "store" \in FaultKinds /\ faults > 0
        /\ faults' = IF fails THEN faults - 1 ELSE faults
        /\ IF fails THEN UNCHANGED <<at, tariff>> ELSE StoreBoundary(b, picked)
        /\ todo' = todo \ {b}
        /\ picked' = None
        /\ UNCHANGED <<now, load, series, best>>

-----------------------------------------------------------------------------
Tick ==
    /\ now < Horizon
    /\ now' = now + 1
    /\ UNCHANGED <<load, series, best, at, tariff, todo, picked, faults>>

\* The process stops and is started again: what was in memory is gone.
Restart ==
    /\ "crash" \in FaultKinds /\ faults > 0
    /\ faults' = faults - 1
    /\ best' = [b \in Boundaries |-> None]
    /\ todo' = {} /\ picked' = None
    /\ UNCHANGED <<now, load, series, at, tariff>>

Init ==
    /\ now = 0
    /\ load \in Loads
    /\ series = {}
    /\ best = [b \in Boundaries |-> None]
    /\ at = [d \in Rows |-> [k \in Marks |-> None]]
    /\ tariff = [d \in Rows |-> None]
    /\ todo = {} /\ picked = None
    /\ faults = MaxFaults

Backfill == BackfillStart \/ BackfillLook \/ BackfillStore

Next == Tick \/ Poll \/ Backfill \/ Restart

Spec == Init /\ [][Next]_vars

\* The clock advances and the backfill goroutine is scheduled; the meter
\* need not answer and nothing forces a poll.
FairSpec == Spec /\ WF_vars(Tick) /\ WF_vars(Backfill)

-----------------------------------------------------------------------------
TypeOK ==
    /\ now \in Time
    /\ load \in Loads
    /\ series \subseteq Time
    /\ best \in [Boundaries -> 0..Tol \cup {None}]
    /\ at \in [Rows -> [Marks -> Samples]]
    /\ tariff \in [Rows -> {None} \cup [Rates -> [Registers -> Nat]]]
    /\ todo \subseteq Boundaries
    /\ picked \in Samples
    /\ faults \in 0..MaxFaults

\* The meter was not replaced and did not reset: no register ever falls.
NeverFalling == {l \in Loads : \A m \in Registers : \A s, t \in Time :
                                  s <= t => l[m][s] <= l[m][t]}

Monotone == load \in NeverFalling

\* What closes one day opens the next: the two copies of the 00:00 reading,
\* in the rows of two days, are always the same sample, whichever writer
\* stored them and whatever failed (the single transaction of
\* StoreMeterBoundary).
NextIsOpening ==
    \A d \in Days : at[d - 1]["next"] = at[d]["0000"]

\* The samples of a day are in the order of its boundaries, however far the
\* backfill had to reach: no tariff part is taken backwards in time
\* (meterBackfillMaxDist against the gap between 23:00 and 00:00).
InOrder(row) ==
    \A p \in {<<"0000", "0700">>, <<"0700", "2300">>, <<"2300", "next">>} :
        row[p[1]] # None /\ row[p[2]] # None => row[p[1]] <= row[p[2]]

SamplesInOrder == \A d \in Days : InOrder(at[d])

\* A day with all four boundaries is finalized, with the amounts of the
\* samples the row holds now: a later, nearer capture or a late backfill
\* never leaves the old amounts behind (StoreMeterBoundary's comment on a
\* day that stays unfinalized for ever).
CompleteDayFinalized ==
    Monotone => \A d \in Days :
        tariff[d] = IF Complete(at[d]) THEN Amounts(at[d]) ELSE None

\* Between two boundaries every kWh is billed once: the amounts of two
\* consecutive finalized days add up to what the register gained from the
\* first opening to the last closing.
Total(d, m) == tariff[d]["day"][m] + tariff[d]["night"][m]

EnergyConserved ==
    Monotone => \A d \in Days : \A m \in Registers :
        d + 1 \in Days /\ tariff[d] # None /\ tariff[d + 1] # None =>
            Total(d, m) + Total(d + 1, m)
                = load[m][at[d + 1]["next"]] - load[m][at[d]["0000"]]

\* A boundary that the poll captured stays within the capture window: the
\* backfill, which may be 30 minutes off, never replaces it.
WithinTol(b) == at[b[1]][b[2]] # None /\ Dist(at[b[1]][b[2]], Moment(b)) <= Tol

LiveCaptureKept ==
    [][\A b \in Boundaries : WithinTol(b) => WithinTol(b)']_vars

\* The two-row table, its three writers and their failures keep the one
\* ledger of readings and bills that TariffLedger describes.
Ledger == INSTANCE TariffLedger WITH
              ledger <- [b \in Boundaries |-> at[b[1]][b[2]]],
              report <- [d \in Days |-> tariff[d]]

RefinesLedger == Ledger!Spec

\* A missed boundary near which the series holds a point is filled in the
\* end, through failures of Redis and PostgreSQL and restarts.
MissedBoundaryFilled ==
    \A b \in Boundaries :
        (IsEligible(b) /\ Around(b) # {}) ~> Captured(b)

\* The table as a whole: whatever failed and whoever wrote, its rows agree with
\* each other and with the meter (StoreMeterBoundary, finalizeMeterDay).
TableAgrees ==
    NextIsOpening /\ SamplesInOrder /\ CompleteDayFinalized /\ EnergyConserved
=============================================================================
