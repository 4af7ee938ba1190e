---------------------------- MODULE AverageRows -----------------------------
(***************************************************************************)
(* What the five-minute rows hold: snapshots of a bucket are grouped by    *)
(* device, averaged tag by tag, and written over what the row has; rows    *)
(* are put back into an emptied Redis as points and averaged again by the  *)
(* backfill of the next start.                                             *)
(*                                                                         *)
(* Accumulator has the moments at which a bucket is averaged and what may  *)
(* come between; here a bucket is read and written in one step, and the    *)
(* data is what matters.  A tag "power" is averaged, "energy" is a counter *)
(* of which the row holds the last reading.  Two inverters of different    *)
(* brands may have one serial number; the DTS017M has loop and table of    *)
(* its own and rounds its counters finer; a snapshot of the MAP, measured  *)
(* or put back, is completed from the one saved before it.                 *)
(***************************************************************************)
EXTENDS Integers, FiniteSets, FiniteSetsExt

CONSTANTS
    Devices,  \* records [kind, key]
    Brands,   \* kinds of network inverters
    Own,      \* kinds whose accumulator is their own
    Merged,   \* kinds whose snapshots are completed: the MAP
    Step,     \* avgStep
    Last,     \* BOUND: the buckets are 0..Last
    LastSecond, \* the moments within the last second of their bucket
    Load,     \* power of each device at each moment
    Count,    \* reading of its counter
    Rounds,   \* BOUND: the sets of devices that may answer at one moment
    Lossy,    \* BOUND: the tags of a device that a gate may leave out
    MaxGaps,  \* BOUND: snapshots without a tag
    Failing,  \* BOUND: the device and bucket at which a backfill may fail
    MaxStarts,\* BOUND: starts of the service
    None

Time    == 0..(Last + 1) * Step
Buckets == 0..Last
Tags    == {"power", "energy"}
Kept    == {"power"}    \* of the MAP: the readings of grid and battery
Empty   == [tag \in Tags |-> None]

AverageRowsAssumption ==
    /\ Step \in Nat \ {0} /\ Last \in Nat /\ MaxGaps \in Nat /\ MaxStarts \in Nat
    /\ Load \in [Devices -> [Time -> Nat]] /\ Count \in [Devices -> [Time -> Nat]]
    /\ Rounds \subseteq SUBSET Devices /\ None \notin Int /\ "" \notin Brands
    \* a bucket is longer than a second
    /\ \A t \in LastSecond : t % Step # 0
    \* a key is of one device, but for network inverters of different brands
    /\ \A d, e \in Devices :
          /\ d.key = e.key /\ (d.kind \in Brands <=> e.kind \in Brands)
          /\ d.kind \in Brands => d.kind = e.kind
          => d = e

VARIABLES
    now,
    redis,    \* the point of a device at a moment: its tags, None where absent
    rows,     \* the row of a device and bucket
    window,   \* mapWin: what the process saved of a merged device last
    restored, \* buckets of a device that hold only what was restored
    gaps,
    starts,   \* starts of the service
    backfilling

vars == <<now, redis, window, rows, restored, gaps, starts, backfilling>>

BucketOf(t)   == t \div Step
BucketTimes(k) == {t \in Time : BucketOf(t) = k}

-----------------------------------------------------------------------------
\* What mergeMAPSnap adds: a kept tag that a snapshot of the MAP lacks.
Missing(d, point, tag) == d.kind \in Merged /\ tag \in Kept /\ point[tag] = None

\* Faulty variant: what was saved before goes first.
CompletedFirst(d, point, prev) ==
    [tag \in Tags |-> IF d.kind \in Merged /\ prev[tag] # None THEN prev[tag] ELSE point[tag]]

\* mergeMAPSnap
Completed(d, point, prev) ==
    [tag \in Tags |-> IF Missing(d, point, tag) THEN prev[tag] ELSE point[tag]]

\* Saving the snapshots of one moment; a gate may leave a tag out.
Measure(devs, gap) ==
    /\ gap # {} => gaps < MaxGaps
    /\ gaps' = gaps + Cardinality(gap) /\ Cardinality(gap) <= 1 /\ gap \subseteq devs \X Tags
    /\ LET taken(d) == [tag \in Tags |-> IF <<d, tag>> \in gap THEN None
                                        ELSE IF tag = "power" THEN Load[d][now]
                                        ELSE Count[d][now]]
           saved(d) == Completed(d, taken(d), window[d])
       IN  /\ redis' = [d \in Devices |-> [t \in Time |->
                 IF d \in devs /\ t = now THEN saved(d) ELSE redis[d][t]]]
           /\ window' = [d \in Devices |->
                 IF d \in devs /\ d.kind \in Merged THEN saved(d) ELSE window[d]]
    /\ restored' = {r \in restored : ~(r[1] \in devs /\ r[2] = BucketOf(now))}
    /\ now < (Last + 1) * Step /\ now' = now + 1
    /\ UNCHANGED <<rows, starts, backfilling>>

-----------------------------------------------------------------------------
\* Faulty variant: one serial number, one device.
BareKey(d) == d.key

\* accBucketKeyOf: the brand distinguishes inverters of one serial number.
GroupKey(d) == IF d.kind \in Brands THEN <<d.kind, d.key>> ELSE <<"", d.key>>

\* readBucketWindow asks for [start, end - 1 s], and stamps have milliseconds.
Window(k) == BucketTimes(k) \ LastSecond

\* Of the points at those times, the group that device d is in.
Group(d, times) ==
    {p \in Devices \X times :
        GroupKey(p[1]) = GroupKey(d) /\ redis[p[1]][p[2]] # Empty}

Having(ps, tag) == {p \in ps : redis[p[1]][p[2]][tag] # None}

SumOf(ps, tag) == MapThenSumSet(LAMBDA p : redis[p[1]][p[2]][tag], ps)

Newest(ps) == CHOOSE p \in ps : \A q \in ps : q[2] <= p[2]

\* To a digit: the nearest multiple of the unit.
RoundTo(sum, n, unit) == ((2 * sum + n * unit) \div (2 * n * unit)) * unit

\* Rows keep one digit; the counters of the DTS017M keep two.
Unit(d, tag) == IF d.kind \in Own /\ tag = "energy" THEN 1 ELSE 10

\* averageValues, averageDts017: the mean of a tag over the snapshots that have
\* it, the last reading of a counter.
Average(d, ps) ==
    [tag \in Tags |->
        LET having == Having(ps, tag)
            last   == Newest(having)
        IN  IF having = {} THEN None
            ELSE IF tag = "energy" THEN RoundTo(redis[last[1]][last[2]][tag], 1, Unit(d, tag))
            ELSE RoundTo(SumOf(having, tag), Cardinality(having), Unit(d, tag))]

\* insertAvgRow: COALESCE of each metric.
Upsert(new, old) == [tag \in Tags |-> IF new[tag] = None THEN old[tag] ELSE new[tag]]

Written(d, k, times) ==
    IF Group(d, times) = {} THEN rows[d][k] ELSE Upsert(Average(d, Group(d, times)), rows[d][k])

Finished(k) == (k + 1) * Step <= now

\* averageBucket: all devices of the common loop in one transaction, or those
\* of the DTS017M.
AverageBucket(k, own) ==
    /\ Finished(k)
    /\ rows' = [d \in Devices |-> [j \in Buckets |->
                   IF j = k /\ (d.kind \in Own <=> own) THEN Written(d, k, Window(k)) ELSE rows[d][j]]]
    /\ UNCHANGED <<now, redis, window, restored, gaps, starts, backfilling>>

\* backfillAccumulator, backfillDts017Accumulator: every device and bucket of
\* its own, a failure leaves out the one it meets; groupForBackfill has [start, end).
Backfill(failed) ==
    /\ backfilling /\ backfilling' = FALSE
    /\ rows' = [d \in Devices |-> [k \in Buckets |->
                   IF Finished(k) /\ <<d, k>> \notin failed THEN Written(d, k, BucketTimes(k)) ELSE rows[d][k]]]
    /\ UNCHANGED <<now, redis, window, restored, gaps, starts>>

-----------------------------------------------------------------------------
\* Faulty variant: a row comes back at the end of its bucket.
PutLate(d, t) == IF t % Step = 0 /\ t > 0 THEN rows[d][BucketOf(t) - 1] ELSE Empty

\* Faulty variant: a row fills its bucket.
PutEverywhere(d, t) == IF BucketOf(t) \in Buckets THEN rows[d][BucketOf(t)] ELSE Empty

\* The newest row up to bucket k that has the tag, or none.
LastKnown(d, k, tag) ==
    LET known == {j \in 0..k : rows[d][j][tag] # None}
    IN  IF known = {} THEN None ELSE rows[d][CHOOSE j \in known : \A i \in known : i <= j][tag]

\* A row as it is saved again.  Rows are saved in the order of their buckets by
\* a process that has saved nothing yet, so what completes a row of the MAP is
\* from the rows before it.
Again(d, k) == Completed(d, rows[d][k], [tag \in Tags |-> LastKnown(d, k, tag)])

\* averagesAll, Dts017AveragesAll: a row is a point at the start of its bucket.
Put(d, t) ==
    IF t % Step = 0 /\ BucketOf(t) \in Buckets /\ rows[d][BucketOf(t)] # Empty
    THEN Again(d, BucketOf(t)) ELSE Empty

\* The service starts; when Redis has lost its data it is restored first.
Start(lost) ==
    /\ starts < MaxStarts /\ starts' = starts + 1 /\ backfilling' = TRUE
    /\ IF lost
       THEN /\ redis' = [d \in Devices |-> [t \in Time |-> Put(d, t)]]
            /\ window' = [d \in Devices |-> [tag \in Tags |->
                  IF d.kind \in Merged THEN LastKnown(d, Last, tag) ELSE None]]
            /\ restored' = {r \in Devices \X Buckets : rows[r[1]][r[2]] # Empty}
       ELSE /\ window' = [d \in Devices |-> Empty]
            /\ UNCHANGED <<redis, restored>>
    /\ UNCHANGED <<now, rows, gaps>>

Init ==
    /\ now = 0
    /\ redis = [d \in Devices |-> [t \in Time |-> Empty]]
    /\ window = [d \in Devices |-> Empty]
    /\ rows = [d \in Devices |-> [k \in Buckets |-> Empty]]
    /\ restored = {} /\ gaps = 0 /\ starts = 0 /\ backfilling = FALSE

Next ==
    \/ \E devs \in Rounds :
          Measure(devs, {}) \/ \E left \in Lossy : Measure(devs, {left})
    \/ \E k \in Buckets, own \in BOOLEAN : AverageBucket(k, own)
    \/ Backfill({}) \/ \E one \in Failing : Backfill({one})
    \/ \E lost \in BOOLEAN : Start(lost)

Spec == Init /\ [][Next]_vars

-----------------------------------------------------------------------------
TypeOK ==
    /\ now \in Time /\ gaps \in 0..MaxGaps /\ starts \in 0..MaxStarts /\ backfilling \in BOOLEAN
    /\ redis \in [Devices -> [Time -> [Tags -> Nat \cup {None}]]]
    /\ window \in [Devices -> [Tags -> Nat \cup {None}]]
    /\ rows \in [Devices -> [Buckets -> [Tags -> Nat \cup {None}]]]
    /\ restored \subseteq Devices \X Buckets
    /\ \A r \in restored : \A t \in BucketTimes(r[2]) :
          t % Step # 0 => redis[r[1]][t] = Empty

\* The moments whose power a row of bucket k may tell of: the bucket's own; of
\* the MAP, whose missing readings are completed, those before them too.
Sources(d, k) ==
    IF d.kind \in Merged THEN {t \in Time : BucketOf(t) <= k} ELSE BucketTimes(k)

(* A row tells only of its own device and bucket, also after it was restored *)
(* and averaged again: the power lies between the least and the greatest     *)
(* that the device had in it, to the digit rows keep (the MAP's may be older *)
(* than the bucket, never later), the energy is one of its readings there.   *)
OwnValues ==
    \A d \in Devices, k \in Buckets :
        LET row == rows[d][k]
        IN  /\ row["power"] # None =>
                  \E s, t \in Sources(d, k) :
                     /\ RoundTo(Load[d][s], 1, Unit(d, "power")) <= row["power"]
                     /\ row["power"] <= RoundTo(Load[d][t], 1, Unit(d, "power"))
            /\ row["energy"] # None =>
                  \E t \in BucketTimes(k) : row["energy"] = RoundTo(Count[d][t], 1, Unit(d, "energy"))

(* What a row has when it is put back into Redis stays what it was however   *)
(* often it is averaged again: the rounding, the counters and the bucket of  *)
(* a restored point agree with those of the average.  What it lacks it still *)
(* lacks, but for the readings of the MAP, which a restoration completes.    *)
RestoredIsSame ==
    \A r \in restored \cap restored' : \A tag \in Tags :
        \/ rows'[r[1]][r[2]][tag] = rows[r[1]][r[2]][tag]
        \/ Missing(r[1], rows[r[1]][r[2]], tag)

(* Both: a row stays true on its way to Redis and back.                     *)
RowsStayTrue == [][OwnValues' /\ RestoredIsSame]_vars

=============================================================================
