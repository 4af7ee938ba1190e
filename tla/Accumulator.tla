---------------------------- MODULE Accumulator ----------------------------
(***************************************************************************)
(* From raw points in Redis to five-minute averages in PostgreSQL: the     *)
(* backfill at start and the loop that averages each finished bucket after *)
(* a delay, every bucket in a goroutine of its own.                        *)
(*                                                                         *)
(* Bucket k is [k * Step, (k+1) * Step) ticks.  A bucket in Redis is the   *)
(* number of its points, an average in PostgreSQL the number of points it  *)
(* was made of: more points of a bucket never disappear while Redis keeps  *)
(* it, so the count tells which of two averages is the fuller.  The loop   *)
(* reads a bucket up to its last second and leaves out the points in that  *)
(* second (tail), as stamps have milliseconds; the backfill has them.      *)
(***************************************************************************)
EXTENDS Integers, FiniteSets

CONSTANTS
    Step,        \* avgStep
    Delay,       \* avgDelay
    DayBuckets,  \* buckets of a calendar day
    Lateness,    \* how far back a snapshot saved now may be stamped
    Last,        \* BOUND: the buckets are 0..Last
    MaxPoints,   \* BOUND: points of one bucket
    Stalls,      \* where the process may lag behind the clock, of AllStalls
    FaultKinds,  \* what the environment may inject, of AllFaults
    MaxFaults,   \* BOUND: how many faults
    None         \* no average in PostgreSQL

AllStalls == {"backfill", "loop", "timer"}
AllFaults == {"read", "store", "backfill read", "backfill store", "crash", "stop"}
Buckets   == 0..Last
Horizon   == (Last + 1) * Step + Delay
Counts    == 0..MaxPoints

ASSUME AccumulatorAssumption ==
    /\ Step \in Nat \ {0} /\ Delay \in Nat /\ Delay < Step
    /\ DayBuckets \in Nat \ {0} /\ Last \in Nat
    /\ Lateness \in Nat /\ MaxPoints \in Nat \ {0} /\ MaxFaults \in Nat
    /\ Stalls \subseteq AllStalls /\ FaultKinds \subseteq AllFaults
    /\ None \notin Int

VARIABLES
    now,      \* the clock
    points,   \* points of each bucket in Redis
    tail,     \* how many of them are stamped within the bucket's last second
    avg,      \* the average of each bucket in PostgreSQL, or None
    pc,       \* where runAccumulator is; "down" without a process
    bfEnd,    \* backfill: the first bucket it leaves alone
    bfRead,   \* backfill: the points it read of buckets still to insert
    bfTodo,   \* backfill: buckets still to insert
    bfFailed, \* history: the backfill of this process met a failure
    bfSeen,   \* history: the points Redis held when it started
    target,   \* the boundary waited for, as the bucket that starts there
    due,      \* when the delay after it is over
    jobs,     \* goroutine of each bucket: "none", "read" or "write"
    jobRead,  \* the points it read
    lagged,   \* history: the process has lagged behind the clock
    faults    \* faults left

vars == <<now, points, tail, avg, pc, bfEnd, bfRead, bfTodo, bfFailed, bfSeen, target, due,
          jobs, jobRead, lagged, faults>>
bfVars  == <<bfEnd, bfRead, bfTodo, bfFailed, bfSeen>>
jobVars == <<jobs, jobRead>>

Current == now \div Step    \* floorToStep

\* recentCutoff: the first bucket of yesterday.
RecentCutoff == (Current \div DayBuckets - 1) * DayBuckets

Running == pc \notin {"down", "stopping"}

\* The environment injects a fault of this kind, or none.
Inject(kind, happens) ==
    /\ happens => kind \in FaultKinds /\ faults > 0
    /\ faults' = IF happens THEN faults - 1 ELSE faults

-----------------------------------------------------------------------------
(* The clock and the pollers.                                              *)

\* Where the process lags if the clock ticks now: a boundary while it
\* backfills or is between two waits, any tick while a timer has expired.
Lags ==
    {s \in AllStalls :
        \/ s = "backfill" /\ pc = "backfill" /\ (now + 1) % Step = 0
        \/ s = "loop" /\ pc = "next" /\ (now + 1) % Step = 0
        \/ s = "timer" /\ pc = "wait" /\ now >= target * Step
        \/ s = "timer" /\ pc = "delay" /\ now >= due}

Tick ==
    /\ now < Horizon /\ Lags \subseteq Stalls
    /\ now' = now + 1
    /\ lagged' = (lagged \/ Lags # {})
    /\ UNCHANGED <<points, tail, avg, pc, bfVars, target, due, jobVars, faults>>

\* A poller saves a snapshot, stamped at most Lateness ticks ago: perhaps
\* before the process started, perhaps in the last second of its bucket.
Save ==
    /\ Running
    /\ \E lag \in 0..Lateness, last \in BOOLEAN : \E k \in Buckets :
        /\ lag <= now /\ k = (now - lag) \div Step
        /\ last => (now - lag) % Step = Step - 1
        /\ points[k] < MaxPoints
        /\ points' = [points EXCEPT ![k] = @ + 1]
        /\ tail' = [tail EXCEPT ![k] = IF last THEN @ + 1 ELSE @]
    /\ UNCHANGED <<now, avg, pc, bfVars, target, due, jobVars, lagged, faults>>

-----------------------------------------------------------------------------
(* The backfill at start.                                                  *)

\* Faulty variants: the window begins so many hours ago, inside a bucket; it
\* ends now and not with the last finished bucket; the last seconds of its
\* buckets are left out.
CutPoints(k) == IF RecentCutoff <= k /\ k < Current
                THEN IF k = Current - DayBuckets THEN points[k] \div 2 ELSE points[k]
                ELSE 0

OpenPoints(k) == IF RecentCutoff <= k /\ k <= Current THEN points[k] ELSE 0

ShortPoints(k) == IF RecentCutoff <= k /\ k < Current THEN points[k] - tail[k] ELSE 0

\* The points of bucket k in the window of the backfill: whole buckets, from
\* yesterday's first to the one before the current.
WindowPoints(k) == IF RecentCutoff <= k /\ k < Current THEN points[k] ELSE 0

\* One query for the whole window; an error gives the backfill up.
Start ==
    \E fails \in BOOLEAN :
        /\ pc = "down"
        /\ Inject("backfill read", fails)
        /\ bfEnd' = Current /\ bfFailed' = fails /\ bfSeen' = points
        /\ IF fails
           THEN pc' = "next" /\ bfTodo' = {} /\ bfRead' = [k \in Buckets |-> 0]
           ELSE /\ pc' = "backfill"
                /\ bfRead' = [k \in Buckets |-> WindowPoints(k)]
                /\ bfTodo' = {k \in Buckets : bfRead'[k] > 0}
        /\ UNCHANGED <<now, points, tail, avg, target, due, jobVars, lagged>>

\* insertAverageBucket for one group, in the order of a Go map; a failure
\* (three attempts) is logged.
BackfillInsert ==
    \E k \in bfTodo, fails \in BOOLEAN :
        /\ pc = "backfill"
        /\ Inject("backfill store", fails)
        /\ avg' = IF fails THEN avg ELSE [avg EXCEPT ![k] = bfRead[k]]
        /\ bfTodo' = bfTodo \ {k} /\ bfRead' = [bfRead EXCEPT ![k] = 0]
        /\ bfFailed' = (bfFailed \/ fails)
        /\ UNCHANGED <<now, points, tail, pc, bfEnd, bfSeen, target, due,
                       jobVars, lagged>>

BackfillDone ==
    /\ pc = "backfill" /\ bfTodo = {}
    /\ pc' = "next"
    /\ UNCHANGED <<now, points, tail, avg, bfVars, target, due, jobVars, lagged, faults>>

-----------------------------------------------------------------------------
(* The loop of runAccumulator.                                             *)

\* target = nextBoundary(now)
Aim ==
    /\ pc = "next"
    /\ target' = Current + 1
    /\ pc' = "wait"
    /\ UNCHANGED <<now, points, tail, avg, bfVars, due, jobVars, lagged, faults>>

BoundaryFires ==
    /\ pc = "wait" /\ now >= target * Step
    /\ pc' = "delay"
    /\ due' = now + Delay
    /\ UNCHANGED <<now, points, tail, avg, bfVars, target, jobVars, lagged, faults>>

\* Faulty variant: the delay is not waited for.
NoDelay == now <= Horizon

DelayOver == now >= due

\* Faulty variant: the bucket that has just begun is averaged too.
Started(k) == target <= k + 1 /\ k <= Current

Finished(k) == target <= k + 1 /\ k + 1 <= Current

\* Every boundary from target to the clock ends a bucket to average.
DelayFires ==
    /\ pc = "delay" /\ DelayOver
    /\ jobs' = [k \in Buckets |-> IF Finished(k) THEN "read" ELSE jobs[k]]
    /\ pc' = "next" /\ due' = 0
    /\ UNCHANGED <<now, points, tail, avg, bfVars, target, jobRead, lagged, faults>>

\* readBucketWindow asks for [start, end - 1 s].
LoopPoints(k) == points[k] - tail[k]

\* Faulty variant: an empty window is averaged too.
NeverEmpty(k) == LoopPoints(k) < 0

NoPoints(k) == LoopPoints(k) = 0

\* averageBucket: read the window; an error or an empty window ends it.
JobRead(k) ==
    \E fails \in BOOLEAN :
        /\ jobs[k] = "read"
        /\ Inject("read", fails)
        /\ IF fails \/ NoPoints(k)
           THEN jobs' = [jobs EXCEPT ![k] = "none"] /\ UNCHANGED jobRead
           ELSE /\ jobs' = [jobs EXCEPT ![k] = "write"]
                /\ jobRead' = [jobRead EXCEPT ![k] = LoopPoints(k)]
        /\ UNCHANGED <<now, points, tail, avg, pc, bfVars, target, due, lagged>>

\* The transaction runs on stopCtx: once the service stops, it fails.
JobWrite(k) ==
    \E fails \in BOOLEAN :
        /\ jobs[k] = "write"
        /\ Inject("store", fails)
        /\ avg' = IF fails \/ pc = "stopping" THEN avg
                  ELSE [avg EXCEPT ![k] = jobRead[k]]
        /\ jobs' = [jobs EXCEPT ![k] = "none"] /\ jobRead' = [jobRead EXCEPT ![k] = 0]
        /\ UNCHANGED <<now, points, tail, pc, bfVars, target, due, lagged>>

-----------------------------------------------------------------------------
(* Stopping: the signal cancels stopCtx, main waits for the goroutines.    *)

Stop ==
    /\ Running
    /\ Inject("stop", TRUE)
    /\ pc' = "stopping"
    /\ bfTodo' = {} /\ bfRead' = [k \in Buckets |-> 0]
    /\ UNCHANGED <<now, points, tail, avg, bfEnd, bfFailed, bfSeen, target, due,
                   jobVars, lagged>>

Exit ==
    /\ pc = "stopping" /\ \A k \in Buckets : jobs[k] = "none"
    /\ pc' = "down"
    /\ UNCHANGED <<now, points, tail, avg, bfVars, target, due, jobVars, lagged, faults>>

Crash ==
    /\ pc # "down"
    /\ Inject("crash", TRUE)
    /\ pc' = "down"
    /\ bfTodo' = {} /\ bfRead' = [k \in Buckets |-> 0]
    /\ jobs' = [k \in Buckets |-> "none"] /\ jobRead' = [k \in Buckets |-> 0]
    /\ UNCHANGED <<now, points, tail, avg, bfEnd, bfFailed, bfSeen, target, due, lagged>>

-----------------------------------------------------------------------------
Init ==
    /\ now = 0
    /\ points = [k \in Buckets |-> 0] /\ tail = [k \in Buckets |-> 0]
    /\ avg = [k \in Buckets |-> None]
    /\ pc = "down"
    /\ bfEnd = 0 /\ bfTodo = {} /\ bfFailed = FALSE
    /\ bfRead = [k \in Buckets |-> 0] /\ bfSeen = [k \in Buckets |-> 0]
    /\ target = 0 /\ due = 0
    /\ jobs = [k \in Buckets |-> "none"]
    /\ jobRead = [k \in Buckets |-> 0]
    /\ lagged = FALSE /\ faults = MaxFaults

Loop == \/ Start \/ BackfillInsert \/ BackfillDone
        \/ Aim \/ BoundaryFires \/ DelayFires \/ Exit

Job(k) == JobRead(k) \/ JobWrite(k)

Next == Tick \/ Save \/ Loop \/ (\E k \in Buckets : Job(k)) \/ Stop \/ Crash

Spec == Init /\ [][Next]_vars

\* Time passes, and every goroutine of the service is scheduled.
FairSpec ==
    /\ Spec
    /\ WF_vars(Tick) /\ WF_vars(Loop)
    /\ \A k \in Buckets : WF_vars(Job(k))

-----------------------------------------------------------------------------
TypeOK ==
    /\ now \in 0..Horizon
    /\ points \in [Buckets -> Counts] /\ tail \in [Buckets -> Counts]
    /\ \A k \in Buckets : tail[k] <= points[k]
    /\ avg \in [Buckets -> 1..MaxPoints \cup {None}]
    /\ pc \in {"down", "backfill", "next", "wait", "delay", "stopping"}
    /\ bfEnd \in Nat /\ bfRead \in [Buckets -> Counts]
    /\ bfTodo \subseteq Buckets /\ bfFailed \in BOOLEAN
    /\ bfSeen \in [Buckets -> Counts]
    /\ target \in Nat /\ due \in Nat
    /\ jobs \in [Buckets -> {"none", "read", "write"}]
    /\ jobRead \in [Buckets -> Counts]
    /\ lagged \in BOOLEAN /\ faults \in 0..MaxFaults

\* Only finished buckets are averaged, however late a timer fires: target is
\* fixed before the wait, and the clock is read again after it (comment of
\* runAccumulator on an unfinished bucket being averaged).
OnlyFinished ==
    /\ \A k \in Buckets : jobs[k] # "none" => now >= (k + 1) * Step
    /\ \A k \in bfTodo : now >= (k + 1) * Step

\* The backfill and the bucket goroutines share no bucket: neither can
\* overwrite what the other has averaged from fuller data.
OneWriter ==
    /\ \A k \in Buckets : jobs[k] # "none" => k >= bfEnd /\ k \notin bfTodo
    /\ \A k \in bfTodo : k < bfEnd

\* A bucket is averaged after its end, by one writer.
BucketsAreOwned == OnlyFinished /\ OneWriter

\* No write replaces an average by one made of fewer points, through
\* restarts, failed writes and late snapshots.
AverageNeverShrinks ==
    [][\A k \in Buckets : avg[k] # None => avg'[k] # None /\ avg'[k] >= avg[k]]_vars

\* A restart makes good what the process before it left out: past a backfill
\* that met no failure itself, every bucket from yesterday's first to the one
\* before the start is averaged from all the points it had, whatever crashed,
\* failed or was cancelled before.
RestartMakesGood ==
    pc \in {"next", "wait", "delay"} /\ ~bfFailed =>
        \A k \in Buckets :
            /\ (bfEnd \div DayBuckets - 1) * DayBuckets <= k /\ k < bfEnd
            /\ bfSeen[k] > 0
            => avg[k] = bfSeen[k]

\* "So that the intervals up to the running accumulation are not lost"
\* (comment of backfillAccumulator): a bucket with points before its last
\* second is averaged in the end.
EveryBucketAveraged ==
    \A k \in Buckets : LoopPoints(k) > 0 /\ k < Last ~> avg[k] # None

\* A process that keeps up with the clock and meets no failure averages every
\* bucket that ends after its start, and from all its points but those of its
\* last second: the delay is long enough for the late ones (comment of
\* avgDelay), and no more is left out than that second.
AveragesAreWhole ==
    ~lagged /\ faults = MaxFaults /\ pc = "wait" =>
        \A k \in Buckets :
            bfEnd <= k /\ k + 1 < target /\ jobs[k] = "none" /\ LoopPoints(k) > 0
            => avg[k] = LoopPoints(k)

\* What can be averaged is: by a punctual process, up to the last second of a
\* bucket, or by the next start, from all its points.
NothingLeftOut == RestartMakesGood /\ AveragesAreWhole

\* "The final writes at shutdown (averageBucket) must run with a live context,
\* or the bucket is lost" (comment of storeCtx in main).
StopLosesNothing ==
    [][\A k \in Buckets :
        pc = "stopping" /\ JobWrite(k) /\ faults' = faults
            => avg'[k] = jobRead[k]]_vars
=============================================================================
