------------------------- MODULE AccumulatorProofs --------------------------
(***************************************************************************)
(* What the averaging of buckets keeps for any lengths of bucket, delay    *)
(* and day, any buckets and points and any faults.                         *)
(*                                                                         *)
(* The writers are kept apart by the clock: the backfill has what ended    *)
(* before its start (Owned), the loop what ends after it (Ahead).  Never   *)
(* shrinking needs, besides, that whoever is about to write has read no    *)
(* less than the table shows (Fresh): the loop leaves out the last second  *)
(* of a bucket, but meets no average of a backfill.  Wholeness of a punctual process     *)
(* needs the exact moments at which its timers stand (OnTime).             *)
(***************************************************************************)
EXTENDS Accumulator, TLAPS

-----------------------------------------------------------------------------
(* Buckets and the clock.                                                  *)

LEMMA DivBounds ==
    ASSUME NEW n \in Nat, NEW s \in Nat \ {0}
    PROVE  n \div s \in Nat /\ (n \div s) * s <= n /\ n < (n \div s + 1) * s
OBVIOUS

LEMMA DivUnique ==
    ASSUME NEW n \in Nat, NEW s \in Nat \ {0}, NEW q \in Int, q * s <= n, n < (q + 1) * s
    PROVE  n \div s = q
OBVIOUS

LEMMA Scaled ==
    ASSUME NEW a \in Int, NEW b \in Int, NEW s \in Nat \ {0}, a <= b
    PROVE  a * s <= b * s
OBVIOUS

\* Between two boundaries the bucket stays the same.
LEMMA NoBoundary ==
    ASSUME NEW n \in Nat, NEW s \in Nat \ {0}, (n + 1) % s # 0
    PROVE  (n + 1) \div s = n \div s
<1>1. n \div s \in Nat /\ (n \div s) * s <= n /\ n < (n \div s + 1) * s
    BY DivBounds
<1>2. n + 1 # (n \div s + 1) * s
    <2>1. ((n \div s + 1) * s) % s = 0
        BY <1>1
    <2>. QED
        BY <2>1
<1>3. (n \div s) * s \in Nat /\ (n \div s + 1) * s \in Nat
    BY <1>1
<1>4. n + 1 \in Nat /\ (n \div s) * s <= n + 1 /\ n + 1 < (n \div s + 1) * s
    BY <1>1, <1>2, <1>3
<1>5. ASSUME NEW q \in Int, q * s <= n + 1, n + 1 < (q + 1) * s
      PROVE  (n + 1) \div s = q
    BY <1>4, <1>5, DivUnique
<1>6. n \div s \in Int
    BY <1>1
<1>. QED
    BY <1>4, <1>5, <1>6, Zenon

LEMMA Constants ==
    /\ Step \in Nat \ {0} /\ Delay \in Nat /\ Delay < Step /\ Last \in Nat
    /\ DayBuckets \in Nat \ {0} /\ Lateness \in Nat
    /\ MaxPoints \in Nat \ {0} /\ MaxFaults \in Nat /\ Horizon \in Nat
    /\ Buckets \subseteq Nat /\ Counts \subseteq Nat
    /\ None \notin Int
<1>1. /\ Step \in Nat \ {0} /\ Delay \in Nat /\ Delay < Step /\ Last \in Nat
      /\ DayBuckets \in Nat \ {0} /\ Lateness \in Nat
      /\ MaxPoints \in Nat \ {0} /\ MaxFaults \in Nat /\ None \notin Int
    BY AccumulatorAssumption
<1>2. Horizon \in Nat
    BY <1>1 DEF Horizon
<1>. QED
    BY <1>1, <1>2 DEF Buckets, Counts

\* The current bucket has begun and has not ended.
LEMMA CurrentBounds ==
    ASSUME now \in Nat
    PROVE  Current \in Nat /\ Current * Step <= now /\ now < (Current + 1) * Step
BY DivBounds, Constants DEF Current

\* A bucket before the current one has ended.
LEMMA BeforeCurrent ==
    ASSUME now \in Nat, NEW k \in Int, k < Current
    PROVE  (k + 1) * Step <= now
<1>1. Current \in Nat /\ Current * Step <= now /\ Step \in Nat \ {0}
    BY CurrentBounds, Constants
<1>2. k + 1 \in Int /\ k + 1 <= Current
    BY <1>1
<1>3. (k + 1) * Step <= Current * Step
    BY <1>1, <1>2, Scaled
<1>. QED
    BY <1>1, <1>2, <1>3

-----------------------------------------------------------------------------
(* The inductive invariant.                                                *)

\* The goroutines of a process end with it; only a backfill has buckets to do.
Tidy ==
    /\ pc = "down" => \A k \in Buckets : jobs[k] = "none"
    /\ pc # "backfill" => bfTodo = {}
    /\ pc = "backfill" => \A k \in Buckets : jobs[k] = "none"

\* The backfill stays before the first boundary the loop waits for.
Ahead == bfEnd * Step <= now /\ (pc \in {"wait", "delay"} => bfEnd < target)

\* What is averaged has ended.
Over(k) == (k + 1) * Step <= now

\* Whoever is about to write has read no less than the table shows; what no
\* backfill of this process covers is averaged by the loop, if at all.
Fresh ==
    /\ \A k \in Buckets : avg[k] # None =>
          /\ avg[k] <= points[k] /\ Over(k)
          /\ bfEnd <= k => avg[k] <= LoopPoints(k)
    /\ \A k \in bfTodo : 0 < bfRead[k] /\ (avg[k] # None => avg[k] <= bfRead[k])
    /\ \A k \in bfTodo : bfRead[k] <= points[k]
    /\ \A k \in Buckets : jobs[k] = "write" =>
          /\ 0 < jobRead[k] /\ jobRead[k] <= LoopPoints(k)
          /\ avg[k] # None => avg[k] <= jobRead[k]

\* The part of yesterday and today that the backfill of this process covers.
Backfilled(k) == (bfEnd \div DayBuckets - 1) * DayBuckets <= k /\ k < bfEnd

\* What the backfill has not written it still has to, as long as none failed.
Pending ==
    pc \in {"backfill", "next", "wait", "delay"} /\ ~bfFailed =>
        \A k \in Buckets : Backfilled(k) /\ bfSeen[k] > 0 =>
            IF k \in bfTodo THEN bfRead[k] = bfSeen[k] ELSE avg[k] = bfSeen[k]

Owned == BucketsAreOwned /\ Tidy /\ Ahead

IInv == TypeOK /\ Owned /\ Fresh /\ Pending

\* A process that has not lagged and met no failure.
Punctual == ~lagged /\ faults = MaxFaults

\* The buckets the loop has already passed to goroutines.
Passed(k) ==
    bfEnd <= k /\ IF pc \in {"wait", "delay"} THEN k + 1 < target ELSE k < Current

OnTime ==
    Punctual =>
        /\ pc # "stopping"
        /\ pc = "backfill" => bfEnd = Current
        /\ pc = "wait" => now <= target * Step
        /\ pc = "delay" => target * Step <= now /\ now <= due /\ due = target * Step + Delay

\* A passed bucket has got all its points and is read, written or averaged, but
\* for those of its last second.
Whole ==
    Punctual /\ pc # "down" => \A k \in Buckets : Passed(k) =>
        /\ (k + 1) * Step + Delay <= now
        /\ jobs[k] = "write" => jobRead[k] = LoopPoints(k)
        /\ jobs[k] = "none" /\ LoopPoints(k) > 0 => avg[k] = LoopPoints(k)

-----------------------------------------------------------------------------
(* Types.                                                                  *)

LEMMA InjectType ==
    ASSUME NEW kind, NEW happens \in BOOLEAN, faults \in 0..MaxFaults,
           Inject(kind, happens)
    PROVE  faults' \in 0..MaxFaults /\ faults' <= faults
BY Constants DEF Inject

\* Points and averages are numbers.
LEMMA Numbers ==
    ASSUME TypeOK, NEW k \in Buckets
    PROVE  /\ points[k] \in Nat /\ bfRead[k] \in Nat /\ bfSeen[k] \in Nat /\ jobRead[k] \in Nat
           /\ avg[k] # None => avg[k] \in Nat
           /\ tail[k] \in Nat /\ LoopPoints(k) \in Counts /\ LoopPoints(k) \in Nat
           /\ LoopPoints(k) <= points[k]
<1>1. MaxPoints \in Nat /\ Counts = 0..MaxPoints
    BY Constants DEF Counts
<1>2. /\ points[k] \in Counts /\ bfRead[k] \in Counts /\ bfSeen[k] \in Counts
      /\ jobRead[k] \in Counts /\ avg[k] \in 1..MaxPoints \cup {None}
      /\ tail[k] \in Counts /\ tail[k] <= points[k]
    BY DEF TypeOK
<1>. QED
    BY <1>1, <1>2 DEF LoopPoints

LEMMA TypeInit == Init => TypeOK
<1>. SUFFICES ASSUME Init PROVE TypeOK
    OBVIOUS
<1>1. 0 \in 0..Horizon /\ 0 \in Counts /\ MaxFaults \in 0..MaxFaults
    BY Constants DEF Counts
<1>2. \A k \in Buckets : points[k] = 0 /\ tail[k] = 0
    BY DEF Init
<1>3. \A k \in Buckets : tail[k] <= points[k]
    BY <1>2
<1>. QED
    BY <1>1, <1>3 DEF Init, TypeOK

\* A start reads its window, or nothing.
LEMMA StartReads ==
    ASSUME Start
    PROVE  \/ /\ pc' = "next" /\ bfFailed' = TRUE /\ bfTodo' = {}
              /\ bfRead' = [k \in Buckets |-> 0]
           \/ /\ pc' = "backfill" /\ bfFailed' = FALSE
              /\ bfRead' = [k \in Buckets |-> WindowPoints(k)]
              /\ bfTodo' = {k \in Buckets : WindowPoints(k) > 0}
<1>1. PICK fails \in BOOLEAN :
        /\ bfFailed' = fails
        /\ IF fails THEN pc' = "next" /\ bfTodo' = {} /\ bfRead' = [k \in Buckets |-> 0]
           ELSE /\ pc' = "backfill"
                /\ bfRead' = [k \in Buckets |-> WindowPoints(k)]
                /\ bfTodo' = {k \in Buckets : bfRead'[k] > 0}
    BY DEF Start
<1>2. CASE fails = TRUE
    BY <1>1, <1>2
<1>3. CASE fails = FALSE
    <2>1. /\ pc' = "backfill" /\ bfFailed' = FALSE
          /\ bfRead' = [k \in Buckets |-> WindowPoints(k)]
          /\ bfTodo' = {k \in Buckets : bfRead'[k] > 0}
        BY <1>1, <1>3
    <2>2. \A k \in Buckets : bfRead'[k] = WindowPoints(k)
        BY <2>1
    <2>. QED
        BY <2>1, <2>2
<1>. QED
    BY <1>2, <1>3

\* What a step writes into the table is a count of points.
LEMMA TypeStep == TypeOK /\ Fresh /\ [Next]_vars => TypeOK'
<1>. SUFFICES ASSUME TypeOK, Fresh, [Next]_vars PROVE TypeOK'
    OBVIOUS
<1>0. /\ MaxPoints \in Nat /\ Horizon \in Nat /\ now \in Nat /\ Current \in Nat
      /\ faults \in 0..MaxFaults /\ Delay \in Nat /\ Counts = 0..MaxPoints
    BY Constants, CurrentBounds DEF TypeOK, Counts
<1>1. CASE Tick
    <2>1. now' \in 0..Horizon
        BY <1>0, <1>1 DEF Tick
    <2>2. lagged' \in BOOLEAN
        BY <1>1 DEF Tick
    <2>. QED
        BY <1>1, <2>1, <2>2 DEF Tick, TypeOK, bfVars, jobVars
<1>2. CASE Save
    <2>2. PICK last \in BOOLEAN, j \in Buckets :
            /\ points[j] < MaxPoints /\ points' = [points EXCEPT ![j] = @ + 1]
            /\ tail' = [tail EXCEPT ![j] = IF last THEN @ + 1 ELSE @]
        BY <1>2 DEF Save
    <2>3. \A k \in Buckets : points[k] \in Counts /\ tail[k] \in Counts /\ tail[k] <= points[k]
        BY DEF TypeOK
    <2>4. ASSUME NEW k \in Buckets
          PROVE  points'[k] \in Counts /\ tail'[k] \in Counts /\ tail'[k] <= points'[k]
        <3>1. CASE k # j
            BY <2>2, <2>3, <3>1 DEF TypeOK
        <3>2. CASE k = j
            <4>1. points'[k] = points[k] + 1 /\ points[k] < MaxPoints
                BY <2>2, <3>2 DEF TypeOK
            <4>2. tail'[k] = tail[k] \/ tail'[k] = tail[k] + 1
                BY <2>2, <3>2 DEF TypeOK
            <4>. QED
                BY <1>0, <2>3, <4>1, <4>2
        <3>. QED
            BY <3>1, <3>2
    <2>1. /\ points' \in [Buckets -> Counts] /\ tail' \in [Buckets -> Counts]
          /\ \A k \in Buckets : tail'[k] <= points'[k]
        BY <2>2, <2>4 DEF TypeOK
    <2>. QED
        BY <1>2, <2>1 DEF Save, TypeOK, bfVars, jobVars
<1>3. CASE Start
    <2>1. faults' \in 0..MaxFaults
        BY <1>0, <1>3, InjectType DEF Start
    <2>2. \A k \in Buckets : WindowPoints(k) \in Counts
        BY <1>0 DEF WindowPoints, TypeOK
    <2>3. bfRead' \in [Buckets -> Counts] /\ bfTodo' \subseteq Buckets
        <3>1. CASE bfRead' = [k \in Buckets |-> 0] /\ bfTodo' = {}
            BY <1>0, <3>1
        <3>2. CASE /\ bfRead' = [k \in Buckets |-> WindowPoints(k)]
                   /\ bfTodo' = {k \in Buckets : WindowPoints(k) > 0}
            BY <2>2, <3>2
        <3>. QED
            BY <1>3, <3>1, <3>2, StartReads
    <2>4. bfEnd' \in Nat /\ bfFailed' \in BOOLEAN /\ bfSeen' \in [Buckets -> Counts]
        BY <1>0, <1>3 DEF Start, TypeOK
    <2>5. pc' \in {"next", "backfill"}
        BY <1>3 DEF Start
    <2>6. UNCHANGED <<now, points, tail, avg, target, due, jobs, jobRead, lagged>>
        BY <1>3 DEF Start, jobVars
    <2>. QED
        BY <2>1, <2>3, <2>4, <2>5, <2>6 DEF TypeOK
<1>4. CASE BackfillInsert
    <2>1. PICK k \in bfTodo, fails \in BOOLEAN :
            /\ Inject("backfill store", fails)
            /\ avg' = IF fails THEN avg ELSE [avg EXCEPT ![k] = bfRead[k]]
            /\ bfTodo' = bfTodo \ {k} /\ bfRead' = [bfRead EXCEPT ![k] = 0]
            /\ bfFailed' = (bfFailed \/ fails)
        BY <1>4 DEF BackfillInsert
    <2>2. bfRead[k] \in 1..MaxPoints
        BY <1>0 DEF Fresh, TypeOK
    <2>3. avg' \in [Buckets -> 1..MaxPoints \cup {None}]
        BY <2>1, <2>2 DEF TypeOK
    <2>4. faults' \in 0..MaxFaults
        BY <1>0, <2>1, InjectType
    <2>5. /\ bfTodo' \subseteq Buckets /\ bfFailed' \in BOOLEAN
          /\ bfRead' \in [Buckets -> Counts]
        <3>1. 0 \in Counts
            BY <1>0
        <3>. QED
            BY <2>1, <3>1 DEF TypeOK
    <2>6. UNCHANGED <<now, points, tail, pc, bfEnd, bfSeen, target, due, jobs, jobRead,
                      lagged>>
        BY <1>4 DEF BackfillInsert, jobVars
    <2>. QED
        BY <2>3, <2>4, <2>5, <2>6 DEF TypeOK
<1>5. CASE BackfillDone \/ Exit
    BY <1>5 DEF BackfillDone, Exit, TypeOK, bfVars, jobVars
<1>6. CASE Aim
    <2>1. target' \in Nat
        BY <1>0, <1>6 DEF Aim
    <2>. QED
        BY <1>6, <2>1 DEF Aim, TypeOK, bfVars, jobVars
<1>7. CASE BoundaryFires
    <2>1. due' \in Nat
        BY <1>0, <1>7 DEF BoundaryFires
    <2>. QED
        BY <1>7, <2>1 DEF BoundaryFires, TypeOK, bfVars, jobVars
<1>8. CASE DelayFires
    <2>1. jobs' \in [Buckets -> {"none", "read", "write"}] /\ due' \in Nat
        BY <1>8 DEF DelayFires, TypeOK
    <2>. QED
        BY <1>8, <2>1 DEF DelayFires, TypeOK, bfVars
<1>9. ASSUME NEW k \in Buckets, JobRead(k) PROVE TypeOK'
    <2>1. faults' \in 0..MaxFaults
        BY <1>0, <1>9, InjectType DEF JobRead
    <2>2. jobs' \in [Buckets -> {"none", "read", "write"}]
        BY <1>9 DEF JobRead, TypeOK
    <2>3. jobRead' \in [Buckets -> Counts]
        BY <1>9, Numbers DEF JobRead, TypeOK
    <2>. QED
        BY <1>9, <2>1, <2>2, <2>3 DEF JobRead, TypeOK, bfVars
<1>10. ASSUME NEW k \in Buckets, JobWrite(k) PROVE TypeOK'
    <2>1. faults' \in 0..MaxFaults
        BY <1>0, <1>10, InjectType DEF JobWrite
    <2>2. jobs' \in [Buckets -> {"none", "read", "write"}] /\ jobRead' \in [Buckets -> Counts]
        BY <1>0, <1>10 DEF JobWrite, TypeOK
    <2>3. jobRead[k] \in 1..MaxPoints
        BY <1>0, <1>10 DEF JobWrite, Fresh, TypeOK
    <2>4. avg' \in [Buckets -> 1..MaxPoints \cup {None}]
        BY <1>10, <2>3 DEF JobWrite, TypeOK
    <2>. QED
        BY <1>10, <2>1, <2>2, <2>4 DEF JobWrite, TypeOK, bfVars
<1>11. CASE Stop \/ Crash
    <2>1. faults' \in 0..MaxFaults
        BY <1>0, <1>11, InjectType DEF Stop, Crash
    <2>2. [k \in Buckets |-> 0] \in [Buckets -> Counts]
        BY <1>0
    <2>3. jobs' \in [Buckets -> {"none", "read", "write"}] /\ jobRead' \in [Buckets -> Counts]
        <3>1. CASE Stop
            BY <3>1 DEF Stop, TypeOK, jobVars
        <3>2. CASE Crash
            BY <2>2, <3>2 DEF Crash
        <3>. QED
            BY <1>11, <3>1, <3>2
    <2>4. /\ bfTodo' \subseteq Buckets /\ pc' \in {"down", "stopping"}
          /\ bfRead' \in [Buckets -> Counts]
        BY <1>11, <2>2 DEF Stop, Crash
    <2>5. UNCHANGED <<now, points, tail, avg, bfEnd, bfFailed, bfSeen, target, due, lagged>>
        BY <1>11 DEF Stop, Crash
    <2>. QED
        BY <2>1, <2>3, <2>4, <2>5 DEF TypeOK
<1>12. CASE UNCHANGED vars
    BY <1>12 DEF vars, TypeOK
<1>. QED
    BY <1>1, <1>2, <1>3, <1>4, <1>5, <1>6, <1>7, <1>8, <1>9, <1>10, <1>11, <1>12
       DEF Next, Loop, Job

-----------------------------------------------------------------------------
(* Finished buckets, one writer each.                                      *)

LEMMA OwnedInit == Init => Owned
BY Constants DEF Init, Owned, BucketsAreOwned, OnlyFinished, OneWriter, Tidy, Ahead

LEMMA OwnedStep == TypeOK /\ Owned /\ [Next]_vars => Owned'
<1>. SUFFICES ASSUME TypeOK, Owned, [Next]_vars PROVE Owned'
    OBVIOUS
<1>. USE DEF Owned, BucketsAreOwned, OnlyFinished, OneWriter, Tidy, Ahead
<1>0. /\ now \in Nat /\ Current \in Nat /\ Current * Step <= now
      /\ Step \in Nat \ {0} /\ Buckets \subseteq Nat
      /\ bfEnd \in Nat /\ target \in Nat
    BY Constants, CurrentBounds DEF TypeOK
<1>1. CASE Tick
    <2>1. UNCHANGED <<pc, bfEnd, bfTodo, target, jobs>> /\ now' = now + 1
        BY <1>1 DEF Tick, bfVars, jobVars
    <2>2. \A k \in Buckets : now >= (k + 1) * Step => now' >= (k + 1) * Step
        BY <1>0, <2>1
    <2>3. bfEnd * Step <= now'
        BY <1>0, <2>1
    <2>. QED
        BY <2>1, <2>2, <2>3 DEF TypeOK
<1>2. CASE Start
    <2>1. /\ pc = "down" /\ bfEnd' = Current
          /\ UNCHANGED <<now, target, jobs>>
        BY <1>2 DEF Start, jobVars
    <2>2. pc' \in {"next", "backfill"} /\ (pc' = "next" => bfTodo' = {})
        BY <1>2, StartReads
    <2>3. ASSUME NEW k \in bfTodo' PROVE k \in Buckets /\ k < Current
        <3>1. k \in Buckets /\ WindowPoints(k) > 0
            BY <1>2, <2>3, StartReads
        <3>. QED
            BY <3>1 DEF WindowPoints
    <2>4. ASSUME NEW k \in bfTodo' PROVE now' >= (k + 1) * Step
        <3>1. k \in Int /\ k < Current
            <4>1. k \in Buckets /\ k < Current
                BY <2>3, <2>4
            <4>2. k \in Nat
                BY <1>0, <4>1
            <4>. QED
                BY <4>1, <4>2
        <3>2. (k + 1) * Step <= now /\ (k + 1) * Step \in Int
            BY <1>0, <3>1, BeforeCurrent
        <3>. QED
            BY <1>0, <2>1, <3>2
    <2>. QED
        BY <1>0, <2>1, <2>2, <2>3, <2>4
<1>3. CASE Aim
    <2>1. UNCHANGED <<now, bfEnd, bfTodo, jobs>> /\ pc = "next" /\ pc' = "wait"
        BY <1>3 DEF Aim, bfVars, jobVars
    <2>2. bfEnd < target'
        <3>1. target' = Current + 1
            BY <1>3 DEF Aim
        <3>2. ~(Current + 1 <= bfEnd)
            <4>1. (Current + 1) * Step > now
                BY <1>0, CurrentBounds
            <4>2. Current + 1 <= bfEnd => (Current + 1) * Step <= bfEnd * Step
                BY <1>0, Scaled
            <4>3. (Current + 1) * Step \in Int /\ bfEnd * Step \in Int
                BY <1>0
            <4>. QED
                BY <1>0, <4>1, <4>2, <4>3
        <3>. QED
            BY <1>0, <3>1, <3>2
    <2>. QED
        BY <1>0, <2>1, <2>2
<1>4. CASE DelayFires
    <2>1. /\ pc = "delay" /\ pc' = "next" /\ UNCHANGED <<now, bfEnd, bfTodo, target>>
          /\ jobs' = [k \in Buckets |-> IF Finished(k) THEN "read" ELSE jobs[k]]
        BY <1>4 DEF DelayFires, bfVars
    <2>2. ASSUME NEW k \in Buckets, Finished(k)
          PROVE  (k + 1) * Step <= now /\ k >= bfEnd
        <3>1. target <= k + 1 /\ k < Current /\ k \in Nat
            BY <1>0, <2>2 DEF Finished
        <3>2. (k + 1) * Step <= now
            BY <1>0, <3>1, BeforeCurrent
        <3>. QED
            BY <1>0, <2>1, <3>1, <3>2
    <2>3. bfTodo = {}
        BY <2>1
    <2>4. \A k \in Buckets : jobs'[k] # "none" => Finished(k) \/ jobs[k] # "none"
        BY <2>1
    <2>. QED
        BY <1>0, <2>1, <2>2, <2>3, <2>4
<1>5. ASSUME NEW k \in Buckets, Job(k) PROVE Owned'
    <2>1. UNCHANGED <<now, pc, bfEnd, bfTodo, target>>
        BY <1>5 DEF Job, JobRead, JobWrite, bfVars
    <2>2. \A j \in Buckets : jobs'[j] # "none" => jobs[j] # "none"
        BY <1>5 DEF Job, JobRead, JobWrite, TypeOK
    <2>. QED
        BY <2>1, <2>2
<1>6. CASE Save \/ UNCHANGED vars
    BY <1>6 DEF Save, bfVars, jobVars, vars
<1>7. CASE BackfillInsert
    <2>1. bfTodo' \subseteq bfTodo /\ pc = "backfill" /\ UNCHANGED <<now, pc, bfEnd, target, jobs>>
        BY <1>7 DEF BackfillInsert, jobVars
    <2>. QED
        BY <2>1
<1>8. CASE BackfillDone \/ BoundaryFires
    BY <1>8 DEF BackfillDone, BoundaryFires, bfVars, jobVars
<1>9. CASE Stop \/ Crash \/ Exit
    <2>1. /\ pc' \in {"down", "stopping"} /\ bfTodo' = {} /\ UNCHANGED <<now, bfEnd>>
          /\ \A k \in Buckets : jobs'[k] # "none" => jobs[k] # "none"
        BY <1>9 DEF Stop, Crash, Exit, jobVars, bfVars
    <2>2. pc' = "down" => \A k \in Buckets : jobs'[k] = "none"
        BY <1>9 DEF Stop, Crash, Exit, jobVars
    <2>. QED
        BY <2>1, <2>2
<1>. QED
    BY <1>1, <1>2, <1>3, <1>4, <1>5, <1>6, <1>7, <1>8, <1>9 DEF Next, Loop

-----------------------------------------------------------------------------
(* What is about to be written is not less than what is there.             *)

LEMMA FreshInit == Init => Fresh
BY DEF Init, Fresh

LEMMA FreshStep == TypeOK /\ Owned /\ Fresh /\ [Next]_vars => Fresh'
<1>. SUFFICES ASSUME TypeOK, Owned, Fresh, [Next]_vars PROVE Fresh'
    OBVIOUS
<1>0. /\ Counts \subseteq Nat /\ None \notin Int /\ Buckets \subseteq Nat
      /\ now \in Nat /\ bfEnd \in Nat /\ bfTodo \subseteq Buckets
      /\ \A k \in Buckets : points[k] \in Nat /\ bfRead[k] \in Nat /\ jobRead[k] \in Nat
      /\ \A k \in Buckets : LoopPoints(k) \in Nat /\ LoopPoints(k) <= points[k]
      /\ \A k \in Buckets : avg[k] # None => avg[k] \in Nat
    BY Constants, Numbers DEF TypeOK
<1>1. CASE Save
    <2>1. \A k \in Buckets : /\ points[k] <= points'[k] /\ points'[k] \in Nat
                            /\ LoopPoints(k) <= LoopPoints(k)' /\ LoopPoints(k)' \in Nat
        <3>1. PICK last \in BOOLEAN, k \in Buckets :
                /\ points' = [points EXCEPT ![k] = @ + 1]
                /\ tail' = [tail EXCEPT ![k] = IF last THEN @ + 1 ELSE @]
            BY <1>1 DEF Save
        <3>2. ASSUME NEW j \in Buckets
              PROVE  \/ points'[j] = points[j] /\ tail'[j] = tail[j]
                     \/ points'[j] = points[j] + 1 /\ tail'[j] = tail[j]
                     \/ points'[j] = points[j] + 1 /\ tail'[j] = tail[j] + 1
            BY <3>1 DEF TypeOK
        <3>3. ASSUME NEW j \in Buckets
              PROVE  points[j] \in Nat /\ tail[j] \in Nat /\ tail[j] <= points[j]
            BY Numbers DEF TypeOK
        <3>. QED
            BY <3>2, <3>3 DEF LoopPoints
    <2>2. UNCHANGED <<now, bfEnd, avg, bfTodo, bfRead, jobs, jobRead>>
        BY <1>1 DEF Save, bfVars, jobVars
    <2>. QED
        BY <1>0, <2>1, <2>2 DEF Fresh, Over
<1>2. CASE Start
    <2>1. UNCHANGED <<now, points, tail, avg, jobs, jobRead>> /\ bfEnd' = Current
        BY <1>2 DEF Start, jobVars
    <2>2. ASSUME NEW k \in bfTodo' PROVE k \in Buckets /\ 0 < bfRead'[k] /\ bfRead'[k] = points[k]
        <3>1. CASE bfTodo' = {}
            BY <2>2, <3>1
        <3>2. CASE /\ bfRead' = [j \in Buckets |-> WindowPoints(j)]
                   /\ bfTodo' = {j \in Buckets : WindowPoints(j) > 0}
            <4>1. k \in Buckets /\ WindowPoints(k) > 0 /\ bfRead'[k] = WindowPoints(k)
                BY <2>2, <3>2
            <4>2. WindowPoints(k) = points[k]
                BY <4>1 DEF WindowPoints
            <4>. QED
                BY <1>0, <4>1, <4>2
        <3>. QED
            BY <1>2, <3>1, <3>2, StartReads
    <2>3. ASSUME NEW k \in Buckets, Current <= k PROVE avg[k] = None
        <3>1. /\ Current \in Nat /\ now < (Current + 1) * Step /\ Step \in Nat \ {0}
              /\ k \in Nat /\ (Current + 1) * Step \in Nat
            BY <1>0, CurrentBounds, Constants
        <3>2. (Current + 1) * Step <= (k + 1) * Step /\ (k + 1) * Step \in Nat
            BY <2>3, <3>1, Scaled
        <3>3. ~Over(k)
            BY <1>0, <3>1, <3>2 DEF Over
        <3>. QED
            BY <3>3 DEF Fresh
    <2>4. \A k \in Buckets : LoopPoints(k)' = LoopPoints(k) /\ (Over(k)' <=> Over(k))
        BY <2>1 DEF LoopPoints, Over
    <2>5. \A k \in Buckets : avg'[k] # None =>
             /\ avg'[k] <= points'[k] /\ Over(k)'
             /\ bfEnd' <= k => avg'[k] <= LoopPoints(k)'
        BY <2>1, <2>3, <2>4 DEF Fresh
    <2>6. \A k \in bfTodo' : /\ 0 < bfRead'[k] /\ (avg'[k] # None => avg'[k] <= bfRead'[k])
                             /\ bfRead'[k] <= points'[k]
        <3>. TAKE k \in bfTodo'
        <3>1. /\ k \in Buckets /\ 0 < bfRead'[k] /\ bfRead'[k] = points[k]
              /\ points'[k] = points[k] /\ avg'[k] = avg[k] /\ points[k] \in Nat
            BY <1>0, <2>1, <2>2
        <3>2. avg[k] # None => avg[k] <= points[k]
            BY <3>1 DEF Fresh
        <3>. QED
            BY <3>1, <3>2
    <2>7. \A k \in Buckets : jobs'[k] # "write"
        BY <1>2, <2>1 DEF Start, Owned, Tidy
    <2>. QED
        BY <2>5, <2>6, <2>7 DEF Fresh
<1>3. CASE BackfillInsert
    <2>1. PICK k \in bfTodo :
            /\ avg' = avg \/ avg' = [avg EXCEPT ![k] = bfRead[k]]
            /\ bfTodo' = bfTodo \ {k} /\ bfRead' = [bfRead EXCEPT ![k] = 0]
        BY <1>3 DEF BackfillInsert
    <2>2. UNCHANGED <<now, points, tail, bfEnd, jobs, jobRead>> /\ pc = "backfill"
        BY <1>3 DEF BackfillInsert, jobVars
    <2>3. \A j \in Buckets : jobs[j] # "write"
        BY <2>2 DEF Owned, Tidy
    <2>4. \A j \in Buckets : avg'[j] = avg[j] \/ (j = k /\ avg'[j] = bfRead[j])
        BY <2>1 DEF TypeOK
    <2>5. Over(k) /\ k < bfEnd /\ k \in Buckets
        <3>1. now >= (k + 1) * Step /\ k < bfEnd /\ k \in Buckets
            BY <1>0 DEF Owned, BucketsAreOwned, OnlyFinished, OneWriter
        <3>2. (k + 1) * Step \in Int
            BY <1>0, <3>1, Constants
        <3>. QED
            BY <1>0, <3>1, <3>2 DEF Over
    <2>6. \A j \in Buckets : LoopPoints(j)' = LoopPoints(j) /\ (Over(j)' <=> Over(j))
        BY <2>2 DEF LoopPoints, Over
    <2>7. \A j \in bfTodo' : j # k /\ j \in bfTodo /\ bfRead'[j] = bfRead[j]
        BY <1>0, <2>1 DEF TypeOK
    <2>8. \A j \in Buckets : avg'[j] # None =>
             /\ avg'[j] <= points'[j] /\ Over(j)'
             /\ bfEnd' <= j => avg'[j] <= LoopPoints(j)'
        BY <1>0, <2>2, <2>4, <2>5, <2>6 DEF Fresh
    <2>9. \A j \in bfTodo' : /\ 0 < bfRead'[j] /\ (avg'[j] # None => avg'[j] <= bfRead'[j])
                             /\ bfRead'[j] <= points'[j]
        BY <1>0, <2>2, <2>4, <2>7 DEF Fresh
    <2>. QED
        BY <2>2, <2>3, <2>8, <2>9 DEF Fresh
<1>4. ASSUME NEW k \in Buckets, JobRead(k) PROVE Fresh'
    <2>1. UNCHANGED <<now, points, tail, bfEnd, avg, bfTodo, bfRead>>
        BY <1>4 DEF JobRead, bfVars
    <2>2. ASSUME NEW j \in Buckets, jobs'[j] = "write"
          PROVE  \/ jobs[j] = "write" /\ jobRead'[j] = jobRead[j]
                 \/ jobs[j] = "read" /\ jobRead'[j] = LoopPoints(j) /\ LoopPoints(j) # 0
        BY <1>4, <2>2 DEF JobRead, NoPoints, TypeOK
    <2>3. \A j \in Buckets : jobs[j] = "read" => bfEnd <= j
        BY <1>0 DEF Owned, BucketsAreOwned, OneWriter
    <2>4. \A j \in Buckets : LoopPoints(j)' = LoopPoints(j) /\ (Over(j)' <=> Over(j))
        BY <2>1 DEF LoopPoints, Over
    <2>. QED
        BY <1>0, <2>1, <2>2, <2>3, <2>4 DEF Fresh
<1>5. ASSUME NEW k \in Buckets, JobWrite(k) PROVE Fresh'
    <2>1. UNCHANGED <<now, points, tail, bfEnd, bfTodo, bfRead>>
        BY <1>5 DEF JobWrite, bfVars
    <2>2. \A j \in Buckets : avg'[j] = avg[j] \/ (j = k /\ avg'[j] = jobRead[j])
        BY <1>5 DEF JobWrite, TypeOK
    <2>3. /\ jobs[k] = "write"
          /\ \A j \in Buckets : jobs'[j] = "write" =>
                j # k /\ jobs[j] = "write" /\ jobRead'[j] = jobRead[j]
        BY <1>5 DEF JobWrite, TypeOK
    <2>4. k \notin bfTodo
        BY <2>3 DEF Owned, BucketsAreOwned, OneWriter
    <2>5. Over(k)
        <3>1. now >= (k + 1) * Step /\ (k + 1) * Step \in Int
            BY <1>0, <2>3, Constants DEF Owned, BucketsAreOwned, OnlyFinished
        <3>. QED
            BY <1>0, <3>1 DEF Over
    <2>6. \A j \in Buckets : LoopPoints(j)' = LoopPoints(j) /\ (Over(j)' <=> Over(j))
        BY <2>1 DEF LoopPoints, Over
    <2>. QED
        BY <1>0, <2>1, <2>2, <2>3, <2>4, <2>5, <2>6 DEF Fresh
<1>6. CASE Tick
    <2>1. UNCHANGED <<points, tail, avg, bfEnd, bfRead, bfTodo, jobs, jobRead>> /\ now' = now + 1
        BY <1>6 DEF Tick, bfVars, jobVars
    <2>2. \A j \in Buckets : LoopPoints(j)' = LoopPoints(j)
        BY <2>1 DEF LoopPoints
    <2>3. ASSUME NEW j \in Buckets, Over(j) PROVE Over(j)'
        <3>1. (j + 1) * Step \in Nat
            BY <1>0, Constants
        <3>. QED
            BY <1>0, <2>1, <2>3, <3>1 DEF Over
    <2>. QED
        BY <2>1, <2>2, <2>3 DEF Fresh
<1>7. CASE BackfillDone \/ Aim \/ BoundaryFires \/ Exit \/ UNCHANGED vars
    BY <1>7 DEF BackfillDone, Aim, BoundaryFires, Exit, vars, bfVars, jobVars, Fresh, Over, LoopPoints
<1>8. CASE DelayFires \/ Stop \/ Crash
    <2>1. UNCHANGED <<now, points, tail, avg, bfEnd>>
        BY <1>8 DEF DelayFires, Stop, Crash, bfVars
    <2>2. \A j \in Buckets : jobs'[j] = "write" => jobs[j] = "write" /\ jobRead'[j] = jobRead[j]
        BY <1>8 DEF DelayFires, Stop, Crash, jobVars
    <2>3. bfTodo' = {} \/ UNCHANGED <<bfTodo, bfRead>>
        BY <1>8 DEF DelayFires, Stop, Crash, bfVars
    <2>4. \A j \in Buckets : LoopPoints(j)' = LoopPoints(j) /\ (Over(j)' <=> Over(j))
        BY <2>1 DEF LoopPoints, Over
    <2>. QED
        BY <2>1, <2>2, <2>3, <2>4 DEF Fresh
<1>. QED
    BY <1>1, <1>2, <1>3, <1>4, <1>5, <1>6, <1>7, <1>8 DEF Next, Loop, Job

LEMMA OwnedFresh == Spec => [](TypeOK /\ Owned /\ Fresh)
    BY TypeInit, TypeStep, OwnedInit, OwnedStep, FreshInit, FreshStep, PTL DEF Spec

\* Buckets, table and goroutines keep their types; what is written is a count
\* of points and never none.
THEOREM TypeCorrect == Spec => []TypeOK
    BY OwnedFresh, PTL

\* However late a timer fires and wherever a restart falls: a bucket is
\* averaged after its end, and by the backfill or the loop, never by both.
THEOREM BucketsAreOwnedCorrect == Spec => []BucketsAreOwned
    BY OwnedFresh, PTL DEF Owned

\* Through restarts, failed writes and late snapshots no average gives way to
\* one of fewer points.
THEOREM AverageNeverShrinksCorrect == Spec => AverageNeverShrinks
<1>1. TypeOK /\ Fresh /\ [Next]_vars
        => [\A k \in Buckets : avg[k] # None => avg'[k] # None /\ avg'[k] >= avg[k]]_vars
    <2>. SUFFICES ASSUME TypeOK, Fresh, [Next]_vars, NEW k \in Buckets, avg[k] # None
                  PROVE  avg'[k] # None /\ avg'[k] >= avg[k]
        OBVIOUS
    <2>1. avg[k] \in Nat /\ bfRead[k] \in Nat /\ jobRead[k] \in Nat
        BY Numbers
    <2>2. CASE avg'[k] = avg[k]
        BY <2>1, <2>2
    <2>3. CASE BackfillInsert /\ avg'[k] # avg[k]
        <3>1. PICK j \in bfTodo : avg' = avg \/ avg' = [avg EXCEPT ![j] = bfRead[j]]
            BY <2>3 DEF BackfillInsert
        <3>2. k \in bfTodo /\ avg'[k] = bfRead[k]
            BY <2>3, <3>1 DEF TypeOK
        <3>. QED
            BY <2>1, <3>2, Constants DEF Fresh
    <2>4. ASSUME NEW j \in Buckets, JobWrite(j), avg'[k] # avg[k]
          PROVE  avg'[k] # None /\ avg'[k] >= avg[k]
        <3>1. jobs[k] = "write" /\ avg'[k] = jobRead[k]
            BY <2>4 DEF JobWrite, TypeOK
        <3>. QED
            BY <2>1, <3>1, Constants DEF Fresh
    <2>5. \/ BackfillInsert
          \/ \E j \in Buckets : JobWrite(j)
          \/ avg' = avg
        BY DEF Next, Loop, Job, Tick, Save, Start, BackfillDone, Aim, BoundaryFires,
           DelayFires, Exit, JobRead, Stop, Crash, vars
    <2>. QED
        BY <2>2, <2>3, <2>4, <2>5
<1>. QED
    BY <1>1, OwnedFresh, PTL DEF Spec, AverageNeverShrinks

-----------------------------------------------------------------------------
(* What a restart makes good.                                              *)

LEMMA PendingInit == Init => Pending
BY DEF Init, Pending

LEMMA PendingStep == TypeOK /\ Owned /\ Pending /\ [Next]_vars => Pending'
<1>. SUFFICES ASSUME TypeOK, Owned, Pending, [Next]_vars,
                     pc' \in {"backfill", "next", "wait", "delay"}, ~bfFailed',
                     NEW k \in Buckets, Backfilled(k)', bfSeen'[k] > 0
              PROVE  IF k \in bfTodo' THEN bfRead'[k] = bfSeen'[k] ELSE avg'[k] = bfSeen'[k]
    BY DEF Pending
<1>0. Buckets \subseteq Nat /\ bfEnd \in Nat
    BY Constants DEF TypeOK
<1>1. CASE Start
    <2>1. bfEnd' = Current /\ bfSeen' = points
        BY <1>1 DEF Start
    <2>2. /\ bfRead' = [j \in Buckets |-> WindowPoints(j)]
          /\ bfTodo' = {j \in Buckets : WindowPoints(j) > 0}
        BY <1>1, StartReads
    <2>3. WindowPoints(k) = points[k]
        BY <2>1 DEF WindowPoints, Backfilled, RecentCutoff
    <2>. QED
        BY <2>1, <2>2, <2>3
<1>2. CASE BackfillInsert
    <2>1. PICK j \in bfTodo, fails \in BOOLEAN :
            /\ avg' = IF fails THEN avg ELSE [avg EXCEPT ![j] = bfRead[j]]
            /\ bfTodo' = bfTodo \ {j} /\ bfRead' = [bfRead EXCEPT ![j] = 0]
            /\ bfFailed' = (bfFailed \/ fails)
        BY <1>2 DEF BackfillInsert
    <2>2. pc = "backfill" /\ UNCHANGED <<bfEnd, bfSeen>>
        BY <1>2 DEF BackfillInsert
    <2>3. ~bfFailed /\ avg' = [avg EXCEPT ![j] = bfRead[j]] /\ j \in Buckets
        BY <2>1 DEF TypeOK
    <2>4. IF k \in bfTodo THEN bfRead[k] = bfSeen[k] ELSE avg[k] = bfSeen[k]
        BY <2>2, <2>3 DEF Pending, Backfilled
    <2>. QED
        BY <2>1, <2>2, <2>3, <2>4 DEF TypeOK
<1>3. ASSUME NEW j \in Buckets, Job(j)
      PROVE  IF k \in bfTodo' THEN bfRead'[k] = bfSeen'[k] ELSE avg'[k] = bfSeen'[k]
    <2>1. UNCHANGED <<pc, bfEnd, bfRead, bfTodo, bfFailed, bfSeen>>
        BY <1>3 DEF Job, JobRead, JobWrite, bfVars
    <2>2. jobs[j] # "none"
        BY <1>3 DEF Job, JobRead, JobWrite
    <2>3. j # k
        BY <1>0, <2>1, <2>2 DEF Owned, BucketsAreOwned, OneWriter, Backfilled
    <2>4. avg'[k] = avg[k]
        BY <1>3, <2>3 DEF Job, JobRead, JobWrite, TypeOK
    <2>. QED
        BY <2>1, <2>4 DEF Pending, Backfilled
<1>4. CASE Tick \/ Save \/ BackfillDone \/ Aim \/ BoundaryFires \/ DelayFires \/ UNCHANGED vars
    <2>1. /\ UNCHANGED <<bfEnd, bfRead, bfTodo, bfFailed, bfSeen, avg>>
          /\ pc \in {"backfill", "next", "wait", "delay"}
        BY <1>4 DEF Tick, Save, BackfillDone, Aim, BoundaryFires, DelayFires, vars, bfVars
    <2>. QED
        BY <2>1 DEF Pending, Backfilled
<1>5. CASE Stop \/ Crash \/ Exit
    BY <1>5 DEF Stop, Crash, Exit
<1>. QED
    BY <1>1, <1>2, <1>3, <1>4, <1>5 DEF Next, Loop

LEMMA PendingCorrect == Spec => [](TypeOK /\ Owned /\ Pending)
    BY OwnedFresh, PendingInit, PendingStep, PTL DEF Spec

\* Past a backfill that met no failure, every bucket of yesterday and today
\* before the start is averaged from all the points it had then.
THEOREM RestartMakesGoodCorrect == Spec => []RestartMakesGood
<1>1. TypeOK /\ Owned /\ Pending => RestartMakesGood
    <2>. SUFFICES ASSUME Owned, Pending, pc \in {"next", "wait", "delay"}, ~bfFailed,
                         NEW k \in Buckets, Backfilled(k), bfSeen[k] > 0
                  PROVE  avg[k] = bfSeen[k]
        BY DEF RestartMakesGood, Backfilled
    <2>1. k \notin bfTodo
        BY DEF Owned, Tidy
    <2>. QED
        BY <2>1 DEF Pending
<1>. QED
    BY <1>1, PendingCorrect, PTL

-----------------------------------------------------------------------------
(* A punctual process averages every bucket from all its points.           *)

\* The delay outlasts the points that are stamped with an earlier time.
LateInTime == Lateness <= Delay

LEMMA OnTimeInit == Init => OnTime /\ Whole
BY DEF Init, OnTime, Whole

\* Faults are spent, and lagging is remembered.
LEMMA PunctualBefore ==
    ASSUME TypeOK, [Next]_vars, Punctual'
    PROVE  /\ Punctual
           /\ faults' = faults
           /\ ~Stop /\ ~Crash
           /\ \A kind : \A happens \in BOOLEAN : Inject(kind, happens) => ~happens
<1>0. MaxFaults \in Nat /\ faults \in 0..MaxFaults /\ faults \in Nat
    BY Constants DEF TypeOK
<1>1. faults' <= faults
    <2>1. CASE Start \/ BackfillInsert
        BY <1>0, <2>1, InjectType DEF Start, BackfillInsert
    <2>2. ASSUME NEW k \in Buckets, Job(k) PROVE faults' <= faults
        BY <1>0, <2>2, InjectType DEF Job, JobRead, JobWrite
    <2>3. CASE Stop \/ Crash
        BY <1>0, <2>3, InjectType DEF Stop, Crash
    <2>4. CASE \/ Tick \/ Save \/ BackfillDone \/ Aim \/ BoundaryFires \/ DelayFires \/ Exit
               \/ UNCHANGED vars
        BY <1>0, <2>4 DEF Tick, Save, BackfillDone, Aim, BoundaryFires, DelayFires, Exit, vars
    <2>. QED
        BY <2>1, <2>2, <2>3, <2>4 DEF Next, Loop
<1>2. faults' = MaxFaults /\ faults = MaxFaults
    BY <1>0, <1>1 DEF Punctual
<1>3. ~lagged
    <2>1. lagged' = lagged \/ lagged' = (lagged \/ Lags # {})
        BY DEF Next, Tick, Save, Loop, Start, BackfillInsert, BackfillDone, Aim,
           BoundaryFires, DelayFires, Exit, Job, JobRead, JobWrite, Stop, Crash, vars
    <2>. QED
        BY <2>1 DEF Punctual, TypeOK
<1>4. ASSUME NEW kind, NEW happens \in BOOLEAN, Inject(kind, happens) PROVE ~happens
    BY <1>0, <1>2, <1>4 DEF Inject
<1>. QED
    BY <1>2, <1>3, <1>4 DEF Punctual, Stop, Crash

LEMMA OnTimeStep == TypeOK /\ Owned /\ OnTime /\ [Next]_vars => OnTime'
<1>. SUFFICES ASSUME TypeOK, Owned, OnTime, [Next]_vars, Punctual'
              PROVE  /\ pc' # "stopping"
                     /\ pc' = "backfill" => bfEnd' = Current'
                     /\ pc' = "wait" => now' <= target' * Step
                     /\ pc' = "delay" => /\ target' * Step <= now' /\ now' <= due'
                                         /\ due' = target' * Step + Delay
    BY DEF OnTime
<1>0. /\ now \in Nat /\ target \in Nat /\ due \in Nat /\ Current \in Nat
      /\ Step \in Nat \ {0} /\ Delay \in Nat /\ target * Step \in Nat
    BY Constants, CurrentBounds DEF TypeOK
<1>1. /\ ~Stop /\ ~Crash /\ ~lagged'
      /\ pc # "stopping"
      /\ pc = "backfill" => bfEnd = Current
      /\ pc = "wait" => now <= target * Step
      /\ pc = "delay" => target * Step <= now /\ now <= due /\ due = target * Step + Delay
    BY PunctualBefore DEF OnTime, Punctual
<1>2. CASE Tick
    <2>1. UNCHANGED <<pc, bfEnd, target, due>> /\ now' = now + 1 /\ Lags = {}
        BY <1>1, <1>2 DEF Tick, bfVars
    <2>2. CASE pc = "backfill"
        <3>1. (now + 1) % Step # 0
            BY <2>1, <2>2 DEF Lags, AllStalls
        <3>2. Current' = Current
            BY <1>0, <2>1, <3>1, NoBoundary DEF Current
        <3>. QED
            BY <1>1, <2>1, <2>2, <3>2
    <2>3. CASE pc = "wait"
        <3>1. ~(now >= target * Step)
            BY <2>1, <2>3 DEF Lags, AllStalls
        <3>. QED
            BY <1>0, <2>1, <2>3, <3>1
    <2>4. CASE pc = "delay"
        <3>1. ~(now >= due)
            BY <2>1, <2>4 DEF Lags, AllStalls
        <3>. QED
            BY <1>0, <1>1, <2>1, <2>4, <3>1
    <2>. QED
        BY <1>1, <2>1, <2>2, <2>3, <2>4
<1>3. CASE Start
    <2>1. bfEnd' = Current /\ now' = now /\ pc' \in {"next", "backfill"}
        BY <1>3 DEF Start
    <2>. QED
        BY <2>1 DEF Current
<1>4. CASE Aim
    <2>1. pc' = "wait" /\ target' = Current + 1 /\ now' = now
        BY <1>4 DEF Aim
    <2>. QED
        BY <1>0, <2>1, CurrentBounds
<1>5. CASE BoundaryFires
    <2>1. pc = "wait" /\ pc' = "delay" /\ due' = now + Delay /\ UNCHANGED <<now, target>>
        BY <1>5 DEF BoundaryFires
    <2>2. now = target * Step
        BY <1>0, <1>1, <1>5, <2>1 DEF BoundaryFires
    <2>. QED
        BY <1>0, <2>1, <2>2
<1>6. CASE BackfillDone \/ DelayFires
    BY <1>6 DEF BackfillDone, DelayFires
<1>7. CASE Exit
    BY <1>1, <1>7 DEF Exit
<1>8. CASE Save \/ BackfillInsert \/ UNCHANGED vars
    BY <1>1, <1>8 DEF Save, BackfillInsert, vars, bfVars, Current
<1>9. ASSUME NEW k \in Buckets, Job(k) PROVE UNCHANGED <<now, pc, bfEnd, target, due>>
    BY <1>9 DEF Job, JobRead, JobWrite, bfVars
<1>. QED
    BY <1>1, <1>2, <1>3, <1>4, <1>5, <1>6, <1>7, <1>8, <1>9 DEF Next, Loop, Current

\* A point that is saved when its bucket's delay is over would be too late.
LEMMA NoLatePoint ==
    ASSUME LateInTime, TypeOK, Save, NEW k \in Buckets, (k + 1) * Step + Delay <= now
    PROVE  LoopPoints(k)' = LoopPoints(k)
<1>0. Step \in Nat \ {0} /\ Delay \in Nat /\ now \in Nat /\ k \in Nat
    BY Constants DEF TypeOK
<1>1. PICK lag \in 0..Lateness, last \in BOOLEAN, j \in Buckets :
        /\ lag <= now /\ j = (now - lag) \div Step /\ points' = [points EXCEPT ![j] = @ + 1]
        /\ tail' = [tail EXCEPT ![j] = IF last THEN @ + 1 ELSE @]
    BY DEF Save
<1>2. now - lag \in Nat /\ now - lag < (j + 1) * Step
    <2>1. Lateness \in Nat
        BY Constants
    <2>2. now - lag \in Nat
        BY <1>0, <1>1, <2>1
    <2>. QED
        BY <1>0, <1>1, <2>2, DivBounds
<1>3. (k + 1) * Step <= now - lag
    BY <1>0, <1>1, Constants DEF LateInTime
<1>4. j # k
    BY <1>0, <1>2, <1>3
<1>. QED
    BY <1>1, <1>4 DEF TypeOK, LoopPoints

\* What Whole says of one bucket.
HasAll(k) ==
    /\ (k + 1) * Step + Delay <= now
    /\ jobs[k] = "write" => jobRead[k] = LoopPoints(k)
    /\ jobs[k] = "none" /\ LoopPoints(k) > 0 => avg[k] = LoopPoints(k)

\* When the delay of a punctual process is over, the bucket that began at its
\* target is the current one.
LEMMA DelayAtTarget ==
    ASSUME TypeOK, OnTime, Punctual, pc = "delay"
    PROVE  Current = target
<1>0. /\ now \in Nat /\ target \in Nat /\ Step \in Nat \ {0}
      /\ Delay \in Nat /\ Delay < Step
    BY Constants DEF TypeOK
<1>1. target * Step <= now /\ now <= due /\ due = target * Step + Delay
    BY DEF OnTime
<1>2. now < (target + 1) * Step
    <2>1. (target + 1) * Step = target * Step + Step /\ target * Step \in Nat
        BY <1>0
    <2>. QED
        BY <1>0, <1>1, <2>1
<1>. QED
    BY <1>0, <1>1, <1>2, DivUnique DEF Current

LEMMA WholeStep ==
    ASSUME LateInTime
    PROVE  TypeOK /\ Owned /\ OnTime /\ Whole /\ [Next]_vars => Whole'
<1>. SUFFICES ASSUME TypeOK, Owned, OnTime, Whole, [Next]_vars,
                     Punctual', pc' # "down", NEW k \in Buckets, Passed(k)'
              PROVE  HasAll(k)'
    BY DEF Whole, HasAll
<1>0. /\ now \in Nat /\ target \in Nat /\ due \in Nat /\ Current \in Nat /\ bfEnd \in Nat
      /\ k \in Nat /\ Step \in Nat \ {0} /\ Delay \in Nat /\ (k + 1) * Step \in Nat
    BY Constants, CurrentBounds DEF TypeOK
<1>1. /\ Punctual /\ ~Stop /\ ~Crash /\ pc # "stopping"
      /\ \A kind : \A happens \in BOOLEAN : Inject(kind, happens) => ~happens
    BY PunctualBefore DEF OnTime
<1>2. pc # "down" /\ Passed(k) => HasAll(k)
    BY <1>1 DEF Whole, HasAll
<1>3. CASE Tick
    <2>1. /\ UNCHANGED <<pc, bfEnd, target, points, tail, avg, jobs, jobRead>>
          /\ now' = now + 1 /\ Lags = {}
        <3>1. lagged' = (lagged \/ Lags # {}) /\ ~lagged'
            BY <1>3 DEF Tick, Punctual
        <3>. QED
            BY <1>3, <3>1 DEF Tick, bfVars, jobVars
    <2>2. pc \in {"backfill", "next"} => Current' = Current
        <3>1. pc \in {"backfill", "next"} => (now + 1) % Step # 0
            BY <2>1 DEF Lags, AllStalls
        <3>. QED
            BY <1>0, <2>1, <3>1, NoBoundary DEF Current
    <2>3. pc \in {"down", "backfill", "next", "wait", "delay"}
        BY <1>1 DEF TypeOK
    <2>4. Passed(k)
        BY <2>1, <2>2, <2>3 DEF Passed
    <2>. QED
        BY <1>0, <1>2, <2>1, <2>4 DEF HasAll, LoopPoints
<1>4. CASE Save
    <2>1. UNCHANGED <<now, pc, bfEnd, target, avg, jobs, jobRead>>
        BY <1>4 DEF Save, bfVars, jobVars
    <2>2. HasAll(k)
        BY <1>2, <2>1 DEF Passed, Current
    <2>3. LoopPoints(k)' = LoopPoints(k)
        BY <1>4, <2>2, NoLatePoint DEF HasAll, LoopPoints
    <2>. QED
        BY <2>1, <2>2, <2>3 DEF HasAll, LoopPoints
<1>5. CASE Start
    <2>1. bfEnd' = Current /\ Current' = Current /\ pc' \in {"next", "backfill"}
        BY <1>5 DEF Start, Current
    <2>. QED
        BY <1>0, <2>1 DEF Passed
<1>6. CASE BackfillInsert
    <2>1. UNCHANGED <<now, pc, bfEnd, target, points, tail, jobs, jobRead>>
        BY <1>6 DEF BackfillInsert, jobVars
    <2>2. HasAll(k) /\ bfEnd <= k
        BY <1>2, <1>6, <2>1 DEF Passed, Current
    <2>3. k \notin bfTodo
        BY <1>0, <2>2 DEF Owned, BucketsAreOwned, OneWriter
    <2>4. avg'[k] = avg[k]
        BY <1>6, <2>3 DEF BackfillInsert, TypeOK
    <2>. QED
        BY <2>1, <2>2, <2>4 DEF HasAll, LoopPoints
<1>7. CASE BackfillDone \/ Aim \/ BoundaryFires
    <2>1. UNCHANGED <<now, bfEnd, points, tail, avg, jobs, jobRead>> /\ pc # "down"
        BY <1>7 DEF BackfillDone, Aim, BoundaryFires, bfVars, jobVars
    <2>2. Passed(k)
        BY <1>0, <1>7 DEF BackfillDone, Aim, BoundaryFires, bfVars, Passed, Current
    <2>. QED
        BY <1>2, <2>1, <2>2 DEF HasAll, LoopPoints
<1>8. CASE DelayFires
    <2>1. /\ UNCHANGED <<now, bfEnd, points, tail, avg, jobRead>>
          /\ pc = "delay" /\ pc' = "next" /\ now >= due
          /\ jobs' = [j \in Buckets |-> IF Finished(j) THEN "read" ELSE jobs[j]]
        BY <1>8 DEF DelayFires, DelayOver, bfVars
    <2>2. Current = target /\ due = target * Step + Delay
        BY <1>1, <2>1, DelayAtTarget DEF OnTime
    <2>3. bfEnd <= k /\ k < target
        BY <2>1, <2>2 DEF Passed, Current
    <2>4. CASE k + 1 = target
        <3>1. jobs'[k] = "read"
            BY <1>0, <2>1, <2>2, <2>4 DEF Finished
        <3>. QED
            BY <1>0, <2>1, <2>2, <2>4, <3>1 DEF HasAll, LoopPoints
    <2>5. CASE k + 1 < target
        <3>1. jobs'[k] = jobs[k]
            BY <1>0, <2>1, <2>5 DEF Finished
        <3>2. HasAll(k)
            BY <1>2, <2>1, <2>3, <2>5 DEF Passed
        <3>. QED
            BY <2>1, <3>1, <3>2 DEF HasAll, LoopPoints
    <2>. QED
        BY <1>0, <2>3, <2>4, <2>5
<1>9. ASSUME NEW j \in Buckets, Job(j) PROVE HasAll(k)'
    <2>1. UNCHANGED <<now, pc, bfEnd, target, points, tail>>
        BY <1>9 DEF Job, JobRead, JobWrite, bfVars
    <2>2. HasAll(k)
        BY <1>2, <2>1 DEF Passed, Current
    <2>3. CASE j # k
        <3>1. avg'[k] = avg[k] /\ jobs'[k] = jobs[k] /\ jobRead'[k] = jobRead[k]
            BY <1>9, <2>3 DEF Job, JobRead, JobWrite, TypeOK
        <3>. QED
            BY <2>1, <2>2, <3>1 DEF HasAll, LoopPoints
    <2>4. CASE j = k /\ JobRead(k)
        <3>1. \/ jobs'[k] = "none" /\ LoopPoints(k) = 0
              \/ jobs'[k] = "write" /\ jobRead'[k] = LoopPoints(k)
            BY <1>1, <2>4 DEF JobRead, NoPoints, TypeOK
        <3>. QED
            BY <2>1, <2>2, <3>1 DEF HasAll, LoopPoints
    <2>5. CASE j = k /\ JobWrite(k)
        <3>1. jobs[k] = "write" /\ jobs'[k] = "none" /\ avg'[k] = jobRead[k]
            BY <1>1, <2>5 DEF JobWrite, TypeOK
        <3>. QED
            BY <2>1, <2>2, <3>1 DEF HasAll, LoopPoints
    <2>. QED
        BY <1>9, <2>3, <2>4, <2>5 DEF Job
<1>10. CASE Exit
    BY <1>1, <1>10 DEF Exit
<1>11. CASE UNCHANGED vars
    BY <1>2, <1>11 DEF vars, Passed, Current, HasAll, LoopPoints
<1>. QED
    BY <1>1, <1>3, <1>4, <1>5, <1>6, <1>7, <1>8, <1>9, <1>10, <1>11 DEF Next, Loop

\* A process that keeps up with the clock averages every bucket that ends after
\* its start from all its points but those of its last second, the late ones
\* too.
THEOREM AveragesAreWholeCorrect ==
    ASSUME LateInTime
    PROVE  Spec => []AveragesAreWhole
<1>1. TypeOK /\ Owned /\ OnTime /\ Whole /\ [Next]_vars => Whole'
    BY WholeStep
<1>2. Whole => AveragesAreWhole
    BY DEF Whole, AveragesAreWhole, Punctual, Passed
<1>. QED
    BY <1>1, <1>2, OwnedFresh, OnTimeInit, OnTimeStep, PTL DEF Spec

\* What can be averaged is: by a punctual process, or by the next start.
THEOREM NothingLeftOutCorrect ==
    ASSUME LateInTime
    PROVE  Spec => []NothingLeftOut
BY RestartMakesGoodCorrect, AveragesAreWholeCorrect, PTL DEF NothingLeftOut

=============================================================================
