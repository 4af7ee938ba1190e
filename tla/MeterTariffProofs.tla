------------------------- MODULE MeterTariffProofs -------------------------
(***************************************************************************)
(* What the tariff table keeps for any calendar, any tolerances that       *)
(* ClockAssumption allows, any register trajectories and any faults.       *)
(*                                                                         *)
(* The columns are related to each other only through the clock: a sample  *)
(* is in order because it is near its boundary, and the backfill's sample  *)
(* is near its boundary because of what the pass noted before it released  *)
(* the series.  TableInv says so; it is what makes the invariants of the   *)
(* runs inductive.                                                         *)
(*                                                                         *)
(* The second half is about the page: what TariffView's request reads from *)
(* the table and its caches adds up to what the meter gained.              *)
(***************************************************************************)
EXTENDS TariffView, FiniteSetTheorems, WellFoundedInduction, TLAPS

\* Boundaries are pairs of a day and an hour, their moments are numbers.
LEMMA BoundaryFields ==
    ASSUME NEW b \in Boundaries
    PROVE  b[1] \in Days /\ b[2] \in Hours /\ b[1] \in Rows /\ b[1] - 1 \in Rows
<1>1. LastDay \in Nat
    BY ClockAssumption
<1>. QED
    BY <1>1 DEF Boundaries, Days, Rows

LEMMA MomentType ==
    ASSUME NEW b \in Boundaries
    PROVE  Moment(b) \in Nat /\ Offset(b[2]) \in Nat
<1>1. DayLen \in Nat /\ DayStart \in Nat /\ DayEnd \in Nat /\ LastDay \in Nat
    BY ClockAssumption
<1>2. b[1] \in Nat /\ b[2] \in Hours
    BY <1>1, BoundaryFields DEF Days
<1>3. Offset(b[2]) \in Nat
    BY <1>1, <1>2 DEF Offset, Hours
<1>4. b[1] * DayLen \in Nat
    BY <1>1, <1>2
<1>. QED
    BY <1>3, <1>4 DEF Moment

\* None is not a number.
LEMMA NoneIsNoTime == None \notin Time /\ \A i \in Int : i # None
<1>1. None \notin Int /\ Horizon \in Nat
    BY DataAssumption, ClockAssumption
<1>. QED
    BY <1>1 DEF Time

-----------------------------------------------------------------------------
(* The amounts of a day.                                                   *)

\* What one register gained in one tariff of a day is an integer, and of a
\* complete row each amount is a difference of readings.
LEMMA AmountsType ==
    ASSUME load \in Loads, NEW row \in [Marks -> Samples], Complete(row)
    PROVE  Amounts(row) \in [Rates -> [Registers -> Int]]
<1>1. \A m \in Registers : load[m] \in [Time -> Nat]
    BY DataAssumption DEF Registers
<1>2. \A k \in Marks : row[k] \in Time
    BY DEF Complete, Samples
<1>3. \A m \in Registers, k \in Marks : load[m][row[k]] \in Nat
    BY <1>1, <1>2
<1>4. {"0000", "0700", "2300", "next"} = Marks
    BY DEF Marks, Hours
<1>5. \A m \in Registers :
        /\ load[m][row["2300"]] - load[m][row["0700"]] \in Int
        /\ (load[m][row["0700"]] - load[m][row["0000"]])
           + (load[m][row["next"]] - load[m][row["2300"]]) \in Int
    BY <1>3, <1>4
<1>. QED
    BY <1>5 DEF Amounts

LEMMA BillableAmounts ==
    ASSUME load \in Loads, NEW row \in [Marks -> Samples], Billable(row)
    PROVE  Amounts(row) \in [Rates -> [Registers -> Nat]]
<1>1. Amounts(row) \in [Rates -> [Registers -> Int]]
    BY AmountsType DEF Billable
<1>2. \A r \in Rates, m \in Registers : Amounts(row)[r][m] >= 0
    BY DEF Billable
<1>3. \A r \in Rates : Amounts(row)[r] \in [Registers -> Nat]
    BY <1>1, <1>2
<1>. QED
    BY <1>1, <1>3

-----------------------------------------------------------------------------
(* Storing a boundary.                                                     *)

LEMMA StoreColumns ==
    ASSUME NEW b, NEW s, StoreBoundary(b, s), NEW d \in Rows, NEW k \in Marks
    PROVE  at'[d][k] = IF \/ d = b[1] /\ k = b[2]
                          \/ b[2] = "0000" /\ d = b[1] - 1 /\ k = "next"
                       THEN s ELSE at[d][k]
BY DEF StoreBoundary, Columns

\* A store keeps the types of both parts of the table.
LEMMA StoreType ==
    ASSUME TypeOK, NEW b \in Boundaries, NEW s \in Time, StoreBoundary(b, s)
    PROVE  /\ at' \in [Rows -> [Marks -> Samples]]
           /\ tariff' \in [Rows -> {None} \cup [Rates -> [Registers -> Nat]]]
<1>1. at' \in [Rows -> [Marks -> Samples]]
    <2>1. \A d \in Rows, k \in Marks : at[d][k] \in Samples /\ s \in Samples
        BY DEF TypeOK, Samples
    <2>. QED
        BY <2>1 DEF StoreBoundary
<1>2. ASSUME NEW d \in Rows
      PROVE  Finalize(at'[d], tariff[d])
                \in {None} \cup [Rates -> [Registers -> Nat]]
    <2>1. at'[d] \in [Marks -> Samples]
        BY <1>1
    <2>2. CASE Billable(at'[d])
        BY <2>1, <2>2, BillableAmounts DEF TypeOK, Finalize
    <2>3. CASE ~Billable(at'[d])
        BY <2>3 DEF TypeOK, Finalize
    <2>. QED
        BY <2>2, <2>3
<1>3. \A d \in Rows : tariff[d] \in {None} \cup [Rates -> [Registers -> Nat]]
    BY DEF TypeOK
<1>. QED
    BY <1>1, <1>2, <1>3 DEF StoreBoundary

LEMMA DistType ==
    ASSUME NEW x \in Int, NEW y \in Int
    PROVE  Dist(x, y) \in Nat /\ Dist(x, y) = Dist(y, x)
BY DEF Dist

LEMMA TypeInit == Init => TypeOK
<1>. SUFFICES ASSUME Init PROVE TypeOK
    OBVIOUS
<1>1. Horizon \in Nat /\ MaxFaults \in Nat
    BY ClockAssumption
<1>. QED
    BY <1>1 DEF Init, TypeOK, Time, Samples

LEMMA TypeStep == TypeOK /\ [Next]_vars => TypeOK'
<1>. SUFFICES ASSUME TypeOK, [Next]_vars PROVE TypeOK'
    OBVIOUS
<1>0. /\ Horizon \in Nat /\ MaxFaults \in Nat /\ Tol \in Nat
      /\ PollTimes \subseteq Time
    BY ClockAssumption, DataAssumption
<1>1. CASE Tick
    <2>1. now' \in Time
        BY <1>0, <1>1 DEF Tick, TypeOK, Time
    <2>. QED
        BY <1>1, <2>1 DEF Tick, TypeOK
<1>2. CASE Poll
    <2>. PICK lost \in SUBSET (FaultKinds \cap {"redis", "store"}) :
            Cardinality(lost) <= faults /\ faults' = faults - Cardinality(lost)
        BY <1>2 DEF Poll
    <2>1. faults' \in 0..MaxFaults
        <3>1. Cardinality(lost) \in Nat
            <4>1. IsFiniteSet({} \cup {"redis"})
                BY FS_EmptySet, FS_AddElement
            <4>2. IsFiniteSet(({} \cup {"redis"}) \cup {"store"})
                BY <4>1, FS_AddElement
            <4>3. lost \subseteq (({} \cup {"redis"}) \cup {"store"})
                OBVIOUS
            <4>4. IsFiniteSet(lost)
                BY <4>2, <4>3, FS_Subset
            <4>. QED
                BY <4>4, FS_CardinalityType
        <3>. QED
            BY <1>0, <3>1 DEF TypeOK
    <2>2. series' \subseteq Time
        BY <1>2 DEF Poll, TypeOK
    <2>3. CASE UNCHANGED <<best, at, tariff>>
        BY <1>2, <2>1, <2>2, <2>3 DEF Poll, TypeOK
    <2>4. ASSUME NEW b \in Boundaries, Captures(b),
                 best' = [best EXCEPT ![b] = Dist(now, Moment(b))],
                 UNCHANGED <<at, tariff>> \/ StoreBoundary(b, now)
          PROVE  TypeOK'
        <3>1. now \in Time /\ now \in Int
            BY <1>0 DEF TypeOK, Time
        <3>2. Dist(now, Moment(b)) \in 0..Tol
            BY <1>0, <2>4, <3>1, MomentType, DistType DEF Captures
        <3>3. best' \in [Boundaries -> 0..Tol \cup {None}]
            BY <2>4, <3>2 DEF TypeOK
        <3>4. /\ at' \in [Rows -> [Marks -> Samples]]
              /\ tariff' \in [Rows -> {None} \cup [Rates -> [Registers -> Nat]]]
            BY <2>4, <3>1, StoreType DEF TypeOK
        <3>. QED
            BY <1>2, <2>1, <2>2, <3>3, <3>4 DEF Poll, TypeOK
    <2>. QED
        BY <1>2, <2>3, <2>4 DEF Poll
<1>3. CASE BackfillStart
    BY <1>3 DEF BackfillStart, TypeOK, Eligible
<1>4. CASE BackfillLook
    <2>1. faults' \in 0..MaxFaults
        BY <1>0, <1>4 DEF BackfillLook, TypeOK
    <2>2. todo' \subseteq Boundaries
        BY <1>4 DEF BackfillLook, TypeOK
    <2>3. picked' \in Samples
        BY <1>4 DEF BackfillLook, TypeOK, Samples
    <2>. QED
        BY <1>4, <2>1, <2>2, <2>3 DEF BackfillLook, TypeOK
<1>5. CASE BackfillStore
    <2>1. faults' \in 0..MaxFaults
        BY <1>0, <1>5 DEF BackfillStore, TypeOK
    <2>2. todo' \subseteq Boundaries /\ picked' \in Samples
        BY <1>5 DEF BackfillStore, TypeOK, Samples
    <2>3. /\ at' \in [Rows -> [Marks -> Samples]]
          /\ tariff' \in [Rows -> {None} \cup [Rates -> [Registers -> Nat]]]
        <3>1. picked \in Time
            BY <1>5 DEF BackfillStore, TypeOK, Samples
        <3>2. PICK b \in todo : UNCHANGED <<at, tariff>> \/ StoreBoundary(b, picked)
            BY <1>5 DEF BackfillStore
        <3>3. b \in Boundaries
            BY DEF TypeOK
        <3>. QED
            BY <3>1, <3>2, <3>3, StoreType DEF TypeOK
    <2>. QED
        BY <1>5, <2>1, <2>2, <2>3 DEF BackfillStore, TypeOK
<1>6. CASE Restart
    <2>1. faults' \in 0..MaxFaults
        BY <1>0, <1>6 DEF Restart, TypeOK
    <2>2. best' \in [Boundaries -> 0..Tol \cup {None}]
        BY <1>6 DEF Restart
    <2>. QED
        BY <1>6, <2>1, <2>2 DEF Restart, TypeOK, Samples
<1>7. CASE UNCHANGED vars
    BY <1>7 DEF vars, TypeOK
<1>. QED
    BY <1>1, <1>2, <1>3, <1>4, <1>5, <1>6, <1>7 DEF Next, Backfill

\* The table, the capture and the backfill keep their types for any calendar
\* and any trajectories of the registers.
THEOREM TypeCorrect == Spec => []TypeOK
    BY TypeInit, TypeStep, PTL DEF Spec

-----------------------------------------------------------------------------
(* The inductive invariant.                                                *)

Near(s, b) == Dist(s, Moment(b)) <= MaxDist

\* Two boundaries that are both first in the pass share their moment, so a
\* point found for one is near the other.
PickedNear ==
    picked # None =>
        /\ todo # {}
        /\ \A b \in todo : IsFirst(b) => Near(picked, b)

\* "next" is a copy of the following day's 00:00; after the last day there
\* is none.
NextColumn ==
    \A d \in Rows :
        at[d]["next"] = IF d + 1 \in Days THEN at[d + 1]["0000"] ELSE None

\* Every sample is near the boundary of its column.
Placed ==
    \A b \in Boundaries : at[b[1]][b[2]] # None => Near(at[b[1]][b[2]], b)

TableInv == PickedNear /\ NextColumn /\ Placed

\* Whatever a step does, the table changes only by storing, for some
\* boundary, a sample near it.
LEMMA Writes ==
    ASSUME TypeOK, PickedNear, [Next]_vars
    PROVE  /\ load' = load
           /\ \/ UNCHANGED <<at, tariff>>
              \/ \E b \in Boundaries, s \in Time : Near(s, b) /\ StoreBoundary(b, s)
<1>0. Tol \in Nat /\ MaxDist \in Nat /\ Tol <= MaxDist /\ Horizon \in Nat
    BY ClockAssumption
<1>1. CASE Poll
    <2>1. CASE UNCHANGED <<at, tariff>>
        BY <1>1, <2>1 DEF Poll
    <2>2. ASSUME NEW b \in Boundaries, Captures(b), StoreBoundary(b, now)
          PROVE  Near(now, b)
        <3>1. Dist(now, Moment(b)) \in Nat
            <4>1. now \in Int /\ Moment(b) \in Int
                BY <1>0, MomentType DEF TypeOK, Time
            <4>. QED
                BY <4>1, DistType
        <3>. QED
            BY <1>0, <2>2, <3>1 DEF Captures, Near
    <2>3. now \in Time
        BY DEF TypeOK
    <2>. QED
        BY <1>1, <2>1, <2>2, <2>3 DEF Poll
<1>2. CASE BackfillStore
    <2>1. picked \in Time /\ picked # None
        BY <1>2 DEF BackfillStore, TypeOK, Samples
    <2>2. PICK b \in todo :
            IsFirst(b) /\ (UNCHANGED <<at, tariff>> \/ StoreBoundary(b, picked))
        BY <1>2 DEF BackfillStore
    <2>3. b \in Boundaries /\ Near(picked, b)
        BY <2>1, <2>2 DEF TypeOK, PickedNear
    <2>. QED
        BY <1>2, <2>1, <2>2, <2>3 DEF BackfillStore
<1>3. CASE Tick \/ BackfillStart \/ BackfillLook \/ Restart \/ UNCHANGED vars
    BY <1>3 DEF Tick, BackfillStart, BackfillLook, Restart, vars
<1>. QED
    BY <1>1, <1>2, <1>3 DEF Next, Backfill

LEMMA TableInit == Init => TableInv
<1>. SUFFICES ASSUME Init PROVE TableInv
    OBVIOUS
<1>1. PickedNear
    BY DEF Init, PickedNear
<1>2. \A d \in Rows, k \in Marks : at[d][k] = None
    BY DEF Init
<1>3. NextColumn
    BY <1>2 DEF NextColumn, Days, Rows, Marks, Hours
<1>4. Placed
    BY <1>2, BoundaryFields DEF Placed, Marks
<1>. QED
    BY <1>1, <1>3, <1>4 DEF TableInv

LEMMA PickedStep == TypeOK /\ PickedNear /\ [Next]_vars => PickedNear'
<1>. SUFFICES ASSUME TypeOK, PickedNear, [Next]_vars PROVE PickedNear'
    OBVIOUS
<1>1. CASE BackfillLook
    <2>1. PICK b \in todo :
            /\ IsFirst(b)
            /\ \/ todo' = todo \ {b} /\ picked' = None
               \/ \E s \in series : IsNearest(s, b) /\ picked' = s /\ todo' = todo
        BY <1>1 DEF BackfillLook
    <2>2. CASE picked' = None
        BY <2>2 DEF PickedNear
    <2>3. ASSUME NEW s \in series, IsNearest(s, b), picked' = s, todo' = todo
          PROVE  PickedNear'
        <3>1. Near(s, b)
            BY <2>3 DEF IsNearest, Around, Near
        <3>2. ASSUME NEW c \in todo', IsFirst(c)' PROVE Near(s, c)
            <4>1. b \in Boundaries /\ c \in Boundaries
                BY <2>3, <3>2 DEF TypeOK
            <4>2. Moment(b) <= Moment(c) /\ Moment(c) <= Moment(b)
                BY <2>1, <2>3, <3>2 DEF IsFirst
            <4>3. Moment(b) = Moment(c)
                BY <4>1, <4>2, MomentType
            <4>. QED
                BY <3>1, <4>3 DEF Near
        <3>. QED
            BY <2>3, <3>2 DEF PickedNear, Near
    <2>. QED
        BY <2>1, <2>2, <2>3
<1>2. CASE BackfillStart
    BY <1>2 DEF BackfillStart, PickedNear
<1>3. CASE BackfillStore \/ Restart
    BY <1>3 DEF BackfillStore, Restart, PickedNear
<1>4. CASE Tick \/ Poll \/ UNCHANGED vars
    BY <1>4 DEF Tick, Poll, vars, PickedNear, IsFirst, Near
<1>. QED
    BY <1>1, <1>2, <1>3, <1>4 DEF Next, Backfill

\* One transaction writes both copies of a 00:00 sample.
LEMMA NextColumnStep ==
    TypeOK /\ PickedNear /\ NextColumn /\ [Next]_vars => NextColumn'
<1>. SUFFICES ASSUME TypeOK, PickedNear, NextColumn, [Next]_vars,
                     NEW d \in Rows
              PROVE  at'[d]["next"] = IF d + 1 \in Days THEN at'[d + 1]["0000"]
                                                        ELSE None
    BY DEF NextColumn
<1>0. "next" \in Marks /\ "0000" \in Marks /\ "next" # "0000"
    BY DEF Marks, Hours
<1>1. at[d]["next"] = IF d + 1 \in Days THEN at[d + 1]["0000"] ELSE None
    BY DEF NextColumn
<1>2. ASSUME NEW b \in Boundaries, NEW s \in Time, StoreBoundary(b, s)
      PROVE  at'[d]["next"] = IF d + 1 \in Days THEN at'[d + 1]["0000"] ELSE None
    <2>1. at'[d]["next"] = IF b[2] = "0000" /\ d = b[1] - 1 THEN s ELSE at[d]["next"]
        <3>1. b[2] # "next"
            BY BoundaryFields DEF Hours
        <3>. QED
            BY <1>0, <1>2, <3>1, StoreColumns
    <2>2. d + 1 \in Days =>
            at'[d + 1]["0000"] = IF d + 1 = b[1] /\ b[2] = "0000" THEN s
                                 ELSE at[d + 1]["0000"]
        <3>1. d + 1 \in Days => d + 1 \in Rows
            BY ClockAssumption DEF Days, Rows
        <3>. QED
            BY <1>0, <1>2, <3>1, StoreColumns
    <2>3. d \in Int /\ b[1] \in Int /\ b[1] \in Days
        BY BoundaryFields, ClockAssumption DEF Days, Rows
    <2>4. (d = b[1] - 1) <=> (d + 1 = b[1])
        BY <2>3
    <2>. QED
        BY <1>1, <2>1, <2>2, <2>3, <2>4
<1>. QED
    BY <1>1, <1>2, Writes

LEMMA PlacedStep ==
    TypeOK /\ PickedNear /\ Placed /\ [Next]_vars => Placed'
<1>. SUFFICES ASSUME TypeOK, PickedNear, Placed, [Next]_vars,
                     NEW c \in Boundaries, at'[c[1]][c[2]] # None
              PROVE  Near(at'[c[1]][c[2]], c)
    BY DEF Placed, Near
<1>1. CASE UNCHANGED at
    BY <1>1 DEF Placed
<1>2. ASSUME NEW b \in Boundaries, NEW s \in Time, Near(s, b), StoreBoundary(b, s)
      PROVE  Near(at'[c[1]][c[2]], c)
    <2>1. c[1] \in Rows /\ c[2] \in Marks /\ c[2] # "next"
        BY BoundaryFields DEF Marks, Hours
    <2>2. at'[c[1]][c[2]] = IF c[1] = b[1] /\ c[2] = b[2] THEN s ELSE at[c[1]][c[2]]
        BY <1>2, <2>1, StoreColumns
    <2>3. CASE c[1] = b[1] /\ c[2] = b[2]
        BY <1>2, <2>2, <2>3 DEF Near, Moment
    <2>4. CASE ~(c[1] = b[1] /\ c[2] = b[2])
        BY <2>2, <2>4 DEF Placed
    <2>. QED
        BY <2>3, <2>4
<1>. QED
    BY <1>1, <1>2, Writes

LEMMA TableStep == TypeOK /\ TableInv /\ [Next]_vars => TableInv'
    BY PickedStep, NextColumnStep, PlacedStep DEF TableInv

LEMMA TableCorrect == Spec => [](TypeOK /\ TableInv)
    BY TypeInit, TypeStep, TableInit, TableStep, PTL DEF Spec

-----------------------------------------------------------------------------
(* What it implies.                                                        *)

\* The two copies of a midnight's reading never differ, whichever of the
\* writers stored it and whatever failed.
THEOREM NextIsOpeningCorrect == Spec => []NextIsOpening
<1>1. NextColumn => NextIsOpening
    <2>. SUFFICES ASSUME NextColumn, NEW d \in Days
                  PROVE  at[d - 1]["next"] = at[d]["0000"]
        BY DEF NextIsOpening
    <2>1. d - 1 \in Rows /\ (d - 1) + 1 = d
        BY ClockAssumption DEF Days, Rows
    <2>. QED
        BY <2>1 DEF NextColumn
<1>. QED
    BY <1>1, TableCorrect, PTL DEF TableInv

\* Two samples near two boundaries that are 2 * MaxDist apart are in order.
LEMMA NearInOrder ==
    ASSUME NEW b \in Boundaries, NEW c \in Boundaries,
           Moment(b) + 2 * MaxDist <= Moment(c),
           NEW s \in Time, NEW t \in Time, Near(s, b), Near(t, c)
    PROVE  s <= t
<1>1. /\ s \in Int /\ t \in Int /\ MaxDist \in Nat
      /\ Moment(b) \in Int /\ Moment(c) \in Int
    BY ClockAssumption, MomentType DEF Time
<1>2. s <= Moment(b) + MaxDist
    BY <1>1 DEF Near, Dist
<1>3. Moment(c) <= t + MaxDist
    BY <1>1 DEF Near, Dist
<1>. QED
    BY <1>1, <1>2, <1>3

\* The four boundaries of a day are that far apart.
LEMMA Gaps ==
    ASSUME NEW d \in Days
    PROVE  /\ Moment(<<d, "0000">>) + 2 * MaxDist <= Moment(<<d, "0700">>)
           /\ Moment(<<d, "0700">>) + 2 * MaxDist <= Moment(<<d, "2300">>)
           /\ Moment(<<d, "2300">>) + 2 * MaxDist <= Moment(<<d + 1, "0000">>)
<1>1. /\ DayLen \in Nat /\ DayStart \in Nat /\ DayEnd \in Nat
      /\ MaxDist \in Nat /\ d \in Nat
    BY ClockAssumption DEF Days
<1>2. d * DayLen \in Nat /\ (d + 1) * DayLen = d * DayLen + DayLen
    BY <1>1
<1>3. /\ Moment(<<d, "0000">>) = d * DayLen + 0
      /\ Moment(<<d, "0700">>) = d * DayLen + DayStart
      /\ Moment(<<d, "2300">>) = d * DayLen + DayEnd
      /\ Moment(<<d + 1, "0000">>) = (d + 1) * DayLen + 0
    BY DEF Moment, Offset
<1>4. /\ 2 * MaxDist <= DayStart /\ 2 * MaxDist <= DayEnd - DayStart
      /\ 2 * MaxDist <= DayLen - DayEnd
    BY ClockAssumption
<1>. HIDE DEF Moment
<1>. QED
    BY <1>1, <1>2, <1>3, <1>4

LEMMA TableInOrder == TypeOK /\ TableInv => SamplesInOrder
<1>. SUFFICES ASSUME TypeOK, TableInv, NEW d \in Days
              PROVE  InOrder(at[d])
    BY DEF SamplesInOrder
<1>1. d \in Rows /\ d \in Int
    BY ClockAssumption DEF Days, Rows
<1>2. \A h \in Hours : <<d, h>> \in Boundaries
    BY DEF Boundaries
<1>3. ASSUME NEW h \in Hours, at[d][h] # None
      PROVE  at[d][h] \in Time /\ Near(at[d][h], <<d, h>>)
    <2>1. at[d][h] \in Samples
        BY <1>1 DEF TypeOK, Marks
    <2>2. Near(at[d][h], <<d, h>>)
        BY <1>2, <1>3 DEF TableInv, Placed
    <2>. QED
        BY <1>3, <2>1, <2>2 DEF Samples
<1>4. ASSUME at[d]["next"] # None
      PROVE  /\ at[d]["next"] \in Time
             /\ <<d + 1, "0000">> \in Boundaries
             /\ Near(at[d]["next"], <<d + 1, "0000">>)
    <2>1. d + 1 \in Days /\ at[d]["next"] = at[d + 1]["0000"]
        BY <1>1, <1>4 DEF TableInv, NextColumn
    <2>2. <<d + 1, "0000">> \in Boundaries
        BY <2>1 DEF Boundaries, Hours
    <2>3. at[d]["next"] \in Samples
        BY <1>1 DEF TypeOK, Marks
    <2>4. Near(at[d + 1]["0000"], <<d + 1, "0000">>)
        BY <1>4, <2>1, <2>2 DEF TableInv, Placed
    <2>. QED
        BY <1>4, <2>1, <2>2, <2>3, <2>4 DEF Samples
<1>5. "0000" \in Hours /\ "0700" \in Hours /\ "2300" \in Hours
    BY DEF Hours
<1>6. at[d]["0000"] # None /\ at[d]["0700"] # None => at[d]["0000"] <= at[d]["0700"]
    BY <1>2, <1>3, <1>5, Gaps, NearInOrder
<1>7. at[d]["0700"] # None /\ at[d]["2300"] # None => at[d]["0700"] <= at[d]["2300"]
    BY <1>2, <1>3, <1>5, Gaps, NearInOrder
<1>8. at[d]["2300"] # None /\ at[d]["next"] # None => at[d]["2300"] <= at[d]["next"]
    BY <1>2, <1>3, <1>4, <1>5, Gaps, NearInOrder
<1>. QED
    BY <1>6, <1>7, <1>8 DEF InOrder

\* No part of a day is taken backwards in time, however far the backfill
\* reaches and wherever the tolerances stand within ClockAssumption.
THEOREM SamplesInOrderCorrect == Spec => []SamplesInOrder
    BY TableCorrect, TableInOrder, PTL

\* Registers that never fall make a complete day in order billable.
LEMMA OrderedIsBillable ==
    ASSUME load \in Loads, Monotone, NEW row \in [Marks -> Samples],
           Complete(row), InOrder(row)
    PROVE  Billable(row)
<1>1. \A k \in Marks : row[k] \in Time /\ row[k] # None
    BY DEF Complete, Samples
<1>2. {"0000", "0700", "2300", "next"} = Marks
    BY DEF Marks, Hours
<1>3. /\ row["0000"] <= row["0700"] /\ row["0700"] <= row["2300"]
      /\ row["2300"] <= row["next"]
    BY <1>1, <1>2 DEF InOrder
<1>4. ASSUME NEW m \in Registers
      PROVE  /\ load[m][row["2300"]] - load[m][row["0700"]] >= 0
             /\ (load[m][row["0700"]] - load[m][row["0000"]])
                + (load[m][row["next"]] - load[m][row["2300"]]) >= 0
    <2>1. \A k \in Marks : load[m][row[k]] \in Nat
        BY <1>1, DataAssumption DEF Registers
    <2>2. /\ load[m][row["0000"]] <= load[m][row["0700"]]
          /\ load[m][row["0700"]] <= load[m][row["2300"]]
          /\ load[m][row["2300"]] <= load[m][row["next"]]
        BY <1>1, <1>2, <1>3 DEF Monotone, NeverFalling
    <2>. QED
        BY <1>2, <2>1, <2>2
<1>5. \A r \in Rates, m \in Registers : Amounts(row)[r][m] >= 0
    BY <1>4 DEF Amounts
<1>. QED
    BY <1>5 DEF Billable

Finalized(d) ==
    tariff[d] = IF Complete(at[d]) THEN Amounts(at[d]) ELSE None

LEMMA FinalizedStep ==
    TypeOK /\ TableInv /\ SamplesInOrder' /\ CompleteDayFinalized /\ [Next]_vars
        => CompleteDayFinalized'
<1>. SUFFICES ASSUME TypeOK, TableInv, SamplesInOrder', CompleteDayFinalized,
                     [Next]_vars, Monotone', NEW d \in Days
              PROVE  Finalized(d)'
    BY DEF CompleteDayFinalized, Finalized
<1>0. load' = load /\ load \in Loads /\ d \in Rows
    BY Writes, ClockAssumption DEF TypeOK, TableInv, Days, Rows
<1>1. Monotone /\ Finalized(d)
    <2>1. Monotone
        BY <1>0 DEF Monotone, NeverFalling
    <2>. QED
        BY <2>1 DEF CompleteDayFinalized, Finalized
<1>2. TypeOK' /\ InOrder(at'[d])
    BY TypeStep DEF SamplesInOrder, InOrder
<1>3. at'[d] \in [Marks -> Samples] /\ at[d] \in [Marks -> Samples]
    BY <1>0, <1>2 DEF TypeOK
<1>4. Amounts(at[d])' = Amounts(at'[d]) /\ Complete(at[d])' = Complete(at'[d])
    BY <1>0 DEF Amounts, Complete
<1>5. CASE UNCHANGED <<at, tariff>>
    BY <1>0, <1>1, <1>4, <1>5 DEF Finalized
<1>6. ASSUME NEW b \in Boundaries, NEW s \in Time, StoreBoundary(b, s)
      PROVE  Finalized(d)'
    <2>1. ASSUME NEW k \in Marks, at[d][k] # None PROVE at'[d][k] # None
        BY <1>0, <1>6, <2>1, StoreColumns, NoneIsNoTime
    <2>2. CASE d \in Touched(b)
        <3>1. tariff'[d] = Finalize(at'[d], tariff[d])
            BY <1>0, <1>6, <2>2 DEF StoreBoundary
        <3>2. CASE Complete(at'[d])
            BY <1>0, <1>1, <1>2, <1>3, <1>4, <3>1, <3>2, OrderedIsBillable
               DEF Finalize, Finalized
        <3>3. CASE ~Complete(at'[d])
            <4>1. ~Complete(at[d])
                BY <2>1, <3>3 DEF Complete
            <4>2. tariff'[d] = None
                BY <1>1, <3>1, <3>3, <4>1 DEF Finalize, Billable, Finalized
            <4>. QED
                BY <1>4, <3>3, <4>2 DEF Finalized
        <3>. QED
            BY <3>2, <3>3
    <2>3. CASE d \notin Touched(b)
        <3>1. tariff'[d] = tariff[d]
            BY <1>0, <1>6, <2>3 DEF StoreBoundary
        <3>2. \A k \in Marks : at'[d][k] = at[d][k]
            BY <1>0, <1>6, <2>3, StoreColumns DEF Touched
        <3>3. at'[d] = at[d]
            BY <1>3, <3>2
        <3>. QED
            BY <1>1, <1>4, <3>1, <3>3 DEF Finalized
    <2>. QED
        BY <2>2, <2>3
<1>. QED
    BY <1>5, <1>6, Writes DEF TableInv

LEMMA FinalizedInit == Init => CompleteDayFinalized
<1>. SUFFICES ASSUME Init, NEW d \in Days PROVE Finalized(d)
    BY DEF CompleteDayFinalized, Finalized
<1>1. d \in Rows /\ "next" \in Marks
    BY ClockAssumption DEF Days, Rows, Marks
<1>2. tariff[d] = None /\ at[d]["next"] = None
    BY <1>1 DEF Init
<1>. QED
    BY <1>1, <1>2 DEF Finalized, Complete

\* While no register falls, a day with all its boundaries always carries the
\* amounts of the samples it holds now.
THEOREM CompleteDayFinalizedCorrect == Spec => []CompleteDayFinalized
    BY TableCorrect, SamplesInOrderCorrect, FinalizedInit, FinalizedStep, PTL DEF Spec

\* The amounts of two consecutive finalized days add up to what the register
\* gained between the first opening and the last closing.
THEOREM EnergyConservedCorrect == Spec => []EnergyConserved
<1>1. TypeOK /\ TableInv /\ CompleteDayFinalized => EnergyConserved
    <2>. SUFFICES ASSUME TypeOK, TableInv, CompleteDayFinalized, Monotone,
                         NEW d \in Days, NEW m \in Registers, d + 1 \in Days,
                         tariff[d] # None, tariff[d + 1] # None
                  PROVE  Total(d, m) + Total(d + 1, m)
                            = load[m][at[d + 1]["next"]] - load[m][at[d]["0000"]]
        BY DEF EnergyConserved
    <2>1. d \in Rows /\ d + 1 \in Rows
        BY ClockAssumption DEF Days, Rows
    <2>2. /\ Complete(at[d]) /\ tariff[d] = Amounts(at[d])
          /\ Complete(at[d + 1]) /\ tariff[d + 1] = Amounts(at[d + 1])
        BY DEF CompleteDayFinalized
    <2>3. at[d]["next"] = at[d + 1]["0000"]
        BY <2>1 DEF TableInv, NextColumn
    <2>4. ASSUME NEW e \in Rows, Complete(at[e]), tariff[e] = Amounts(at[e])
          PROVE  /\ Total(e, m) = load[m][at[e]["next"]] - load[m][at[e]["0000"]]
                 /\ load[m][at[e]["next"]] \in Int /\ load[m][at[e]["0000"]] \in Int
        <3>1. \A k \in Marks : at[e][k] \in Time
            BY <2>4 DEF TypeOK, Complete, Samples
        <3>2. load[m] \in [Time -> Nat]
            BY DataAssumption DEF TypeOK
        <3>3. \A k \in Marks : load[m][at[e][k]] \in Int
            BY <3>1, <3>2
        <3>4. {"0000", "0700", "2300", "next"} = Marks /\ {"day", "night"} = Rates
            BY DEF Marks, Hours, Rates
        <3>5. /\ Amounts(at[e])["day"][m]
                    = load[m][at[e]["2300"]] - load[m][at[e]["0700"]]
              /\ Amounts(at[e])["night"][m]
                    = (load[m][at[e]["0700"]] - load[m][at[e]["0000"]])
                      + (load[m][at[e]["next"]] - load[m][at[e]["2300"]])
            BY <3>4 DEF Amounts
        <3>. QED
            BY <2>4, <3>3, <3>4, <3>5 DEF Total
    <2>. QED
        BY <2>1, <2>2, <2>3, <2>4
<1>. QED
    BY <1>1, TableCorrect, CompleteDayFinalizedCorrect, PTL

\* The table agrees with itself and with the meter: the four statements in one.
THEOREM TableAgreesCorrect == Spec => []TableAgrees
BY NextIsOpeningCorrect, SamplesInOrderCorrect, CompleteDayFinalizedCorrect,
   EnergyConservedCorrect, PTL DEF TableAgrees

-----------------------------------------------------------------------------
(* What is recorded is not lost to something worse.                        *)

Far(s, b) == Dist(s, Moment(b))

\* A query of the row that fails reads as "not captured"; then the series
\* stands in for the row, and it does when no Redis write was lost before.
SeriesStandsIn == MaxFaults <= 1 \/ ~({"read", "redis"} \subseteq FaultKinds)

\* The readings of the table are in the series, but for those whose Redis
\* write was lost.
Remembered ==
    \A b \in Boundaries : SampleOf(b) # None /\ SampleOf(b) \notin series =>
        "redis" \in FaultKinds /\ faults < MaxFaults

\* The pass visits what the poll can no longer capture.
TooOld == \A b \in todo : now - Moment(b) >= MinAge

NotWorse(s, b) ==
    SampleOf(b) = None \/ Far(s, b) <= Tol \/ Far(s, b) <= Far(SampleOf(b), b)

PickedGood ==
    picked # None => /\ picked \in series
                     /\ \A b \in todo : IsFirst(b) => NotWorse(picked, b)

\* A day that its columns make billable carries the bill, whether or not the
\* registers ever fell.
Billed == \A d \in Days : Billable(at[d]) => tariff[d] = Amounts(at[d])

\* The boundaries of a day are at least a tick apart and within the day.
LEMMA Offsets ==
    ASSUME NEW g \in Hours, NEW h \in Hours
    PROVE  /\ Offset(g) \in Nat /\ Offset(g) < DayLen
           /\ Offset(g) = Offset(h) => g = h
<1>1. /\ DayLen \in Nat /\ DayStart \in Nat /\ DayEnd \in Nat /\ Tol \in Nat
      /\ 2 * Tol < DayStart /\ 2 * Tol < DayEnd - DayStart
      /\ 2 * Tol < DayLen - DayEnd
    BY ClockAssumption
<1>2. 0 < DayStart /\ DayStart < DayEnd /\ DayEnd < DayLen
    BY <1>1
<1>. QED
    BY <1>1, <1>2 DEF Hours, Offset

LEMMA DaysScale ==
    ASSUME NEW m \in Nat, NEW n \in Nat, NEW L \in Nat, m <= n
    PROVE  m * L <= n * L
OBVIOUS

LEMMA DayAndOffset ==
    ASSUME NEW m \in Nat, NEW n \in Nat, NEW L \in Nat, NEW x \in Nat, NEW y \in Nat,
           x < L, y < L, m * L + x = n * L + y
    PROVE  m = n /\ x = y
<1>1. CASE m < n
    <2>1. (m + 1) * L <= n * L
        BY <1>1, DaysScale
    <2>2. (m + 1) * L = m * L + L /\ m * L \in Nat /\ n * L \in Nat
        OBVIOUS
    <2>. QED
        BY <2>1, <2>2
<1>2. CASE n < m
    <2>1. (n + 1) * L <= m * L
        BY <1>2, DaysScale
    <2>2. (n + 1) * L = n * L + L /\ m * L \in Nat /\ n * L \in Nat
        OBVIOUS
    <2>. QED
        BY <2>1, <2>2
<1>3. CASE m = n
    BY <1>3
<1>. QED
    BY <1>1, <1>2, <1>3

LEMMA MomentsDiffer ==
    ASSUME NEW b \in Boundaries, NEW c \in Boundaries, Moment(b) = Moment(c)
    PROVE  b = c
<1>. DEFINE m == b[1]  n == c[1]  x == Offset(b[2])  y == Offset(c[2])
<1>1. m \in Nat /\ n \in Nat /\ DayLen \in Nat
    BY ClockAssumption, BoundaryFields DEF Days
<1>2. b[2] \in Hours /\ c[2] \in Hours
    BY BoundaryFields
<1>3. x \in Nat /\ x < DayLen /\ y \in Nat /\ y < DayLen
    BY <1>2, Offsets
<1>4. m * DayLen + x = n * DayLen + y
    BY DEF Moment
<1>5. m = n /\ x = y
    <2>. HIDE DEF m, n, x, y
    <2>. QED
        BY <1>1, <1>3, <1>4, DayAndOffset
<1>6. b[2] = c[2]
    BY <1>2, <1>5, Offsets
<1>. QED
    BY <1>5, <1>6 DEF Boundaries

\* The pass has one boundary in hand at a time.
LEMMA OneFirst ==
    ASSUME TypeOK, NEW b, NEW c, IsFirst(b), IsFirst(c)
    PROVE  b = c
<1>1. b \in Boundaries /\ c \in Boundaries
    BY DEF IsFirst, TypeOK
<1>2. Moment(b) <= Moment(c) /\ Moment(c) <= Moment(b)
    BY DEF IsFirst
<1>. QED
    BY <1>1, <1>2, MomentType, MomentsDiffer

\* A store leaves the other boundaries alone.
LEMMA StoreAt ==
    ASSUME NEW b \in Boundaries, NEW s, StoreBoundary(b, s), NEW c \in Boundaries
    PROVE  SampleOf(c)' = IF c = b THEN s ELSE SampleOf(c)
<1>1. c[1] \in Rows /\ c[2] \in Marks /\ c[2] # "next"
    BY BoundaryFields DEF Marks, Hours
<1>2. SampleOf(c)' = IF c[1] = b[1] /\ c[2] = b[2] THEN s ELSE SampleOf(c)
    BY <1>1, StoreColumns DEF SampleOf
<1>. QED
    BY <1>2 DEF Boundaries

\* Of a boundary that has a reading the row says so; the second copy of a
\* midnight is never alone missing.
LEMMA CapturedIsAt ==
    ASSUME TableInv, NEW b \in Boundaries
    PROVE  Captured(b) <=> SampleOf(b) # None
<1>1. b[2] = "0000" => at[b[1] - 1]["next"] = at[b[1]]["0000"]
    <2>1. b[1] - 1 \in Rows /\ (b[1] - 1) + 1 = b[1] /\ b[1] \in Days
        BY BoundaryFields, ClockAssumption DEF Days, Rows
    <2>. QED
        BY <2>1 DEF TableInv, NextColumn
<1>. QED
    BY <1>1 DEF Captured, SampleOf

LEMMA FarType ==
    ASSUME NEW s \in Time, NEW b \in Boundaries
    PROVE  Far(s, b) \in Nat
<1>1. s \in Int
    BY ClockAssumption DEF Time
<1>2. Moment(b) \in Int
    BY MomentType
<1>. QED
    BY <1>1, <1>2, DistType DEF Far

\* What may be recorded for a boundary: near it, and no worse than what it has.
Recordable(s, b) == Near(s, b) /\ NotWorse(s, b)

\* The backfill finds nothing worse than what the row holds, even if it could
\* not read the row.
LEMMA FoundIsGood ==
    ASSUME TypeOK, TableInv, Remembered, SeriesStandsIn, NEW b \in todo,
           NEW s \in series, IsNearest(s, b),
           ~Captured(b) \/ ("read" \in FaultKinds /\ faults > 0)
    PROVE  NotWorse(s, b)
<1>. SUFFICES ASSUME SampleOf(b) # None PROVE Far(s, b) <= Far(SampleOf(b), b)
    BY DEF NotWorse
<1>1. b \in Boundaries
    BY DEF TypeOK
<1>2. "read" \in FaultKinds /\ faults > 0
    BY <1>1, CapturedIsAt
<1>3. SampleOf(b) \in series
    <2>1. SUFFICES ASSUME "redis" \in FaultKinds, faults < MaxFaults PROVE FALSE
        BY <1>1 DEF Remembered
    <2>2. MaxFaults <= 1
        BY <1>2, <2>1 DEF SeriesStandsIn
    <2>. QED
        BY <1>2, <2>1, <2>2, ClockAssumption DEF TypeOK
<1>4. SampleOf(b) \in Around(b)
    BY <1>1, <1>3 DEF TableInv, Placed, Near, SampleOf, Around
<1>5. /\ Far(s, b) \in Nat /\ Far(SampleOf(b), b) \in Nat
    <2>. QED
        BY <1>1, <1>3, FarType DEF TypeOK
<1>. QED
    BY <1>4, <1>5 DEF IsNearest, Far

\* Every step of the program leaves the table alone or records, for some
\* boundary, a reading that is no worse.
LEMMA Records ==
    ASSUME TypeOK, PickedNear, PickedGood, [Next]_vars
    PROVE  /\ load' = load
           /\ \/ UNCHANGED <<at, tariff>>
              \/ \E b \in Boundaries, s \in Time :
                    Recordable(s, b) /\ StoreBoundary(b, s)
<1>0. load' = load
    BY Writes
<1>1. CASE Poll
    <2>1. CASE UNCHANGED <<at, tariff>>
        BY <1>0, <2>1
    <2>2. ASSUME NEW b \in Boundaries, Captures(b), StoreBoundary(b, now)
          PROVE  Recordable(now, b)
        <3>1. Far(now, b) <= Tol
            BY <2>2 DEF Captures, Far
        <3>2. Far(now, b) \in Nat
            BY FarType DEF TypeOK
        <3>3. Near(now, b)
            BY <3>1, <3>2, ClockAssumption DEF Near, Far
        <3>. QED
            BY <3>1, <3>3 DEF Recordable, NotWorse
    <2>3. now \in Time
        BY DEF TypeOK
    <2>. QED
        BY <1>0, <1>1, <2>1, <2>2, <2>3 DEF Poll
<1>2. CASE BackfillStore
    <2>1. picked \in Time /\ picked # None
        BY <1>2 DEF BackfillStore, TypeOK, Samples
    <2>2. PICK b \in todo :
            IsFirst(b) /\ (UNCHANGED <<at, tariff>> \/ StoreBoundary(b, picked))
        BY <1>2 DEF BackfillStore
    <2>3. b \in Boundaries /\ Recordable(picked, b)
        BY <2>1, <2>2 DEF TypeOK, PickedNear, PickedGood, Recordable
    <2>. QED
        BY <1>0, <2>1, <2>2, <2>3
<1>3. CASE Tick \/ BackfillStart \/ BackfillLook \/ Restart \/ UNCHANGED vars
    BY <1>0, <1>3 DEF Tick, BackfillStart, BackfillLook, Restart, vars
<1>. QED
    BY <1>1, <1>2, <1>3 DEF Next, Backfill

LEMMA OldStep == TypeOK /\ TooOld /\ [Next]_vars => TooOld'
<1>. SUFFICES ASSUME TypeOK, TooOld, [Next]_vars, NEW b \in todo'
              PROVE  now' - Moment(b) >= MinAge
    BY DEF TooOld
<1>1. CASE BackfillStart
    BY <1>1 DEF BackfillStart, Eligible, IsEligible
<1>2. CASE Tick
    <2>1. now' = now + 1 /\ b \in todo /\ now - Moment(b) >= MinAge
        BY <1>2 DEF Tick, TooOld
    <2>2. now \in Int /\ Moment(b) \in Int /\ MinAge \in Int
        BY <2>1, MomentType, ClockAssumption DEF TypeOK, Time
    <2>. QED
        BY <2>1, <2>2
<1>3. CASE BackfillLook \/ BackfillStore
    <2>1. now' = now /\ b \in todo
        BY <1>3 DEF BackfillLook, BackfillStore
    <2>. QED
        BY <2>1 DEF TooOld
<1>4. CASE Poll \/ Restart \/ UNCHANGED vars
    <2>1. now' = now /\ b \in todo
        BY <1>4 DEF Poll, Restart, vars
    <2>. QED
        BY <2>1 DEF TooOld
<1>. QED
    BY <1>1, <1>2, <1>3, <1>4 DEF Next, Backfill

\* Losing a call costs one of the faults at least.
LEMMA LossCounts ==
    ASSUME NEW lost \in SUBSET (FaultKinds \cap {"redis", "store"})
    PROVE  Cardinality(lost) \in Nat /\ (lost # {} => Cardinality(lost) > 0)
<1>1. IsFiniteSet({} \cup {"redis"})
    BY FS_EmptySet, FS_AddElement
<1>2. IsFiniteSet(({} \cup {"redis"}) \cup {"store"})
    BY <1>1, FS_AddElement
<1>3. lost \subseteq (({} \cup {"redis"}) \cup {"store"})
    OBVIOUS
<1>4. IsFiniteSet(lost)
    BY <1>2, <1>3, FS_Subset
<1>. QED
    BY <1>4, FS_CardinalityType, FS_EmptySet

LEMMA FaultsFall == TypeOK /\ [Next]_vars => faults' <= faults
<1>. SUFFICES ASSUME TypeOK, [Next]_vars PROVE faults' <= faults
    OBVIOUS
<1>0. faults \in Int
    BY ClockAssumption DEF TypeOK
<1>1. CASE Poll
    <2>1. PICK lost \in SUBSET (FaultKinds \cap {"redis", "store"}) :
            faults' = faults - Cardinality(lost)
        BY <1>1 DEF Poll
    <2>. QED
        BY <1>0, <2>1, LossCounts
<1>2. CASE Backfill \/ Tick \/ Restart \/ UNCHANGED vars
    BY <1>0, <1>2
       DEF Backfill, BackfillStart, BackfillLook, BackfillStore, Tick, Restart, vars
<1>. QED
    BY <1>1, <1>2 DEF Next

LEMMA RememberedStep ==
    TypeOK /\ PickedGood /\ Remembered /\ [Next]_vars => Remembered'
<1>. SUFFICES ASSUME TypeOK, PickedGood, Remembered, [Next]_vars,
                     NEW c \in Boundaries, SampleOf(c)' # None, SampleOf(c)' \notin series'
              PROVE  "redis" \in FaultKinds /\ faults' < MaxFaults
    BY DEF Remembered
<1>0. /\ faults \in Int /\ faults <= MaxFaults /\ MaxFaults \in Int
      /\ faults' <= faults /\ faults' \in Int
    BY ClockAssumption, FaultsFall, TypeStep DEF TypeOK
<1>1. ASSUME SampleOf(c)' = SampleOf(c), series \subseteq series'
      PROVE  "redis" \in FaultKinds /\ faults' < MaxFaults
    <2>1. "redis" \in FaultKinds /\ faults < MaxFaults
        BY <1>1 DEF Remembered
    <2>. QED
        BY <1>0, <2>1
<1>2. CASE Poll
    <2>1. PICK lost \in SUBSET (FaultKinds \cap {"redis", "store"}) :
            /\ faults' = faults - Cardinality(lost)
            /\ series' = IF "redis" \in lost THEN series ELSE series \cup {now}
        BY <1>2 DEF Poll
    <2>2. series \subseteq series'
        BY <2>1
    <2>3. CASE "redis" \in lost
        <3>1. Cardinality(lost) \in Nat /\ Cardinality(lost) > 0
            BY <2>3, LossCounts
        <3>. QED
            BY <1>0, <2>1, <2>3, <3>1
    <2>4. CASE "redis" \notin lost
        <3>1. now \in series'
            BY <2>1, <2>4
        <3>2. SampleOf(c)' = SampleOf(c) \/ SampleOf(c)' = now
            <4>1. CASE UNCHANGED <<at, tariff>>
                BY <4>1 DEF SampleOf
            <4>2. ASSUME NEW b \in Boundaries, StoreBoundary(b, now)
                  PROVE  SampleOf(c)' = SampleOf(c) \/ SampleOf(c)' = now
                BY <4>2, StoreAt
            <4>. QED
                BY <1>2, <4>1, <4>2 DEF Poll
        <3>. QED
            BY <1>1, <2>2, <3>1, <3>2
    <2>. QED
        BY <2>3, <2>4
<1>3. CASE BackfillStore
    <2>1. series' = series /\ picked \in series
        BY <1>3 DEF BackfillStore, PickedGood
    <2>2. PICK b \in todo : UNCHANGED <<at, tariff>> \/ StoreBoundary(b, picked)
        BY <1>3 DEF BackfillStore
    <2>3. b \in Boundaries
        BY DEF TypeOK
    <2>4. CASE UNCHANGED <<at, tariff>>
        <3>1. SampleOf(c)' = SampleOf(c)
            BY <2>4 DEF SampleOf
        <3>. QED
            BY <1>1, <2>1, <3>1
    <2>5. CASE StoreBoundary(b, picked)
        <3>1. SampleOf(c)' = SampleOf(c) \/ SampleOf(c)' = picked
            BY <2>3, <2>5, StoreAt
        <3>. QED
            BY <1>1, <2>1, <3>1
    <2>. QED
        BY <2>2, <2>4, <2>5
<1>4. CASE Tick \/ BackfillStart \/ BackfillLook \/ Restart \/ UNCHANGED vars
    <2>1. at' = at /\ series' = series
        BY <1>4 DEF Tick, BackfillStart, BackfillLook, Restart, vars
    <2>2. SampleOf(c)' = SampleOf(c)
        BY <2>1 DEF SampleOf
    <2>. QED
        BY <1>1, <2>1, <2>2
<1>. QED
    BY <1>2, <1>3, <1>4 DEF Next, Backfill

\* While the pass has a point in hand, the poll cannot capture its boundary:
\* meterBackfillMinAge outlasts the window of the capture.
LEMMA PickedGoodStep ==
    ASSUME SeriesStandsIn, TypeOK, TableInv, Remembered, TooOld, PickedGood,
           [Next]_vars
    PROVE  PickedGood'
<1>1. CASE BackfillLook
    <2>1. PICK b \in todo, fault \in {None} \cup (FaultKinds \cap {"read", "redis"}) :
            /\ IsFirst(b)
            /\ fault # None => faults > 0
            /\ \/ picked' = None
               \/ /\ ~Captured(b) \/ fault = "read"
                  /\ \E s \in series : IsNearest(s, b) /\ picked' = s
                  /\ todo' = todo
        BY <1>1 DEF BackfillLook
    <2>2. at' = at /\ series' = series
        BY <1>1 DEF BackfillLook
    <2>3. CASE picked' = None
        BY <2>3 DEF PickedGood
    <2>4. ASSUME ~Captured(b) \/ fault = "read", todo' = todo,
                 NEW s \in series, IsNearest(s, b), picked' = s
          PROVE  PickedGood'
        <3>1. fault = "read" => "read" \in FaultKinds /\ faults > 0
            <4>1. fault = "read" => fault # None
                BY DataAssumption DEF AllFaults
            <4>. QED
                BY <2>1, <4>1
        <3>2. NotWorse(s, b)
            BY <2>4, <3>1, FoundIsGood
        <3>3. ASSUME NEW c \in todo', IsFirst(c)' PROVE c = b
            BY <2>1, <2>4, <3>3, OneFirst DEF IsFirst
        <3>. QED
            BY <2>2, <2>4, <3>2, <3>3 DEF PickedGood, NotWorse, SampleOf
    <2>. QED
        BY <2>1, <2>3, <2>4
<1>2. CASE Poll
    <2>1. UNCHANGED <<picked, todo>> /\ series \subseteq series'
        BY <1>2 DEF Poll
    <2>2. ASSUME NEW c \in todo PROVE SampleOf(c)' = SampleOf(c)
        <3>0. c \in Boundaries /\ now \in Int /\ Moment(c) \in Int
            BY MomentType, ClockAssumption DEF TypeOK, Time
        <3>1. ~(Dist(now, Moment(c)) <= Tol)
            <4>1. now - Moment(c) >= MinAge /\ Tol < MinAge /\ Tol \in Nat
                  /\ MinAge \in Nat
                BY ClockAssumption DEF TooOld
            <4>. QED
                BY <3>0, <4>1 DEF Dist
        <3>2. ASSUME NEW b \in Boundaries, Captures(b), StoreBoundary(b, now)
              PROVE  SampleOf(c)' = SampleOf(c)
            BY <3>0, <3>1, <3>2, StoreAt DEF Captures
        <3>3. CASE UNCHANGED <<at, tariff>>
            BY <3>3 DEF SampleOf
        <3>. QED
            BY <1>2, <3>2, <3>3 DEF Poll
    <2>. QED
        BY <2>1, <2>2 DEF PickedGood, NotWorse, IsFirst
<1>3. CASE BackfillStore \/ Restart
    BY <1>3 DEF BackfillStore, Restart, PickedGood
<1>4. CASE BackfillStart
    BY <1>4 DEF BackfillStart, PickedGood, TableInv, PickedNear
<1>5. CASE Tick \/ UNCHANGED vars
    BY <1>5 DEF Tick, vars, PickedGood, NotWorse, IsFirst, SampleOf
<1>. QED
    BY <1>1, <1>2, <1>3, <1>4, <1>5 DEF Next, Backfill

LEMMA RecordInit == Init => Remembered /\ TooOld /\ PickedGood /\ Billed
<1>. SUFFICES ASSUME Init PROVE Remembered /\ TooOld /\ PickedGood /\ Billed
    OBVIOUS
<1>1. \A d \in Rows, k \in Marks : at[d][k] = None
    BY DEF Init
<1>2. Remembered
    BY <1>1, BoundaryFields DEF Remembered, SampleOf, Marks
<1>3. TooOld /\ PickedGood
    BY DEF Init, TooOld, PickedGood
<1>4. Billed
    BY <1>1, ClockAssumption DEF Billed, Billable, Complete, Marks, Days, Rows
<1>. QED
    BY <1>2, <1>3, <1>4

\* A store finalizes every day whose columns it changes.
LEMMA UntouchedRow ==
    ASSUME TypeOK, NEW b \in Boundaries, NEW s \in Time, StoreBoundary(b, s),
           NEW d \in Days, d \notin Touched(b)
    PROVE  at'[d] = at[d] /\ tariff'[d] = tariff[d]
<1>1. d \in Rows
    BY ClockAssumption DEF Days, Rows
<1>2. \A k \in Marks : at'[d][k] = at[d][k]
    BY <1>1, StoreColumns DEF Touched
<1>3. at'[d] \in [Marks -> Samples] /\ at[d] \in [Marks -> Samples]
    BY <1>1, StoreType DEF TypeOK
<1>. QED
    BY <1>1, <1>2, <1>3 DEF StoreBoundary

LEMMA BilledStep ==
    TypeOK /\ TableInv /\ Billed /\ [Next]_vars => Billed'
<1>. SUFFICES ASSUME TypeOK, TableInv, Billed, [Next]_vars,
                     NEW d \in Days, Billable(at[d])'
              PROVE  tariff'[d] = Amounts(at[d])'
    BY DEF Billed
<1>0. load' = load /\ d \in Rows
    BY Writes, ClockAssumption DEF TableInv, Days, Rows
<1>1. Amounts(at[d])' = Amounts(at'[d]) /\ Billable(at'[d])
    BY <1>0 DEF Amounts, Billable, Complete
<1>2. CASE at'[d] = at[d] /\ tariff'[d] = tariff[d]
    BY <1>1, <1>2 DEF Billed
<1>3. ASSUME NEW b \in Boundaries, NEW s \in Time, StoreBoundary(b, s)
      PROVE  tariff'[d] = Amounts(at[d])'
    <2>1. CASE d \in Touched(b)
        <3>1. tariff'[d] = Finalize(at'[d], tariff[d])
            BY <1>0, <1>3, <2>1 DEF StoreBoundary
        <3>. QED
            BY <1>1, <3>1 DEF Finalize
    <2>2. CASE d \notin Touched(b)
        BY <1>2, <1>3, <2>2, UntouchedRow
    <2>. QED
        BY <2>1, <2>2
<1>. QED
    BY <1>2, <1>3, Writes DEF TableInv

RecordInv == Remembered /\ TooOld /\ PickedGood /\ Billed

\* Readings give way only to readings that are no worse, and every billable day
\* carries its bill.
LEMMA RecordCorrect ==
    ASSUME SeriesStandsIn
    PROVE  Spec => [](TypeOK /\ TableInv /\ RecordInv)
<1>1. Init => TypeOK /\ TableInv /\ RecordInv
    BY TypeInit, TableInit, RecordInit DEF RecordInv
<1>2. TypeOK /\ TableInv /\ RecordInv /\ [Next]_vars
        => (TypeOK /\ TableInv /\ RecordInv)'
    BY TypeStep, TableStep, RememberedStep, OldStep, PickedGoodStep, BilledStep
       DEF RecordInv
<1>. QED
    BY <1>1, <1>2, PTL DEF Spec

\* What the poll captured within meterCaptureTol is replaced by nothing that is
\* farther, whichever writers race and whatever fails, unless both a Redis write
\* and a query of the row fail.
THEOREM LiveCaptureKeptCorrect == ASSUME SeriesStandsIn PROVE Spec => LiveCaptureKept
<1>1. TypeOK /\ TableInv /\ RecordInv /\ [Next]_vars
        => [\A b \in Boundaries : WithinTol(b) => WithinTol(b)']_vars
    <2>. SUFFICES ASSUME TypeOK, TableInv, RecordInv, [Next]_vars,
                         NEW c \in Boundaries, SampleOf(c) # None, Far(SampleOf(c), c) <= Tol
                  PROVE  SampleOf(c)' # None /\ Far(SampleOf(c)', c) <= Tol
        BY DEF WithinTol, SampleOf, Far
    <2>1. CASE UNCHANGED <<at, tariff>>
        BY <2>1 DEF SampleOf
    <2>2. ASSUME NEW b \in Boundaries, NEW s \in Time, NotWorse(s, b),
                 StoreBoundary(b, s)
          PROVE  SampleOf(c)' # None /\ Far(SampleOf(c)', c) <= Tol
        <3>1. CASE c # b
            BY <2>2, <3>1, StoreAt
        <3>2. CASE c = b
            <4>1. SampleOf(c)' = s /\ s # None
                BY <2>2, <3>2, StoreAt, NoneIsNoTime
            <4>2. SampleOf(c) \in Time
                BY BoundaryFields DEF TypeOK, Samples, Marks, SampleOf
            <4>3. Far(s, c) <= Tol
                BY <2>2, <3>2, <4>2, FarType, ClockAssumption DEF NotWorse
            <4>. QED
                BY <4>1, <4>3
        <3>. QED
            BY <3>1, <3>2
    <2>. QED
        BY <2>1, <2>2, Records DEF TableInv, RecordInv, Recordable
<1>2. Spec => [](TypeOK /\ TableInv /\ RecordInv)
    BY RecordCorrect
<1>. QED
    BY <1>1, <1>2, PTL DEF Spec, LiveCaptureKept

-----------------------------------------------------------------------------
(* The table implements the ledger.                                        *)

Book == [b \in Boundaries |-> at[b[1]][b[2]]]

LEMMA LedgerBoundaries ==
    /\ Boundaries = Ledger!Boundary
    /\ \A b \in Boundaries : Moment(b) = Ledger!Instant(b)
    /\ \A b \in Boundaries : \A s : Far(s, b) = Ledger!Far(s, b)
<1>1. Boundaries = Ledger!Boundary
    BY DEF Boundaries, Hours, Ledger!Boundary
<1>2. ASSUME NEW b \in Boundaries PROVE Moment(b) = Ledger!Instant(b)
    BY BoundaryFields DEF Moment, Offset, Hours, Ledger!Instant
<1>. QED
    BY <1>1, <1>2 DEF Far, Dist, Ledger!Far

\* A row that holds the same readings as the ledger's four corners of its day
\* is billed alike.
LEMMA RowIsBook ==
    ASSUME NEW d \in Days, NEW row, NEW book,
           \A h \in Hours : book[<<d, h>>] = row[h],
           row["next"] = IF d + 1 \in Days THEN book[<<d + 1, "0000">>] ELSE None
    PROVE  /\ Billable(row) <=> Ledger!Billable(book, d)
           /\ Billable(row) => Amounts(row) = Ledger!Bill(book, d)
<1>1. \A h \in Hours : <<d, h>> \in Boundaries
    BY DEF Boundaries
<1>2. <<d + 1, "0000">> \in Boundaries <=> d + 1 \in Days
    BY DEF Boundaries, Hours
<1>3. Complete(row) <=> \A b \in Ledger!Corners(d) :
                            b \in Ledger!Boundary /\ book[b] # None
    BY <1>1, <1>2, LedgerBoundaries
       DEF Complete, Marks, Hours, Ledger!Corners
<1>4. Complete(row) => Amounts(row) = Ledger!Bill(book, d)
    <2>. SUFFICES ASSUME Complete(row)
                  PROVE  Amounts(row) = Ledger!Bill(book, d)
        OBVIOUS
    <2>1. d + 1 \in Days
        BY DEF Complete, Marks
    <2>. QED
        BY <2>1 DEF Amounts, Rates, Hours, Ledger!Bill, Ledger!Gain
<1>. QED
    BY <1>3, <1>4 DEF Billable, Rates, Ledger!Billable

LEMMA LedgerInit == TypeOK /\ Init => Ledger!Init
<1>. SUFFICES ASSUME TypeOK, Init PROVE Ledger!Init
    OBVIOUS
<1>1. load \in Loads
    BY DEF Init
<1>2. \A b \in Boundaries : at[b[1]][b[2]] = None
    BY BoundaryFields DEF Init, Marks
<1>3. \A d \in Days : tariff[d] = None
    BY ClockAssumption DEF Init, Days, Rows
<1>. QED
    BY <1>1, <1>2, <1>3, LedgerBoundaries DEF Ledger!Init

\* A store of a reading that is near and no worse is a step of the ledger: the
\* days it does not finalize have their bills already.
LEMMA StoreIsRecord ==
    ASSUME TypeOK, TableInv, TypeOK', TableInv', Billed, load' = load,
           NEW b \in Boundaries, NEW s \in Time, Recordable(s, b),
           StoreBoundary(b, s)
    PROVE  Ledger!Record(b, s)
<1>1. Ledger!Far(s, b) <= MaxDist
    BY LedgerBoundaries DEF Recordable, Near, Far
<1>2. Book[b] # None => Ledger!Far(s, b) <= Tol
                        \/ Ledger!Far(s, b) <= Ledger!Far(Book[b], b)
    BY LedgerBoundaries DEF Recordable, NotWorse, Book, SampleOf
<1>3. Book' = [Book EXCEPT ![b] = s]
    <2>1. \A c \in Boundaries : Book'[c] = IF c = b THEN s ELSE Book[c]
        BY StoreAt DEF Book, SampleOf
    <2>. QED
        BY <2>1 DEF Book
<1>4. ASSUME NEW d \in Days
      PROVE  tariff'[d] = IF Ledger!Billable(Book', d)
                          THEN Ledger!Bill(Book', d) ELSE tariff[d]
    <2>0. d \in Rows
        BY ClockAssumption DEF Days, Rows
    <2>1. /\ Billable(at'[d]) <=> Ledger!Billable(Book', d)
          /\ Billable(at'[d]) => Amounts(at'[d]) = Ledger!Bill(Book', d)
        <3>1. \A h \in Hours : Book'[<<d, h>>] = at'[d][h]
            BY DEF Book, Boundaries
        <3>2. d + 1 \in Days => Book'[<<d + 1, "0000">>] = at'[d + 1]["0000"]
            BY DEF Book, Boundaries, Hours
        <3>3. at'[d]["next"] = IF d + 1 \in Days THEN Book'[<<d + 1, "0000">>]
                               ELSE None
            BY <2>0, <3>2 DEF TableInv, NextColumn
        <3>. QED
            BY <3>1, <3>3, RowIsBook
    <2>2. CASE d \in Touched(b)
        BY <2>0, <2>1, <2>2 DEF StoreBoundary, Finalize
    <2>3. CASE d \notin Touched(b)
        <3>1. at'[d] = at[d] /\ tariff'[d] = tariff[d]
            BY <2>3, UntouchedRow
        <3>2. Billable(at'[d]) => tariff[d] = Amounts(at'[d])
            BY <3>1 DEF Billed
        <3>. QED
            BY <2>1, <3>1, <3>2
    <2>. QED
        BY <2>2, <2>3
<1>. QED
    BY <1>1, <1>2, <1>3, <1>4 DEF Ledger!Record, Book

\* Every step of the three writers, with the two rows of a midnight, the
\* finalized days and the failures between them, is one reading recorded in the
\* ledger with the bills it completes, or leaves the ledger as it was.
THEOREM RefinesLedgerCorrect == ASSUME SeriesStandsIn PROVE Spec => RefinesLedger
<1>1. Init => Ledger!Init
    BY TypeInit, LedgerInit
<1>2. /\ TypeOK /\ TableInv /\ RecordInv
      /\ (TypeOK /\ TableInv)'
      /\ [Next]_vars
      => [Ledger!Next]_(Ledger!vars)
    <2>. SUFFICES ASSUME TypeOK, TableInv, RecordInv, (TypeOK /\ TableInv)',
                         [Next]_vars
                  PROVE  [Ledger!Next]_(Ledger!vars)
        OBVIOUS
    <2>1. load' = load
        BY Records DEF TableInv, RecordInv
    <2>2. CASE UNCHANGED <<at, tariff>>
        BY <2>1, <2>2 DEF Ledger!vars
    <2>3. ASSUME NEW b \in Boundaries, NEW s \in Time, Recordable(s, b),
                 StoreBoundary(b, s)
          PROVE  Ledger!Next
        <3>1. Ledger!Record(b, s)
            BY <2>1, <2>3, StoreIsRecord DEF RecordInv
        <3>2. b \in Ledger!Boundary
            BY LedgerBoundaries
        <3>. QED
            BY <3>1, <3>2 DEF Ledger!Next
    <2>. QED
        BY <2>2, <2>3, Records DEF TableInv, RecordInv
<1>3. Spec => [](TypeOK /\ TableInv /\ RecordInv)
    BY RecordCorrect
<1>. QED
    BY <1>1, <1>2, <1>3, PTL DEF Spec, RefinesLedger, Ledger!Spec

-----------------------------------------------------------------------------
(* Sums.  The fold over a set is defined by a recursion; that there is a   *)
(* function as the recursion wants it, and what its values are, follows    *)
(* for every finite set from a least counterexample.                       *)

\* A set of numbers that is not empty has a least one.
LEMMA LeastExists ==
    ASSUME NEW S \in SUBSET Nat, S # {}
    PROVE  \E x \in S : \A y \in S : x <= y
<1>. DEFINE R0 == OpToRel(<, Nat)
<1>1. \A x, y \in Nat : <<y, x>> \in R0 <=> y < x
    BY DEF OpToRel
<1>2. IsWellFoundedOn(R0, Nat)
    BY NatLessThanWellFounded
<1>. HIDE DEF R0
<1>3. PICK x \in S : \A y \in S : ~(<<y, x>> \in R0)
    BY <1>2, WFMin
<1>4. \A y \in S : x <= y
    <2>1. \A y \in S : ~(y < x)
        BY <1>1, <1>3, Zenon
    <2>. QED
        BY <2>1
<1>. QED
    BY <1>4

\* What is taken out of a set first.
First(s) == CHOOSE x \in s : TRUE

\* g sums f over every subset of S as the fold does, one element after the
\* other.
IsFold(g, f, S) ==
    g = [s \in SUBSET S |-> IF s = {} THEN 0 ELSE f[First(s)] + g[s \ {First(s)}]]

\* Of the subsets of a finite set a smaller one is left when one is taken out.
LEMMA TakeOut ==
    ASSUME NEW S, IsFiniteSet(S), NEW s \in SUBSET S
    PROVE  /\ Cardinality(s) \in Nat /\ (Cardinality(s) = 0 <=> s = {})
           /\ s # {} => First(s) \in s
           /\ \A x \in s : /\ s \ {x} \in SUBSET S
                           /\ Cardinality(s \ {x}) = Cardinality(s) - 1
<1>1. IsFiniteSet(s)
    BY FS_Subset
<1>. QED
    BY <1>1, FS_CardinalityType, FS_EmptySet, FS_RemoveElement DEF First

\* The fold is defined: there is a function as its recursion wants it.
LEMMA FoldExists ==
    ASSUME NEW f, NEW S, IsFiniteSet(S)
    PROVE  \E g : IsFold(g, f, S)
<1>. DEFINE D(n) == {s \in SUBSET S : Cardinality(s) <= n}
            w(s) == f[First(s)]
            Is(g, n) == g = [s \in D(n) |-> IF s = {} THEN 0 ELSE w(s) + g[s \ {First(s)}]]
            Bad == {n \in Nat : ~\E g : Is(g, n)}
<1>1. \A s \in SUBSET S : Cardinality(s) \in Nat /\ (Cardinality(s) = 0 <=> s = {})
    BY TakeOut
<1>2. \A s \in SUBSET S : s # {} =>
         s \ {First(s)} \in SUBSET S /\ Cardinality(s \ {First(s)}) = Cardinality(s) - 1
    BY TakeOut
<1>. HIDE DEF w
<1>3. \E g : Is(g, 0)
    <2>. DEFINE g == [s \in D(0) |-> 0]
    <2>1. \A s \in D(0) : s = {}
        BY <1>1
    <2>2. Is(g, 0)
        BY <2>1
    <2>. QED
        BY <2>2
<1>4. ASSUME NEW n \in Nat, n > 0, \E g : Is(g, n - 1)
      PROVE  \E g : Is(g, n)
    <2>1. PICK h : Is(h, n - 1)
        BY <1>4
    <2>. DEFINE g == [s \in D(n) |-> IF s = {} THEN 0 ELSE w(s) + h[s \ {First(s)}]]
    <2>2. D(n - 1) \subseteq D(n)
        BY <1>1
    <2>3. \A s \in D(n - 1) : g[s] = h[s]
        BY <2>1, <2>2
    <2>4. \A s \in D(n) : s # {} => s \ {First(s)} \in D(n - 1)
        BY <1>1, <1>2
    <2>5. Is(g, n)
        BY <2>3, <2>4
    <2>. QED
        BY <2>5
<1>5. Bad = {}
    <2>. HIDE DEF Is
    <2>1. SUFFICES ASSUME Bad # {} PROVE FALSE
        OBVIOUS
    <2>2. PICK m \in Bad : \A y \in Bad : m <= y
        BY <2>1, LeastExists
    <2>3. m \in Nat /\ m # 0
        BY <1>3
    <2>4. m - 1 \in Nat /\ m - 1 \notin Bad
        BY <2>2, <2>3
    <2>. QED
        BY <1>4, <2>3, <2>4
<1>6. \E g : Is(g, Cardinality(S))
    <2>. HIDE DEF Is
    <2>. QED
        BY <1>1, <1>5
<1>7. D(Cardinality(S)) = SUBSET S
    BY <1>1, FS_Subset
<1>. QED
    BY <1>6, <1>7 DEF w, IsFold

\* A sum is what the recursion of the fold says.
LEMMA SumIs ==
    ASSUME NEW f, NEW S, IsFiniteSet(S)
    PROVE  \E g : IsFold(g, f, S) /\ SumFunctionOnSet(f, S) = g[S]
<1>. DEFINE F == CHOOSE g : IsFold(g, f, S)
<1>1. IsFold(F, f, S)
    BY FoldExists
<1>2. SumFunctionOnSet(f, S) = F[S]
    BY DEF SumFunctionOnSet, FoldFunctionOnSet, MapThenFoldSet, First, IsFold
<1>. QED
    BY <1>1, <1>2

\* Two folds agree on a set on which their functions agree.
LEMMA FoldsAgree ==
    ASSUME NEW f, NEW S, IsFiniteSet(S), NEW g, IsFold(g, f, S),
           NEW k, NEW T, NEW h, IsFold(h, k, T),
           NEW s \in SUBSET S, s \subseteq T, \A x \in s : f[x] = k[x]
    PROVE  g[s] = h[s]
<1>. DEFINE Bad == {n \in Nat : \E t \in SUBSET s : Cardinality(t) = n /\ g[t] # h[t]}
<1>1. \A t \in SUBSET s : t \in SUBSET S /\ t \in SUBSET T
    OBVIOUS
<1>2. \A t \in SUBSET s : t # {} =>
         g[t] = f[First(t)] + g[t \ {First(t)}] /\ h[t] = k[First(t)] + h[t \ {First(t)}]
    BY <1>1 DEF IsFold
<1>3. g[{}] = 0 /\ h[{}] = 0
    BY DEF IsFold
<1>4. SUFFICES ASSUME Bad # {} PROVE FALSE
    BY TakeOut
<1>5. PICK n \in Bad : \A m \in Bad : n <= m
    BY <1>4, LeastExists
<1>6. PICK t \in SUBSET s : Cardinality(t) = n /\ g[t] # h[t]
    OBVIOUS
<1>7. t # {} /\ First(t) \in t /\ f[First(t)] = k[First(t)]
    BY <1>1, <1>3, <1>6, TakeOut
<1>8. /\ t \ {First(t)} \in SUBSET s
      /\ Cardinality(t \ {First(t)}) \in Nat /\ Cardinality(t \ {First(t)}) < n
    BY <1>1, <1>6, <1>7, TakeOut
<1>9. g[t \ {First(t)}] # h[t \ {First(t)}]
    BY <1>2, <1>6, <1>7
<1>. QED
    BY <1>5, <1>8, <1>9

\* Numbers add up to a number, whichever of them is taken first.
LEMMA FoldTakesAny ==
    ASSUME NEW f, NEW S, IsFiniteSet(S), \A x \in S : f[x] \in Nat,
           NEW g, IsFold(g, f, S), NEW t \in SUBSET S
    PROVE  g[t] \in Nat /\ \A x \in t : g[t] = f[x] + g[t \ {x}]
<1>. DEFINE Good(s) == g[s] \in Nat /\ \A x \in s : g[s] = f[x] + g[s \ {x}]
            Bad == {n \in Nat : \E s \in SUBSET S : Cardinality(s) = n /\ ~Good(s)}
<1>1. g[{}] = 0
    BY DEF IsFold
<1>2. \A s \in SUBSET S : s # {} => g[s] = f[First(s)] + g[s \ {First(s)}]
    BY DEF IsFold
<1>3. SUFFICES ASSUME Bad # {} PROVE FALSE
    BY TakeOut
<1>4. PICK n \in Bad : \A m \in Bad : n <= m
    BY <1>3, LeastExists
<1>5. PICK s \in SUBSET S : Cardinality(s) = n /\ ~Good(s)
    OBVIOUS
<1>6. s # {}
    BY <1>1, <1>5
<1>7. \A r \in SUBSET S : Cardinality(r) < n => Good(r)
    <2>. HIDE DEF Good
    <2>1. \A r \in SUBSET S : Cardinality(r) \in Nat
        BY TakeOut
    <2>. QED
        BY <1>4, <2>1
<1>. DEFINE y == First(s)
<1>8. y \in s /\ g[s] = f[y] + g[s \ {y}]
    BY <1>2, <1>6, TakeOut
<1>. HIDE DEF y
<1>9. \A x \in s : s \ {x} \in SUBSET S /\ Cardinality(s \ {x}) < n
    BY <1>5, TakeOut
<1>10. \A x \in s : Good(s \ {x})
    BY <1>7, <1>9
<1>11. g[s] \in Nat
    <2>1. g[s \ {y}] \in Nat
        BY <1>8, <1>10
    <2>2. f[y] \in Nat
        BY <1>8
    <2>. QED
        BY <1>8, <2>1, <2>2
<1>12. ASSUME NEW x \in s, x # y PROVE g[s] = f[x] + g[s \ {x}]
    <2>1. x \in s \ {y} /\ y \in s \ {x} /\ (s \ {y}) \ {x} = (s \ {x}) \ {y}
        BY <1>8, <1>12
    <2>. DEFINE rest == g[(s \ {y}) \ {x}]
    <2>2. g[s \ {y}] = f[x] + rest /\ g[s \ {x}] = f[y] + rest
        BY <1>8, <1>10, <2>1
    <2>3. f[x] \in Nat /\ f[y] \in Nat /\ g[s \ {y}] \in Nat
        BY <1>8, <1>10
    <2>4. rest \in Nat
        <3>1. /\ (s \ {y}) \ {x} \in SUBSET S
              /\ Cardinality((s \ {y}) \ {x}) = Cardinality(s \ {y}) - 1
              /\ Cardinality(s \ {y}) \in Nat
            <4>. DEFINE less == s \ {y}
            <4>1. less \in SUBSET S /\ x \in less
                BY <2>1
            <4>. HIDE DEF less
            <4>2. /\ less \ {x} \in SUBSET S
                  /\ Cardinality(less \ {x}) = Cardinality(less) - 1
                  /\ Cardinality(less) \in Nat
                BY <4>1, TakeOut
            <4>. QED
                BY <4>2 DEF less
        <3>2. Cardinality((s \ {y}) \ {x}) < n
            BY <1>8, <1>9, <3>1
        <3>3. Good((s \ {y}) \ {x})
            BY <1>7, <3>1, <3>2
        <3>. QED
            BY <3>3
    <2>. QED
        BY <1>8, <2>2, <2>3, <2>4
<1>. QED
    BY <1>5, <1>8, <1>11, <1>12

\* A sum over nothing.
LEMMA SumEmpty == ASSUME NEW f PROVE SumFunctionOnSet(f, {}) = 0
<1>1. PICK g : IsFold(g, f, {}) /\ SumFunctionOnSet(f, {}) = g[{}]
    BY SumIs, FS_EmptySet
<1>. QED
    BY <1>1 DEF IsFold

\* Only the values on the set count.
LEMMA SumSame ==
    ASSUME NEW f, NEW k, NEW S, IsFiniteSet(S), \A x \in S : f[x] = k[x]
    PROVE  SumFunctionOnSet(f, S) = SumFunctionOnSet(k, S)
<1>1. PICK g : IsFold(g, f, S) /\ SumFunctionOnSet(f, S) = g[S]
    BY SumIs
<1>2. PICK h : IsFold(h, k, S) /\ SumFunctionOnSet(k, S) = h[S]
    BY SumIs
<1>3. g[S] = h[S]
    BY <1>1, <1>2, FoldsAgree
<1>. QED
    BY <1>1, <1>2, <1>3

\* One element more.
LEMMA SumAdd ==
    ASSUME NEW f, NEW S, IsFiniteSet(S), NEW x, x \notin S,
           \A y \in S \cup {x} : f[y] \in Nat
    PROVE  /\ SumFunctionOnSet(f, S) \in Nat
           /\ SumFunctionOnSet(f, S \cup {x}) = f[x] + SumFunctionOnSet(f, S)
<1>. DEFINE T == S \cup {x}
<1>1. IsFiniteSet(T) /\ S \in SUBSET T /\ T \in SUBSET T /\ x \in T /\ T \ {x} = S
    BY FS_AddElement
<1>. HIDE DEF T
<1>2. PICK g : IsFold(g, f, T) /\ SumFunctionOnSet(f, T) = g[T]
    BY <1>1, SumIs
<1>3. PICK h : IsFold(h, f, S) /\ SumFunctionOnSet(f, S) = h[S]
    BY SumIs
<1>4. h[S] = g[S]
    BY <1>1, <1>2, <1>3, FoldsAgree
<1>5. \A y \in T : f[y] \in Nat
    BY DEF T
<1>6. g[S] \in Nat
    BY <1>1, <1>2, <1>5, FoldTakesAny
<1>7. g[T] = f[x] + g[S]
    BY <1>1, <1>2, <1>5, FoldTakesAny
<1>. QED
    BY <1>2, <1>3, <1>4, <1>6, <1>7 DEF T

-----------------------------------------------------------------------------
(* The calendar.                                                           *)

LEMMA DivBounds ==
    ASSUME NEW a \in Nat, NEW b \in Nat \ {0}
    PROVE  /\ a \div b \in Nat
           /\ b * (a \div b) <= a
           /\ a < b * (a \div b) + b
           /\ a % b = a - b * (a \div b)
BY SMT

\* The days, the moments of a day's boundaries, and the day that is now.
LEMMA Calendar ==
    /\ DayLen \in Nat \ {0} /\ LastDay \in Nat /\ MaxDist \in Nat /\ Tol \in Nat
    /\ DayStart \in Nat /\ DayEnd \in Nat /\ Days \subseteq Nat /\ Time \subseteq Nat
    /\ 0 < DayStart /\ DayStart < DayEnd /\ DayEnd < DayLen
<1>1. /\ DayLen \in Nat \ {0} /\ LastDay \in Nat /\ MaxDist \in Nat /\ Tol \in Nat
      /\ DayStart \in Nat /\ DayEnd \in Nat /\ Horizon \in Nat
      /\ 2 * Tol < DayStart /\ 2 * Tol < DayEnd - DayStart /\ 2 * Tol < DayLen - DayEnd
    BY ClockAssumption
<1>. QED
    BY <1>1 DEF Days, Time

LEMMA BoundaryOf ==
    ASSUME NEW d \in Days
    PROVE  /\ \A h \in Hours : <<d, h>> \in Boundaries
           /\ Moment(<<d, "0000">>) = d * DayLen
           /\ Moment(<<d, "0700">>) = d * DayLen + DayStart
           /\ Moment(<<d, "2300">>) = d * DayLen + DayEnd
           /\ d * DayLen \in Nat /\ (d + 1) * DayLen = d * DayLen + DayLen
<1>1. d \in Nat /\ DayLen \in Nat
    BY Calendar
<1>2. d * DayLen \in Nat /\ (d + 1) * DayLen = d * DayLen + DayLen
    BY <1>1
<1>3. d * DayLen + 0 = d * DayLen
    BY <1>2
<1>. QED
    BY <1>2, <1>3 DEF Boundaries, Moment, Offset

LEMMA DayNow ==
    ASSUME now \in Time
    PROVE  /\ DayOf(now) \in Days
           /\ DayOf(now) * DayLen <= now /\ now < (DayOf(now) + 1) * DayLen
           /\ now % DayLen = now - DayOf(now) * DayLen
<1>. DEFINE q == now \div DayLen  p == Horizon \div DayLen
<1>1. now \in Nat /\ Horizon \in Nat /\ now <= Horizon /\ p <= LastDay
    BY ClockAssumption, ViewAssumption DEF Time
<1>2. /\ q \in Nat /\ DayLen * q <= now /\ now < DayLen * q + DayLen
      /\ now % DayLen = now - DayLen * q
    BY <1>1, Calendar, DivBounds
<1>3. p \in Nat /\ Horizon < DayLen * p + DayLen
    BY <1>1, Calendar, DivBounds
<1>. HIDE DEF q, p
<1>4. DayLen * q = q * DayLen /\ (q + 1) * DayLen = q * DayLen + DayLen
    BY <1>2, Calendar
<1>5. q <= p
    <2>1. SUFFICES ASSUME p + 1 <= q PROVE FALSE
        BY <1>2, <1>3
    <2>2. (p + 1) * DayLen <= q * DayLen
        BY <1>2, <1>3, <2>1, Calendar, DaysScale
    <2>3. (p + 1) * DayLen = DayLen * p + DayLen
        BY <1>3, Calendar
    <2>. QED
        BY <1>1, <1>2, <1>3, <1>4, <2>2, <2>3, Calendar
<1>6. q \in Days
    BY <1>1, <1>2, <1>3, <1>5, Calendar DEF Days
<1>. QED
    BY <1>2, <1>4, <1>6 DEF DayOf, q

\* A boundary is within its day.
LEMMA InItsDay ==
    ASSUME NEW b \in Boundaries
    PROVE  /\ b = <<b[1], b[2]>> /\ b[1] \in Days /\ b[2] \in Hours /\ Moment(b) \in Nat
           /\ b[1] * DayLen <= Moment(b) /\ Moment(b) < (b[1] + 1) * DayLen
<1>1. b = <<b[1], b[2]>> /\ b[1] \in Days /\ b[2] \in Hours
    BY DEF Boundaries
<1>2. Offset(b[2]) \in Nat /\ Offset(b[2]) < DayLen
    BY <1>1, Offsets
<1>3. b[1] * DayLen \in Nat /\ (b[1] + 1) * DayLen = b[1] * DayLen + DayLen
    BY <1>1, BoundaryOf
<1>4. Moment(b) = b[1] * DayLen + Offset(b[2])
    BY DEF Moment
<1>. HIDE DEF Moment
<1>. QED
    BY <1>1, <1>2, <1>3, <1>4, Calendar

\* The boundaries of a day are before those of a later one.
LEMMA EarlierDay ==
    ASSUME NEW b \in Boundaries, NEW d \in Days
    PROVE  /\ b[1] < d => Moment(b) < d * DayLen
           /\ b[1] > d => (d + 1) * DayLen <= Moment(b)
<1>1. b[1] \in Nat /\ d \in Nat /\ DayLen \in Nat
    BY InItsDay, Calendar
<1>2. /\ b[1] * DayLen \in Nat /\ (b[1] + 1) * DayLen \in Nat
      /\ d * DayLen \in Nat /\ (d + 1) * DayLen \in Nat
    BY <1>1
<1>3. b[1] < d => (b[1] + 1) * DayLen <= d * DayLen
    BY <1>1, DaysScale
<1>4. b[1] > d => (d + 1) * DayLen <= b[1] * DayLen
    BY <1>1, DaysScale
<1>5. Moment(b) \in Nat /\ b[1] * DayLen <= Moment(b) /\ Moment(b) < (b[1] + 1) * DayLen
    BY InItsDay
<1>. QED
    BY <1>2, <1>3, <1>4, <1>5

\* There is no other boundary between two that follow each other.
LEMMA NextBoundary ==
    ASSUME NEW d \in Days, NEW e \in Boundaries
    PROVE  /\ Moment(e) > Moment(<<d, "0000">>) => Moment(e) >= Moment(<<d, "0700">>)
           /\ Moment(e) > Moment(<<d, "0700">>) => Moment(e) >= Moment(<<d, "2300">>)
           /\ Moment(e) > Moment(<<d, "2300">>) => Moment(e) >= (d + 1) * DayLen
<1>1. /\ Moment(<<d, "0000">>) = d * DayLen
      /\ Moment(<<d, "0700">>) = d * DayLen + DayStart
      /\ Moment(<<d, "2300">>) = d * DayLen + DayEnd
      /\ d * DayLen \in Nat /\ (d + 1) * DayLen = d * DayLen + DayLen
    BY BoundaryOf
<1>2. /\ DayStart \in Nat /\ DayEnd \in Nat /\ DayLen \in Nat
      /\ 0 < DayStart /\ DayStart < DayEnd /\ DayEnd < DayLen
    BY Calendar
<1>3. e[1] \in Nat /\ d \in Nat /\ Moment(e) \in Nat /\ e = <<e[1], e[2]>> /\ e[2] \in Hours
    BY InItsDay, Calendar
<1>. HIDE DEF Moment
<1>4. CASE e[1] < d
    <2>1. Moment(e) < d * DayLen
        BY <1>4, EarlierDay
    <2>. QED
        BY <1>1, <1>2, <1>3, <2>1
<1>5. CASE e[1] > d
    <2>1. (d + 1) * DayLen <= Moment(e)
        BY <1>5, EarlierDay
    <2>. QED
        BY <1>1, <1>2, <1>3, <2>1
<1>6. CASE e[1] = d
    <2>1. e = <<d, "0000">> \/ e = <<d, "0700">> \/ e = <<d, "2300">>
        BY <1>3, <1>6 DEF Hours
    <2>. QED
        BY <1>1, <1>2, <2>1
<1>. QED
    BY <1>3, <1>4, <1>5, <1>6

\* Two boundaries are far enough apart for their samples to be in order.
LEMMA MomentsApart ==
    ASSUME NEW b \in Boundaries, NEW c \in Boundaries, Moment(b) < Moment(c)
    PROVE  Moment(b) + 2 * MaxDist <= Moment(c)
<1>. DEFINE d == b[1]
<1>1. d \in Days /\ (b = <<d, "0000">> \/ b = <<d, "0700">> \/ b = <<d, "2300">>)
    BY InItsDay DEF Hours
<1>. HIDE DEF d
<1>2. /\ Moment(<<d, "0000">>) + 2 * MaxDist <= Moment(<<d, "0700">>)
      /\ Moment(<<d, "0700">>) + 2 * MaxDist <= Moment(<<d, "2300">>)
      /\ Moment(<<d, "2300">>) + 2 * MaxDist <= (d + 1) * DayLen
    <2>1. Moment(<<d + 1, "0000">>) = (d + 1) * DayLen
        <3>1. (d + 1) * DayLen \in Nat
            BY <1>1, BoundaryOf, Calendar
        <3>2. Moment(<<d + 1, "0000">>) = (d + 1) * DayLen + 0
            BY DEF Moment, Offset
        <3>. QED
            BY <3>1, <3>2
    <2>. QED
        BY <1>1, <2>1, Gaps
<1>3. /\ Moment(c) \in Nat /\ MaxDist \in Nat /\ \A h \in Hours : Moment(<<d, h>>) \in Nat
      /\ (d + 1) * DayLen \in Nat
    <2>1. \A h \in Hours : Moment(<<d, h>>) \in Nat
        BY <1>1, BoundaryOf, MomentType
    <2>2. d + 1 \in Nat /\ DayLen \in Nat
        BY <1>1, Calendar
    <2>3. (d + 1) * DayLen \in Nat
        BY <2>2
    <2>. QED
        BY <2>1, <2>3, InItsDay, Calendar
<1>4. "0000" \in Hours /\ "0700" \in Hours /\ "2300" \in Hours
    BY DEF Hours
<1>. QED
    BY <1>1, <1>2, <1>3, <1>4, NextBoundary

LEMMA BoundariesFinite == IsFiniteSet(Boundaries) /\ IsFiniteSet(Days)
<1>1. IsFiniteSet(Days)
    <2>1. 0 \in Int /\ LastDay \in Int
        BY Calendar
    <2>. QED
        BY <2>1, FS_Interval DEF Days
<1>2. IsFiniteSet(Hours)
    <2>1. IsFiniteSet({} \cup {"0000"})
        BY FS_EmptySet, FS_AddElement
    <2>2. IsFiniteSet(({} \cup {"0000"}) \cup {"0700"})
        BY <2>1, FS_AddElement
    <2>3. IsFiniteSet((({} \cup {"0000"}) \cup {"0700"}) \cup {"2300"})
        BY <2>2, FS_AddElement
    <2>4. Hours = (({} \cup {"0000"}) \cup {"0700"}) \cup {"2300"}
        BY DEF Hours
    <2>. QED
        BY <2>3, <2>4
<1>. QED
    BY <1>1, <1>2, FS_Product DEF Boundaries

-----------------------------------------------------------------------------
(* What the meter gained from one boundary to the next.                    *)

\* What an account from day f on is made of: a table that agrees with itself,
\* and a sample for every boundary.
Legible(f) ==
    /\ TypeOK /\ TableInv /\ Monotone /\ CompleteDayFinalized
    /\ f \in Days /\ f <= DayOf(now)
    /\ request.cur \in Time
    /\ Known(<<f, "0000">>)

LEMMA SinceDay ==
    ASSUME now \in Time, NEW f \in Days
    PROVE  /\ \A b \in Since(<<f, "0000">>) : b \in Boundaries /\ f <= b[1] /\ b[1] <= DayOf(now)
           /\ \A b \in Boundaries : f <= b[1] /\ Moment(b) <= now => b \in Since(<<f, "0000">>)
           /\ \A b \in Boundaries : b[1] < DayOf(now) => Moment(b) <= now
<1>. DEFINE D == DayOf(now)
<1>1. /\ D \in Days /\ D \in Nat /\ now \in Nat /\ D * DayLen \in Nat
      /\ (D + 1) * DayLen \in Nat /\ D * DayLen <= now /\ now < (D + 1) * DayLen
    <2>1. D \in Days
        BY DayNow
    <2>2. D \in Nat /\ DayLen \in Nat /\ now \in Nat
        BY <2>1, Calendar
    <2>. HIDE DEF D
    <2>3. D * DayLen \in Nat /\ (D + 1) * DayLen \in Nat
        BY <2>2
    <2>. QED
        BY <2>1, <2>2, <2>3, DayNow DEF D
<1>. HIDE DEF D
<1>2. /\ Moment(<<f, "0000">>) = f * DayLen /\ f * DayLen \in Nat /\ f \in Nat
      /\ <<f, "0000">> \in Boundaries
    BY BoundaryOf, Calendar DEF Hours
<1>3. ASSUME NEW b \in Since(<<f, "0000">>)
      PROVE  b \in Boundaries /\ f <= b[1] /\ b[1] <= D
    <2>1. b \in Boundaries /\ f * DayLen <= Moment(b) /\ Moment(b) <= now
        BY <1>2 DEF Since
    <2>2. b[1] \in Nat /\ Moment(b) \in Nat
        BY <2>1, InItsDay, Calendar
    <2>3. ~(b[1] < f)
        BY <1>2, <2>1, <2>2, EarlierDay
    <2>4. ~(b[1] > D)
        BY <1>1, <2>1, <2>2, EarlierDay
    <2>. QED
        BY <1>1, <1>2, <2>1, <2>2, <2>3, <2>4
<1>4. ASSUME NEW b \in Boundaries, f <= b[1], Moment(b) <= now
      PROVE  b \in Since(<<f, "0000">>)
    <2>1. b[1] \in Nat /\ Moment(b) \in Nat /\ b[1] * DayLen <= Moment(b) /\ DayLen \in Nat
        BY InItsDay, Calendar
    <2>2. f * DayLen <= b[1] * DayLen /\ b[1] * DayLen \in Nat
        BY <1>2, <1>4, <2>1, DaysScale
    <2>. QED
        BY <1>2, <1>4, <2>1, <2>2 DEF Since
<1>5. ASSUME NEW b \in Boundaries, b[1] < D PROVE Moment(b) <= now
    <2>1. Moment(b) < D * DayLen /\ Moment(b) \in Nat
        BY <1>1, <1>5, EarlierDay, InItsDay
    <2>. QED
        BY <1>1, <2>1
<1>. QED
    BY <1>3, <1>4, <1>5 DEF D

LEMMA Read ==
    ASSUME NEW f, Legible(f), NEW b \in Since(<<f, "0000">>)
    PROVE  SampleOf(b) \in Time /\ SampleOf(b) <= request.cur
<1>1. b \in Boundaries
    BY DEF Since
<1>2. b[1] \in Rows /\ b[2] \in Marks
    BY <1>1, BoundaryFields DEF Marks
<1>3. SampleOf(b) \in Samples
    BY <1>2 DEF Legible, TypeOK, SampleOf
<1>. QED
    BY <1>3 DEF Legible, Known, Samples

LEMMA ReadInOrder ==
    ASSUME NEW f, Legible(f), NEW b \in Since(<<f, "0000">>),
           NEW c \in Since(<<f, "0000">>), Moment(b) < Moment(c)
    PROVE  SampleOf(b) <= SampleOf(c)
<1>1. b \in Boundaries /\ c \in Boundaries
    BY DEF Since
<1>2. SampleOf(b) \in Time /\ SampleOf(c) \in Time /\ SampleOf(b) # None /\ SampleOf(c) # None
    BY Read, NoneIsNoTime
<1>3. Near(SampleOf(b), b) /\ Near(SampleOf(c), c)
    BY <1>1, <1>2 DEF Legible, TableInv, Placed, SampleOf
<1>. QED
    BY <1>1, <1>2, <1>3, MomentsApart, NearInOrder

\* The end of what begins at b, when c is the boundary after it.
LEMMA EndIs ==
    ASSUME NEW b \in Boundaries, NEW c \in Boundaries,
           Moment(b) < Moment(c), Moment(c) <= now,
           \A e \in Boundaries : Moment(e) > Moment(b) => Moment(e) >= Moment(c)
    PROVE  EndOf(b) = SampleOf(c)
<1>. DEFINE later == {e \in Since(b) : Moment(e) > Moment(b)}
            first(x) == x \in later /\ \A e \in later : Moment(x) <= Moment(e)
<1>0. \A e \in Boundaries : Moment(e) \in Nat
    BY MomentType
<1>1. first(c)
    BY <1>0 DEF Since
<1>2. \A x : first(x) => x = c
    <2>. SUFFICES ASSUME NEW x, first(x) PROVE x = c
        OBVIOUS
    <2>1. x \in Boundaries /\ Moment(x) <= Moment(c) /\ Moment(c) <= Moment(x)
        BY <1>1 DEF Since
    <2>. QED
        BY <1>0, <2>1, MomentsDiffer
<1>3. (CHOOSE x \in later : \A e \in later : Moment(x) <= Moment(e)) = c
    BY <1>1, <1>2
<1>4. later # {}
    BY <1>1
<1>. QED
    BY <1>3, <1>4 DEF EndOf

\* What begins at the last boundary ends with the snapshot.
LEMMA EndIsNow ==
    ASSUME NEW b, \A e \in Boundaries : Moment(e) > Moment(b) => ~(Moment(e) <= now)
    PROVE  EndOf(b) = request.cur
BY DEF EndOf, Since

\* There is an end, and no register falls before it.
LEMMA EndAfter ==
    ASSUME NEW f, Legible(f), NEW b \in Since(<<f, "0000">>)
    PROVE  EndOf(b) \in Time /\ SampleOf(b) <= EndOf(b)
<1>. DEFINE later == {e \in Since(b) : Moment(e) > Moment(b)}
<1>0. \A e \in Boundaries : Moment(e) \in Nat
    BY MomentType
<1>1. CASE later = {}
    BY <1>1, Read DEF EndOf, Legible
<1>2. CASE later # {}
    <2>. DEFINE moments == {Moment(e) : e \in later}
    <2>1. moments \in SUBSET Nat /\ moments # {}
        BY <1>0, <1>2 DEF Since
    <2>2. PICK n \in moments : \A k \in moments : n <= k
        BY <2>1, LeastExists
    <2>3. \E x \in later : \A e \in later : Moment(x) <= Moment(e)
        BY <2>2
    <2>. DEFINE c == CHOOSE x \in later : \A e \in later : Moment(x) <= Moment(e)
    <2>4. c \in later
        BY <2>3
    <2>5. EndOf(b) = SampleOf(c)
        BY <1>2 DEF EndOf
    <2>. HIDE DEF c
    <2>6. c \in Boundaries /\ Moment(c) > Moment(b) /\ Moment(c) <= now
        BY <2>4 DEF Since
    <2>7. b \in Boundaries /\ Moment(<<f, "0000">>) <= Moment(b)
        BY DEF Since
    <2>8. <<f, "0000">> \in Boundaries
        BY BoundaryOf DEF Legible, Hours
    <2>9. c \in Since(<<f, "0000">>)
        BY <1>0, <2>6, <2>7, <2>8 DEF Since
    <2>. QED
        BY <2>5, <2>6, <2>9, Read, ReadInOrder
<1>. QED
    BY <1>1, <1>2

\* What the two registers gained, by the boundary at which they began to.
Gains(m) == [b \in Boundaries |-> load[m][EndOf(b)] - load[m][SampleOf(b)]]

LEMMA Readings ==
    ASSUME NEW f, Legible(f), NEW m \in Registers
    PROVE  /\ \A t \in Time : load[m][t] \in Nat
           /\ \A s \in Time, t \in Time : s <= t => load[m][s] <= load[m][t]
<1>1. load[m] \in [Time -> Nat]
    BY DataAssumption DEF Legible, TypeOK
<1>2. \A s, t \in Time : s <= t => load[m][s] <= load[m][t]
    BY DEF Legible, Monotone, NeverFalling
<1>. QED
    BY <1>1, <1>2

LEMMA GainsType ==
    ASSUME NEW f, Legible(f), NEW m \in Registers, NEW b \in Since(<<f, "0000">>)
    PROVE  Gains(m)[b] \in Nat /\ Gains(m)[b] = load[m][EndOf(b)] - load[m][SampleOf(b)]
<1>1. b \in Boundaries
    BY DEF Since
<1>2. Gains(m)[b] = load[m][EndOf(b)] - load[m][SampleOf(b)]
    BY <1>1 DEF Gains
<1>3. EndOf(b) \in Time /\ SampleOf(b) \in Time /\ SampleOf(b) <= EndOf(b)
    BY Read, EndAfter
<1>4. /\ load[m][EndOf(b)] \in Nat /\ load[m][SampleOf(b)] \in Nat
      /\ load[m][SampleOf(b)] <= load[m][EndOf(b)]
    BY <1>3, Readings
<1>. QED
    BY <1>2, <1>4

-----------------------------------------------------------------------------
(* Days.                                                                   *)

\* A day that is over is finalized, and ends where the next one begins.
LEMMA DayOver ==
    ASSUME NEW f, Legible(f), NEW d \in Days, f <= d, d < DayOf(now)
    PROVE  /\ \A h \in Hours : <<d, h>> \in Since(<<f, "0000">>)
           /\ EndOf(<<d, "0000">>) = at[d]["0700"]
           /\ EndOf(<<d, "0700">>) = at[d]["2300"]
           /\ EndOf(<<d, "2300">>) = at[d]["next"]
           /\ tariff[d] = Amounts(at[d]) /\ tariff[d] # None
           /\ tariff[d] \in [Rates -> [Registers -> Nat]]
<1>0. now \in Time /\ f \in Days /\ d \in Rows
    BY ClockAssumption DEF Legible, TypeOK, Days, Rows
<1>1. /\ DayOf(now) \in Days /\ d \in Nat /\ d + 1 <= DayOf(now) /\ d + 1 \in Days
      /\ DayOf(now) \in Nat /\ f \in Nat /\ now \in Nat
    <2>1. DayOf(now) \in Days /\ d \in Nat /\ LastDay \in Nat /\ Days \subseteq Nat
        BY <1>0, DayNow, Calendar
    <2>. QED
        BY <1>0, <2>1, Calendar DEF Days
<1>2. ASSUME NEW h \in Hours
      PROVE  <<d, h>> \in Boundaries /\ Moment(<<d, h>>) <= now
             /\ <<d, h>> \in Since(<<f, "0000">>)
    <2>1. <<d, h>> \in Boundaries
        BY BoundaryOf
    <2>. QED
        BY <1>0, <2>1, SinceDay
<1>3. /\ <<d + 1, "0000">> \in Boundaries /\ Moment(<<d + 1, "0000">>) = (d + 1) * DayLen
      /\ Moment(<<d + 1, "0000">>) <= now
      /\ <<d + 1, "0000">> \in Since(<<f, "0000">>)
    <2>1. <<d + 1, "0000">> \in Boundaries /\ Moment(<<d + 1, "0000">>) = (d + 1) * DayLen
        BY <1>1, BoundaryOf DEF Hours
    <2>2. (d + 1) * DayLen <= DayOf(now) * DayLen
        BY <1>1, DaysScale, Calendar
    <2>3. DayOf(now) * DayLen <= now /\ DayOf(now) * DayLen \in Nat /\ (d + 1) * DayLen \in Nat
        BY <1>0, <1>1, DayNow, BoundaryOf, MomentType, <2>1
    <2>4. Moment(<<d + 1, "0000">>) <= now
        BY <1>1, <2>1, <2>2, <2>3
    <2>. QED
        BY <1>0, <1>1, <2>1, <2>4, SinceDay
<1>4. "0000" \in Hours /\ "0700" \in Hours /\ "2300" \in Hours
    BY DEF Hours
<1>5. /\ Moment(<<d, "0000">>) < Moment(<<d, "0700">>)
      /\ Moment(<<d, "0700">>) < Moment(<<d, "2300">>)
      /\ Moment(<<d, "2300">>) < (d + 1) * DayLen
    <2>1. /\ Moment(<<d, "0000">>) = d * DayLen
          /\ Moment(<<d, "0700">>) = d * DayLen + DayStart
          /\ Moment(<<d, "2300">>) = d * DayLen + DayEnd
          /\ d * DayLen \in Nat /\ (d + 1) * DayLen = d * DayLen + DayLen
        BY BoundaryOf
    <2>. HIDE DEF Moment
    <2>. QED
        BY <2>1, Calendar
<1>6. /\ EndOf(<<d, "0000">>) = SampleOf(<<d, "0700">>)
      /\ EndOf(<<d, "0700">>) = SampleOf(<<d, "2300">>)
      /\ EndOf(<<d, "2300">>) = SampleOf(<<d + 1, "0000">>)
    <2>1. EndOf(<<d, "0000">>) = SampleOf(<<d, "0700">>)
        BY <1>2, <1>4, <1>5, EndIs, NextBoundary
    <2>2. EndOf(<<d, "0700">>) = SampleOf(<<d, "2300">>)
        BY <1>2, <1>4, <1>5, EndIs, NextBoundary
    <2>3. EndOf(<<d, "2300">>) = SampleOf(<<d + 1, "0000">>)
        BY <1>2, <1>3, <1>4, <1>5, EndIs, NextBoundary
    <2>. QED
        BY <2>1, <2>2, <2>3
<1>7. at[d]["next"] = at[d + 1]["0000"]
    BY <1>0, <1>1 DEF Legible, TableInv, NextColumn
<1>8. Complete(at[d])
    <2>1. \A h \in Hours : SampleOf(<<d, h>>) # None
        BY <1>2, Read, NoneIsNoTime
    <2>2. SampleOf(<<d + 1, "0000">>) # None
        BY <1>3, Read, NoneIsNoTime
    <2>. QED
        BY <1>7, <2>1, <2>2 DEF Complete, Marks, SampleOf
<1>9. tariff[d] = Amounts(at[d])
    BY <1>8 DEF Legible, CompleteDayFinalized
<1>10. Amounts(at[d]) \in [Rates -> [Registers -> Nat]]
    <2>1. load \in Loads /\ Monotone /\ at[d] \in [Marks -> Samples]
        BY <1>0 DEF Legible, TypeOK
    <2>2. InOrder(at[d])
        BY TableInOrder DEF Legible, SamplesInOrder
    <2>3. Billable(at[d])
        BY <1>8, <2>1, <2>2, OrderedIsBillable
    <2>. QED
        BY <2>1, <2>3, BillableAmounts
<1>. QED
    BY <1>2, <1>6, <1>7, <1>9, <1>10, ViewAssumption DEF SampleOf

\* Its amounts are what the registers gained at its boundaries.
LEMMA DayIsBilled ==
    ASSUME NEW f, Legible(f), NEW d \in Days, f <= d, d < DayOf(now), NEW m \in Registers
    PROVE  /\ tariff[d]["day"][m] = Gains(m)[<<d, "0700">>]
           /\ tariff[d]["night"][m] = Gains(m)[<<d, "0000">>] + Gains(m)[<<d, "2300">>]
<1>1. \A h \in Hours : <<d, h>> \in Since(<<f, "0000">>) /\ SampleOf(<<d, h>>) = at[d][h]
    BY DayOver DEF SampleOf
<1>2. "0000" \in Hours /\ "0700" \in Hours /\ "2300" \in Hours
    BY DEF Hours
<1>3. /\ Gains(m)[<<d, "0000">>] = load[m][at[d]["0700"]] - load[m][at[d]["0000"]]
      /\ Gains(m)[<<d, "0700">>] = load[m][at[d]["2300"]] - load[m][at[d]["0700"]]
      /\ Gains(m)[<<d, "2300">>] = load[m][at[d]["next"]] - load[m][at[d]["2300"]]
    BY <1>1, <1>2, DayOver, GainsType
<1>4. "day" \in Rates /\ "night" \in Rates /\ tariff[d] = Amounts(at[d])
    BY DayOver DEF Rates
<1>5. /\ Amounts(at[d])["day"][m] = load[m][at[d]["2300"]] - load[m][at[d]["0700"]]
      /\ Amounts(at[d])["night"][m] = (load[m][at[d]["0700"]] - load[m][at[d]["0000"]])
                                      + (load[m][at[d]["next"]] - load[m][at[d]["2300"]])
    BY <1>4 DEF Amounts
<1>. QED
    BY <1>3, <1>4, <1>5

\* The amounts of one register at one rate, by day.
Bills(r, m) == [d \in Days |-> tariff[d][r][m]]

\* What begins before day e, from day f on.
Before(r, f, e) == {b \in BeginningOf(r, <<f, "0000">>) : b[1] < e}

LEMMA BeforeFinite ==
    ASSUME NEW r, NEW f, NEW e
    PROVE  /\ IsFiniteSet(Before(r, f, e)) /\ IsFiniteSet(BeginningOf(r, <<f, "0000">>))
           /\ IsFiniteSet(FinalizedDays(f, e))
BY BoundariesFinite, FS_Subset DEF Before, BeginningOf, Since, FinalizedDays

\* One day more is its boundaries more.
LEMMA BeforeNext ==
    ASSUME NEW f, now \in Time, f \in Days, NEW d \in Days,
           \A h \in Hours : <<d, h>> \in Since(<<f, "0000">>)
    PROVE  /\ Before("day", f, d + 1) = Before("day", f, d) \cup {<<d, "0700">>}
           /\ Before("night", f, d + 1)
                = (Before("night", f, d) \cup {<<d, "0000">>}) \cup {<<d, "2300">>}
           /\ <<d, "0700">> \notin Before("day", f, d)
           /\ <<d, "0000">> \notin Before("night", f, d)
           /\ <<d, "2300">> \notin Before("night", f, d) \cup {<<d, "0000">>}
<1>1. d \in Nat
    BY Calendar
<1>2. \A b \in Since(<<f, "0000">>) : b = <<b[1], b[2]>> /\ b[1] \in Nat /\ b[2] \in Hours
    BY SinceDay, InItsDay, Calendar
<1>3. \A b \in Since(<<f, "0000">>) :
         b[1] < d + 1 <=> b[1] < d \/ b = <<d, "0000">> \/ b = <<d, "0700">> \/ b = <<d, "2300">>
    BY <1>1, <1>2 DEF Hours
<1>4. "0000" \in Hours /\ "0700" \in Hours /\ "2300" \in Hours
    BY DEF Hours
<1>. QED
    BY <1>1, <1>3, <1>4 DEF Before, BeginningOf

\* The sums up to a day that is over grow alike.
LEMMA OneMoreDay ==
    ASSUME NEW f, Legible(f), NEW d \in Days, f <= d, d < DayOf(now),
           NEW r \in Rates, NEW m \in Registers,
           SumFunctionOnSet(Gains(m), Before(r, f, d))
             = SumFunctionOnSet(Bills(r, m), FinalizedDays(f, d - 1))
    PROVE  SumFunctionOnSet(Gains(m), Before(r, f, d + 1))
             = SumFunctionOnSet(Bills(r, m), FinalizedDays(f, d))
<1>0. /\ now \in Time /\ f \in Days /\ f \in Nat /\ d \in Nat
      /\ DayOf(now) \in Nat
    BY Calendar, DayNow DEF Legible, TypeOK
<1>1. /\ FinalizedDays(f, d) = FinalizedDays(f, d - 1) \cup {d}
      /\ d \notin FinalizedDays(f, d - 1)
    <2>1. \A e \in Days : e \in Nat /\ (e \in f..d <=> e \in f..(d - 1) \/ e = d)
        BY <1>0, Calendar
    <2>2. d \notin f..(d - 1) /\ d \in f..d
        BY <1>0
    <2>3. tariff[d] # None
        BY DayOver
    <2>. QED
        BY <2>1, <2>2, <2>3 DEF FinalizedDays
<1>2. SumFunctionOnSet(Bills(r, m), FinalizedDays(f, d))
        = Bills(r, m)[d] + SumFunctionOnSet(Bills(r, m), FinalizedDays(f, d - 1))
    <2>1. ASSUME NEW e \in FinalizedDays(f, d) PROVE Bills(r, m)[e] \in Nat
        <3>1. e \in Days /\ f <= e /\ e < DayOf(now)
            BY <1>0, Calendar DEF FinalizedDays
        <3>2. tariff[e] \in [Rates -> [Registers -> Nat]]
            BY <3>1, DayOver
        <3>. QED
            BY <3>1, <3>2 DEF Bills
    <2>. QED
        BY <1>1, <2>1, BeforeFinite, SumAdd
<1>3. \A h \in Hours : <<d, h>> \in Since(<<f, "0000">>)
    BY DayOver
<1>4. /\ Bills("day", m)[d] = Gains(m)[<<d, "0700">>]
      /\ Bills("night", m)[d] = Gains(m)[<<d, "0000">>] + Gains(m)[<<d, "2300">>]
    BY DayIsBilled DEF Bills
<1>5. \A b \in Since(<<f, "0000">>) : Gains(m)[b] \in Nat
    BY GainsType
<1>6. \A e : Before(r, f, e) \subseteq Since(<<f, "0000">>)
    BY DEF Before, BeginningOf
<1>7. CASE r = "day"
    <2>1. SumFunctionOnSet(Gains(m), Before(r, f, d + 1))
            = Gains(m)[<<d, "0700">>] + SumFunctionOnSet(Gains(m), Before(r, f, d))
        <3>1. /\ Before(r, f, d + 1) = Before(r, f, d) \cup {<<d, "0700">>}
              /\ <<d, "0700">> \notin Before(r, f, d)
            BY <1>0, <1>3, <1>7, BeforeNext
        <3>2. \A b \in Before(r, f, d) \cup {<<d, "0700">>} : Gains(m)[b] \in Nat
            BY <1>5, <1>6, <3>1
        <3>. QED
            BY <3>1, <3>2, BeforeFinite, SumAdd
    <2>. QED
        BY <1>2, <1>4, <1>7, <2>1
<1>8. CASE r = "night"
    <2>. DEFINE S == Before(r, f, d)  T == S \cup {<<d, "0000">>}
    <2>1. /\ Before(r, f, d + 1) = T \cup {<<d, "2300">>}
          /\ <<d, "0000">> \notin S /\ <<d, "2300">> \notin T
        BY <1>0, <1>3, <1>8, BeforeNext
    <2>2. IsFiniteSet(S) /\ IsFiniteSet(T)
        BY BeforeFinite, FS_AddElement
    <2>3. \A b \in T \cup {<<d, "2300">>} : Gains(m)[b] \in Nat
        BY <1>5, <1>6, <2>1
    <2>. HIDE DEF T
    <2>4. SumFunctionOnSet(Gains(m), T)
            = Gains(m)[<<d, "0000">>] + SumFunctionOnSet(Gains(m), S)
          /\ SumFunctionOnSet(Gains(m), S) \in Nat
        BY <2>1, <2>2, <2>3, SumAdd DEF T
    <2>5. SumFunctionOnSet(Gains(m), T \cup {<<d, "2300">>})
            = Gains(m)[<<d, "2300">>] + SumFunctionOnSet(Gains(m), T)
        BY <2>1, <2>2, <2>3, SumAdd
    <2>6. Gains(m)[<<d, "0000">>] \in Nat /\ Gains(m)[<<d, "2300">>] \in Nat
        BY <1>3, <1>5 DEF Hours
    <2>7. SumFunctionOnSet(Gains(m), Before(r, f, d + 1))
            = Gains(m)[<<d, "2300">>]
              + (Gains(m)[<<d, "0000">>] + SumFunctionOnSet(Gains(m), S))
        BY <2>1, <2>4, <2>5
    <2>8. SumFunctionOnSet(Bills(r, m), FinalizedDays(f, d))
            = (Gains(m)[<<d, "0000">>] + Gains(m)[<<d, "2300">>])
              + SumFunctionOnSet(Gains(m), S)
        BY <1>2, <1>4, <1>8
    <2>. HIDE DEF S
    <2>. QED
        BY <2>4, <2>6, <2>7, <2>8
<1>. QED
    BY <1>7, <1>8 DEF Rates

\* Up to any day that is over, the finalized days are what began in them.
LEMMA DaysAddUp ==
    ASSUME NEW f, Legible(f), NEW r \in Rates, NEW m \in Registers
    PROVE  SumFunctionOnSet(Gains(m), Before(r, f, DayOf(now)))
             = SumFunctionOnSet(Bills(r, m), FinalizedDays(f, DayOf(now) - 1))
<1>. DEFINE Same(e) == SumFunctionOnSet(Gains(m), Before(r, f, e))
                         = SumFunctionOnSet(Bills(r, m), FinalizedDays(f, e - 1))
            Bad == {e \in Nat : f <= e /\ e <= DayOf(now) /\ ~Same(e)}
<1>0. /\ now \in Time /\ f \in Days /\ f \in Nat /\ f <= DayOf(now)
      /\ DayOf(now) \in Nat /\ DayOf(now) \in Days
    BY Calendar, DayNow DEF Legible, TypeOK
<1>1. Same(f)
    <2>1. Before(r, f, f) = {}
        <3>1. \A b \in Since(<<f, "0000">>) : f <= b[1] /\ b[1] \in Nat
            BY <1>0, SinceDay, InItsDay, Calendar
        <3>. QED
            BY <1>0, <3>1 DEF Before, BeginningOf
    <2>2. FinalizedDays(f, f - 1) = {}
        <3>1. ASSUME NEW d \in f..(f - 1) PROVE FALSE
            BY <1>0
        <3>. QED
            BY <3>1 DEF FinalizedDays
    <2>. QED
        BY <2>1, <2>2, SumEmpty
<1>2. ASSUME NEW e \in Nat, f < e, e <= DayOf(now), Same(e - 1) PROVE Same(e)
    <2>1. e - 1 \in Days /\ f <= e - 1 /\ e - 1 < DayOf(now) /\ (e - 1) + 1 = e
        BY <1>0, <1>2, Calendar DEF Days
    <2>. QED
        BY <1>2, <2>1, OneMoreDay
<1>. HIDE DEF Same
<1>3. Bad = {}
    <2>1. SUFFICES ASSUME Bad # {} PROVE FALSE
        OBVIOUS
    <2>2. PICK e \in Bad : \A y \in Bad : e <= y
        BY <2>1, LeastExists
    <2>3. e # f /\ f < e /\ e - 1 \in Nat /\ e - 1 \notin Bad
        BY <1>0, <1>1, <2>2
    <2>. QED
        BY <1>0, <1>2, <2>2, <2>3
<1>4. Same(DayOf(now))
    BY <1>0, <1>3
<1>. QED
    BY <1>4 DEF Same

-----------------------------------------------------------------------------
(* The living day.                                                         *)

\* The zone the clock is in is that of the last boundary.
LEMMA Zone ==
    ASSUME now \in Time, NEW D, D = DayOf(now)
    PROVE  /\ D \in Days
           /\ Moment(<<D, "0000">>) <= now /\ now < (D + 1) * DayLen
           /\ HourIn(now) = IF now < Moment(<<D, "0700">>) THEN "0000"
                            ELSE IF now < Moment(<<D, "2300">>) THEN "0700" ELSE "2300"
           /\ Moment(<<D, "0000">>) < Moment(<<D, "0700">>)
           /\ Moment(<<D, "0700">>) < Moment(<<D, "2300">>)
           /\ \A h \in Hours : Moment(<<D, h>>) \in Nat /\ <<D, h>> \in Boundaries
           /\ now \in Nat
<1>1. /\ D \in Days /\ D * DayLen <= now /\ now < (D + 1) * DayLen
      /\ now % DayLen = now - D * DayLen
    BY DayNow
<1>2. /\ Moment(<<D, "0000">>) = D * DayLen
      /\ Moment(<<D, "0700">>) = D * DayLen + DayStart
      /\ Moment(<<D, "2300">>) = D * DayLen + DayEnd
      /\ D * DayLen \in Nat
      /\ \A h \in Hours : <<D, h>> \in Boundaries
    BY <1>1, BoundaryOf
<1>3. now \in Nat /\ DayStart \in Nat /\ DayEnd \in Nat /\ 0 < DayStart /\ DayStart < DayEnd
    BY Calendar
<1>4. \A h \in Hours : Moment(<<D, h>>) \in Nat
    BY <1>2, MomentType
<1>. HIDE DEF Moment
<1>5. /\ now - D * DayLen < DayStart <=> now < Moment(<<D, "0700">>)
      /\ now - D * DayLen < DayEnd <=> now < Moment(<<D, "2300">>)
    BY <1>2, <1>3
<1>6. HourIn(now) = IF now < Moment(<<D, "0700">>) THEN "0000"
                    ELSE IF now < Moment(<<D, "2300">>) THEN "0700" ELSE "2300"
    BY <1>1, <1>5 DEF HourIn
<1>7. /\ Moment(<<D, "0000">>) < Moment(<<D, "0700">>)
      /\ Moment(<<D, "0700">>) < Moment(<<D, "2300">>)
    BY <1>2, <1>3
<1>. QED
    BY <1>1, <1>2, <1>3, <1>4, <1>6, <1>7

\* What began before today and what began today.
LEMMA BeginToday ==
    ASSUME now \in Time, NEW f \in Days, f <= DayOf(now), NEW D, D = DayOf(now)
    PROVE  /\ \A h \in Hours : <<D, h>> \in Since(<<f, "0000">>) <=> Moment(<<D, h>>) <= now
           /\ \A r : BeginningOf(r, <<f, "0000">>)
                = Before(r, f, D) \cup {b \in Since(<<f, "0000">>) :
                      b[1] = D /\ (b[2] = "0700") = (r = "day")}
           /\ \A b \in Since(<<f, "0000">>) : b[1] = D => b = <<D, b[2]>> /\ b[2] \in Hours
           /\ \A r, h : <<D, h>> \notin Before(r, f, D)
<1>1. D \in Days /\ D \in Nat /\ \A h \in Hours : <<D, h>> \in Boundaries
    BY Zone, Calendar
<1>2. \A b \in Since(<<f, "0000">>) :
         b \in Boundaries /\ b[1] \in Nat /\ b[1] <= D /\ b = <<b[1], b[2]>> /\ b[2] \in Hours
    BY SinceDay, InItsDay, Calendar
<1>3. ASSUME NEW h \in Hours
      PROVE  <<D, h>> \in Since(<<f, "0000">>) <=> Moment(<<D, h>>) <= now
    <2>1. <<D, h>> \in Boundaries /\ <<D, h>>[1] = D
        BY <1>1
    <2>2. Moment(<<D, h>>) <= now => <<D, h>> \in Since(<<f, "0000">>)
        BY <2>1, SinceDay
    <2>3. <<D, h>> \in Since(<<f, "0000">>) => Moment(<<D, h>>) <= now
        BY DEF Since
    <2>. QED
        BY <2>2, <2>3
<1>4. \A b \in Since(<<f, "0000">>) : b[1] < D \/ b[1] = D
    BY <1>1, <1>2
<1>5. \A r : BeginningOf(r, <<f, "0000">>)
                = Before(r, f, D) \cup {b \in Since(<<f, "0000">>) :
                      b[1] = D /\ (b[2] = "0700") = (r = "day")}
    BY <1>4 DEF BeginningOf, Before
<1>6. \A r, h : <<D, h>> \notin Before(r, f, D)
    BY <1>1 DEF Before
<1>. QED
    BY <1>2, <1>3, <1>5, <1>6

\* The day so far is what the registers gained since its boundaries.
TodaysGain(r, m, D) ==
    CASE HourIn(now) = "0000" -> IF r = "night" THEN Gains(m)[<<D, "0000">>] ELSE 0
      [] HourIn(now) = "0700" -> IF r = "night" THEN Gains(m)[<<D, "0000">>]
                                                ELSE Gains(m)[<<D, "0700">>]
      [] HourIn(now) = "2300" ->
            IF r = "night" THEN Gains(m)[<<D, "0000">>] + Gains(m)[<<D, "2300">>]
                           ELSE Gains(m)[<<D, "0700">>]

LEMMA TodayIsGained ==
    ASSUME NEW f, Legible(f), NEW D, D = DayOf(now), NEW r \in Rates, NEW m \in Registers
    PROVE  /\ Today(now, at[D], request.cur)[r][m] = TodaysGain(r, m, D)
           /\ TodaysGain(r, m, D) \in Nat
<1>. DEFINE mid == <<D, "0000">>  day == <<D, "0700">>  eve == <<D, "2300">>
<1>0. now \in Time /\ f \in Days /\ f <= D /\ request.cur \in Time /\ request.cur # None
    BY NoneIsNoTime DEF Legible, TypeOK
<1>1. /\ D \in Days /\ now \in Nat /\ Moment(mid) <= now /\ now < (D + 1) * DayLen
      /\ HourIn(now) = IF now < Moment(day) THEN "0000"
                       ELSE IF now < Moment(eve) THEN "0700" ELSE "2300"
      /\ Moment(mid) < Moment(day) /\ Moment(day) < Moment(eve)
      /\ mid \in Boundaries /\ day \in Boundaries /\ eve \in Boundaries
      /\ Moment(mid) \in Nat /\ Moment(day) \in Nat /\ Moment(eve) \in Nat
    BY <1>0, Zone DEF Hours
<1>2. \A e \in Boundaries :
         /\ Moment(e) \in Nat
         /\ Moment(e) > Moment(mid) => Moment(e) >= Moment(day)
         /\ Moment(e) > Moment(day) => Moment(e) >= Moment(eve)
         /\ Moment(e) > Moment(eve) => Moment(e) >= (D + 1) * DayLen
    BY <1>1, NextBoundary, MomentType
<1>3. /\ SampleOf(mid) = at[D]["0000"] /\ SampleOf(day) = at[D]["0700"]
      /\ SampleOf(eve) = at[D]["2300"]
    BY DEF SampleOf
<1>4. /\ mid \in Since(<<f, "0000">>)
      /\ day \in Since(<<f, "0000">>) <=> Moment(day) <= now
      /\ eve \in Since(<<f, "0000">>) <=> Moment(eve) <= now
    BY <1>0, <1>1, BeginToday DEF Hours
<1>5. \A b \in Since(<<f, "0000">>) :
         /\ SampleOf(b) \in Time /\ SampleOf(b) # None /\ Gains(m)[b] \in Nat
         /\ Gains(m)[b] = load[m][EndOf(b)] - load[m][SampleOf(b)]
    BY Read, GainsType, NoneIsNoTime
<1>6. (D + 1) * DayLen \in Nat
    <2>1. D + 1 \in Nat /\ DayLen \in Nat
        BY <1>1, Calendar
    <2>. QED
        BY <2>1
<1>. HIDE DEF mid, day, eve
<1>7. CASE HourIn(now) = "0000"
    <2>1. now < Moment(day)
        BY <1>1, <1>7
    <2>2. EndOf(mid) = request.cur
        BY <1>1, <1>2, <2>1, EndIsNow
    <2>3. Gains(m)[mid] = Gain(m, at[D]["0000"], request.cur) /\ Gains(m)[mid] \in Nat
        BY <1>0, <1>3, <1>4, <1>5, <2>2 DEF Gain
    <2>4. Today(now, at[D], request.cur)[r][m]
            = IF r = "night" THEN Gain(m, at[D]["0000"], request.cur) ELSE 0
        BY <1>7, <2>3 DEF Today, NotNegative
    <2>. QED
        BY <1>7, <2>3, <2>4 DEF TodaysGain, mid
<1>8. CASE HourIn(now) = "0700"
    <2>1. Moment(day) <= now /\ now < Moment(eve)
        BY <1>1, <1>8
    <2>2. EndOf(day) = request.cur
        BY <1>1, <1>2, <2>1, EndIsNow
    <2>3. EndOf(mid) = SampleOf(day)
        BY <1>1, <1>2, <2>1, EndIs
    <2>4. /\ Gains(m)[mid] = Gain(m, at[D]["0000"], at[D]["0700"]) /\ Gains(m)[mid] \in Nat
          /\ Gains(m)[day] = Gain(m, at[D]["0700"], request.cur) /\ Gains(m)[day] \in Nat
          /\ at[D]["0700"] # None
        BY <1>0, <1>3, <1>4, <1>5, <2>1, <2>2, <2>3 DEF Gain
    <2>5. Today(now, at[D], request.cur)[r][m]
            = IF r = "night" THEN Gain(m, at[D]["0000"], at[D]["0700"])
              ELSE Gain(m, at[D]["0700"], request.cur)
        BY <1>8, <2>4 DEF Today, NotNegative
    <2>. QED
        BY <1>8, <2>4, <2>5 DEF TodaysGain, mid, day
<1>9. CASE HourIn(now) = "2300"
    <2>1. Moment(day) <= now /\ Moment(eve) <= now
        BY <1>1, <1>9
    <2>2. EndOf(eve) = request.cur
        BY <1>1, <1>2, <1>6, <2>1, EndIsNow
    <2>3. EndOf(mid) = SampleOf(day) /\ EndOf(day) = SampleOf(eve)
        BY <1>1, <1>2, <2>1, EndIs
    <2>4. /\ Gains(m)[mid] = Gain(m, at[D]["0000"], at[D]["0700"]) /\ Gains(m)[mid] \in Nat
          /\ Gains(m)[day] = Gain(m, at[D]["0700"], at[D]["2300"]) /\ Gains(m)[day] \in Nat
          /\ Gains(m)[eve] = Gain(m, at[D]["2300"], request.cur) /\ Gains(m)[eve] \in Nat
        BY <1>0, <1>3, <1>4, <1>5, <2>1, <2>2, <2>3 DEF Gain
    <2>5. Today(now, at[D], request.cur)[r][m]
            = IF r = "night" THEN Gain(m, at[D]["0000"], at[D]["0700"])
                                  + Gain(m, at[D]["2300"], request.cur)
              ELSE Gain(m, at[D]["0700"], at[D]["2300"])
        BY <1>9, <2>4 DEF Today, NotNegative
    <2>. QED
        BY <1>9, <2>4, <2>5 DEF TodaysGain, mid, day, eve
<1>. QED
    BY <1>1, <1>7, <1>8, <1>9

\* What began today is added to what began before.
LEMMA SumToday ==
    ASSUME NEW f, Legible(f), NEW D, D = DayOf(now), NEW r \in Rates, NEW m \in Registers
    PROVE  /\ SumFunctionOnSet(Gains(m), BeginningOf(r, <<f, "0000">>))
                = SumFunctionOnSet(Gains(m), Before(r, f, D)) + TodaysGain(r, m, D)
           /\ SumFunctionOnSet(Gains(m), Before(r, f, D)) \in Nat
<1>. DEFINE mid == <<D, "0000">>  day == <<D, "0700">>  eve == <<D, "2300">>
            S == Before(r, f, D)
            All == BeginningOf(r, <<f, "0000">>)
<1>0. now \in Time /\ f \in Days /\ f <= D
    BY DEF Legible, TypeOK
<1>1. /\ D \in Days /\ now \in Nat /\ Moment(mid) <= now
      /\ HourIn(now) = IF now < Moment(day) THEN "0000"
                       ELSE IF now < Moment(eve) THEN "0700" ELSE "2300"
      /\ Moment(mid) < Moment(day) /\ Moment(day) < Moment(eve)
      /\ Moment(mid) \in Nat /\ Moment(day) \in Nat /\ Moment(eve) \in Nat
    BY <1>0, Zone DEF Hours
<1>2. /\ mid \in Since(<<f, "0000">>)
      /\ day \in Since(<<f, "0000">>) <=> Moment(day) <= now
      /\ eve \in Since(<<f, "0000">>) <=> Moment(eve) <= now
    BY <1>0, <1>1, BeginToday DEF Hours
<1>3. /\ All = S \cup {b \in Since(<<f, "0000">>) :
                          b[1] = D /\ (b[2] = "0700") = (r = "day")}
      /\ \A b \in Since(<<f, "0000">>) : b[1] = D => b = mid \/ b = day \/ b = eve
      /\ mid \notin S /\ day \notin S /\ eve \notin S
    BY <1>0, BeginToday DEF Hours
<1>4. /\ mid[1] = D /\ day[1] = D /\ eve[1] = D
      /\ mid[2] = "0000" /\ day[2] = "0700" /\ eve[2] = "2300"
      /\ mid # day /\ mid # eve /\ day # eve
    OBVIOUS
<1>5. IsFiniteSet(S) /\ S \subseteq Since(<<f, "0000">>)
    <2>1. IsFiniteSet(S)
        BY BeforeFinite
    <2>2. S \subseteq Since(<<f, "0000">>)
        BY DEF Before, BeginningOf
    <2>. QED
        BY <2>1, <2>2
<1>6. \A b \in Since(<<f, "0000">>) : Gains(m)[b] \in Nat
    BY GainsType
<1>. HIDE DEF mid, day, eve, S, All
<1>7. ASSUME NEW b \in Since(<<f, "0000">>), b \notin S
      PROVE  /\ SumFunctionOnSet(Gains(m), S) \in Nat
             /\ SumFunctionOnSet(Gains(m), S \cup {b})
                  = Gains(m)[b] + SumFunctionOnSet(Gains(m), S)
    BY <1>5, <1>6, <1>7, SumAdd
<1>8. SumFunctionOnSet(Gains(m), S) \in Nat
    BY <1>2, <1>3, <1>7
<1>9. CASE HourIn(now) = "0000"
    <2>1. day \notin Since(<<f, "0000">>) /\ eve \notin Since(<<f, "0000">>)
        BY <1>1, <1>2, <1>9
    <2>2. CASE r = "night"
        <3>1. All = S \cup {mid}
            BY <1>2, <1>3, <1>4, <2>1, <2>2
        <3>2. TodaysGain(r, m, D) = Gains(m)[mid]
            BY <1>9, <2>2 DEF TodaysGain, mid
        <3>. QED
            BY <1>2, <1>3, <1>6, <1>7, <1>8, <3>1, <3>2 DEF S, All
    <2>3. CASE r = "day"
        <3>1. All = S
            BY <1>2, <1>3, <1>4, <2>1, <2>3
        <3>2. TodaysGain(r, m, D) = 0
            BY <1>9, <2>3 DEF TodaysGain
        <3>. QED
            BY <1>8, <3>1, <3>2 DEF S, All
    <2>. QED
        BY <2>2, <2>3 DEF Rates
<1>10. CASE HourIn(now) # "0000" /\ r = "day"
    <2>1. day \in Since(<<f, "0000">>)
        BY <1>1, <1>2, <1>10
    <2>2. All = S \cup {day}
        BY <1>2, <1>3, <1>4, <1>10, <2>1
    <2>3. TodaysGain(r, m, D) = Gains(m)[day]
        BY <1>1, <1>10 DEF TodaysGain, day
    <2>. QED
        BY <1>3, <1>6, <1>7, <1>8, <2>1, <2>2, <2>3 DEF S, All
<1>11. CASE HourIn(now) = "0700" /\ r = "night"
    <2>1. eve \notin Since(<<f, "0000">>)
        BY <1>1, <1>2, <1>11
    <2>2. All = S \cup {mid}
        BY <1>2, <1>3, <1>4, <1>11, <2>1
    <2>3. TodaysGain(r, m, D) = Gains(m)[mid]
        BY <1>11 DEF TodaysGain, mid
    <2>. QED
        BY <1>2, <1>3, <1>6, <1>7, <1>8, <2>2, <2>3 DEF S, All
<1>12. CASE HourIn(now) = "2300" /\ r = "night"
    <2>. DEFINE T == S \cup {mid}
    <2>1. eve \in Since(<<f, "0000">>)
        BY <1>1, <1>2, <1>12
    <2>2. All = T \cup {eve}
        BY <1>2, <1>3, <1>4, <1>12, <2>1
    <2>3. TodaysGain(r, m, D) = Gains(m)[mid] + Gains(m)[eve]
        BY <1>12 DEF TodaysGain, mid, eve
    <2>4. SumFunctionOnSet(Gains(m), T) = Gains(m)[mid] + SumFunctionOnSet(Gains(m), S)
        BY <1>2, <1>3, <1>7
    <2>5. IsFiniteSet(T) /\ eve \notin T /\ \A b \in T \cup {eve} : Gains(m)[b] \in Nat
        BY <1>2, <1>3, <1>4, <1>5, <1>6, <2>1, FS_AddElement
    <2>. HIDE DEF T
    <2>6. SumFunctionOnSet(Gains(m), T \cup {eve})
            = Gains(m)[eve] + SumFunctionOnSet(Gains(m), T)
        BY <2>5, SumAdd
    <2>7. Gains(m)[mid] \in Nat /\ Gains(m)[eve] \in Nat
        BY <1>2, <1>6, <2>1
    <2>8. SumFunctionOnSet(Gains(m), All)
            = SumFunctionOnSet(Gains(m), S) + (Gains(m)[mid] + Gains(m)[eve])
        BY <1>8, <2>2, <2>4, <2>6, <2>7
    <2>. QED
        BY <1>8, <2>3, <2>8 DEF S, All
<1>. QED
    BY <1>1, <1>9, <1>10, <1>11, <1>12 DEF Rates

-----------------------------------------------------------------------------
(* What a request and the caches hold.                                     *)

\* What the page reads of a table that stands still: the boundaries of the day
\* and the finalized days.
PageRead(row, month) ==
    /\ row = at[DayOf(now)]
    /\ month = SumOfDays(0, LastDay)

\* The day of T0 up to T0.
PartialDay0 == PartialUpTo(Moment(T0), at[T0[1]])

\* The clock and the change it was last seen to make.
Clocks ==
    /\ changed \in Time /\ changed <= now
    /\ cache # None => cache.time \in Time /\ cache.time <= now
    /\ static # None => static.time \in Time /\ static.time <= now

\* What was cached after the last change is what the table says now.
CacheTrue == cache # None /\ changed < cache.time => PageRead(cache.row, cache.month)

StaticTrue ==
    static # None /\ changed < static.time =>
        static.sum = DaysSinceT0 /\ static.p0 = PartialDay0

\* What a request has read within a tick in which nothing changed, or taken
\* from a cache as young as the table is still.
ReadTrue(q) ==
    /\ q.step = "month" /\ changed < now => q.row = at[DayOf(now)]
    /\ q.step \notin {"row", "month"} /\ Quiet(TariffTTL) => PageRead(q.row, q.month)
    /\ q.step \in {"range", "day0", "forecast"} => now > Moment(T0)
    /\ q.step = "day0" /\ changed < now => q.sum = DaysSinceT0
    /\ q.step = "forecast" /\ Quiet(MercuryTTL) =>
         q.sum = DaysSinceT0 /\ q.p0 = PartialDay0

RequestTrue == request # None => ReadTrue(request)

\* A snapshot is of a moment.
Snapshots == cur \in Samples /\ (request # None => request.cur \in Time)

\* No boundary has a sample long before its time: the capture is Tol early at
\* most.
NotEarly ==
    \A b \in Boundaries : SampleOf(b) # None => Moment(b) - Tol <= changed

ViewInv ==
    Clocks /\ CacheTrue /\ StaticTrue /\ RequestTrue /\ Snapshots /\ NotEarly
-----------------------------------------------------------------------------
(* The account.                                                            *)

LEMMA AccountIs ==
    ASSUME NEW from, NEW r \in Rates, NEW m \in Registers
    PROVE  Account(from)[r][m] = SumFunctionOnSet(Gains(m), BeginningOf(r, from))
<1>. DEFINE S == BeginningOf(r, from)
            k == [b \in S |-> load[m][EndOf(b)] - load[m][SampleOf(b)]]
<1>1. Account(from)[r][m] = SumFunction(k)
    BY DEF Account
<1>2. SumFunction(k) = SumFunctionOnSet(k, S)
    BY DEF SumFunction
<1>3. S \subseteq Boundaries /\ IsFiniteSet(S)
    BY BoundariesFinite, FS_Subset DEF BeginningOf, Since
<1>4. \A b \in S : k[b] = Gains(m)[b]
    BY <1>3 DEF Gains
<1>. HIDE DEF S, k
<1>5. SumFunctionOnSet(k, S) = SumFunctionOnSet(Gains(m), S)
    BY <1>3, <1>4, SumSame
<1>. QED
    BY <1>1, <1>2, <1>5 DEF S

LEMMA SumOfDaysIs ==
    ASSUME NEW from, NEW to, NEW r \in Rates, NEW m \in Registers
    PROVE  SumOfDays(from, to)[r][m]
             = SumFunctionOnSet(Bills(r, m), FinalizedDays(from, to))
<1>. DEFINE S == FinalizedDays(from, to)
            k == [d \in S |-> tariff[d][r][m]]
<1>1. SumOfDays(from, to)[r][m] = SumFunction(k)
    BY DEF SumOfDays
<1>2. SumFunction(k) = SumFunctionOnSet(k, S)
    BY DEF SumFunction
<1>3. S \subseteq Days /\ IsFiniteSet(S)
    BY BoundariesFinite, FS_Subset DEF FinalizedDays
<1>4. \A d \in S : k[d] = Bills(r, m)[d]
    BY <1>3 DEF Bills
<1>. HIDE DEF S, k
<1>5. SumFunctionOnSet(k, S) = SumFunctionOnSet(Bills(r, m), S)
    BY <1>3, <1>4, SumSame
<1>. QED
    BY <1>1, <1>2, <1>5 DEF S

\* Finalized days and the living day neither leave a gap nor overlap.
LEMMA AccountOfDays ==
    ASSUME NEW f, Legible(f), NEW D, D = DayOf(now), NEW r \in Rates, NEW m \in Registers
    PROVE  /\ Account(<<f, "0000">>)[r][m]
                = SumOfDays(f, D - 1)[r][m] + Today(now, at[D], request.cur)[r][m]
           /\ SumOfDays(f, D - 1)[r][m] \in Nat
           /\ Today(now, at[D], request.cur)[r][m] \in Nat
BY AccountIs, SumOfDaysIs, DaysAddUp, SumToday, TodayIsGained

\* No day of a table that has been still for longer than a capture may come
\* early is finalized before it is over.
LEMMA NoneAhead ==
    ASSUME NEW f, Legible(f), Clocks, NotEarly, Quiet(TariffTTL)
    PROVE  SumOfDays(0, LastDay) = SumOfDays(0, DayOf(now) - 1)
<1>. DEFINE D == DayOf(now)
<1>0. /\ now \in Time /\ D \in Days /\ D \in Nat /\ now < (D + 1) * DayLen
      /\ now \in Nat /\ changed \in Nat /\ TariffTTL \in Nat /\ Tol \in Nat
      /\ Tol <= TariffTTL /\ LastDay \in Nat
    <2>1. now \in Time /\ changed \in Time
        BY DEF Legible, TypeOK, Clocks
    <2>2. D \in Days /\ now < (D + 1) * DayLen
        BY <2>1, DayNow
    <2>3. TariffTTL \in Nat /\ Tol <= TariffTTL
        BY ViewAssumption
    <2>. HIDE DEF D
    <2>. QED
        BY <2>1, <2>2, <2>3, Calendar
<1>. HIDE DEF D
<1>1. ASSUME NEW d \in Days, tariff[d] # None, D <= d PROVE FALSE
    <2>0. d \in Nat /\ d \in Rows
        BY Calendar, ClockAssumption DEF Days, Rows
    <2>1. Complete(at[d])
        BY <1>1 DEF Legible, CompleteDayFinalized
    <2>2. d + 1 \in Days /\ at[d + 1]["0000"] # None
        BY <2>0, <2>1 DEF Legible, TableInv, NextColumn, Complete, Marks
    <2>3. <<d + 1, "0000">> \in Boundaries /\ Moment(<<d + 1, "0000">>) = (d + 1) * DayLen
        BY <2>2, BoundaryOf DEF Hours
    <2>4. SampleOf(<<d + 1, "0000">>) # None
        BY <2>2 DEF SampleOf
    <2>5. (d + 1) * DayLen - Tol <= changed
        BY <2>3, <2>4 DEF NotEarly
    <2>6. (D + 1) * DayLen <= (d + 1) * DayLen
        BY <1>0, <1>1, <2>0, DaysScale, Calendar
    <2>7. (D + 1) * DayLen \in Nat /\ (d + 1) * DayLen \in Nat
        <3>1. D + 1 \in Nat /\ d + 1 \in Nat /\ DayLen \in Nat
            BY <1>0, <2>0, Calendar
        <3>. QED
            BY <3>1
    <2>8. now - changed >= TariffTTL
        BY DEF Quiet
    <2>. QED
        BY <1>0, <2>5, <2>6, <2>7, <2>8
<1>2. FinalizedDays(0, LastDay) = FinalizedDays(0, D - 1)
    <2>1. \A d \in Days : d \in Nat /\ d <= LastDay
        BY <1>0 DEF Days
    <2>2. \A d \in Days : d \in 0..LastDay /\ (d \in 0..(D - 1) <=> ~(D <= d))
        BY <1>0, <2>1
    <2>. QED
        BY <1>1, <2>2 DEF FinalizedDays
<1>. QED
    BY <1>2 DEF SumOfDays, D

\* At a boundary the clock is in its zone.
LEMMA ZoneOf ==
    ASSUME NEW b \in Boundaries
    PROVE  HourIn(Moment(b)) = b[2]
<1>. DEFINE q == b[1]  o == Offset(b[2])
<1>1. q \in Nat /\ o \in Nat /\ o < DayLen /\ DayLen \in Nat \ {0} /\ b[2] \in Hours
    BY InItsDay, Offsets, Calendar
<1>2. Moment(b) = q * DayLen + o
    BY DEF Moment
<1>. HIDE DEF q, o
<1>3. (q * DayLen + o) % DayLen = o
    <2>1. q * DayLen = DayLen * q /\ DayLen * q \in Nat
        BY <1>1
    <2>2. (DayLen * q + o) % DayLen = o
        BY <1>1, SMT
    <2>. QED
        BY <2>1, <2>2
<1>4. \/ b[2] = "0000" /\ o = 0
      \/ b[2] = "0700" /\ o = DayStart
      \/ b[2] = "2300" /\ o = DayEnd
    <2>1. b[2] = "0000" \/ b[2] = "0700" \/ b[2] = "2300"
        BY <1>1 DEF Hours
    <2>2. /\ Offset("0000") = 0 /\ Offset("0700") = DayStart /\ Offset("2300") = DayEnd
        BY DEF Offset
    <2>3. o = Offset(b[2])
        BY DEF o
    <2>. QED
        BY <2>1, <2>2, <2>3
<1>. QED
    BY <1>2, <1>3, <1>4, Calendar DEF HourIn

-----------------------------------------------------------------------------
(* The month and Mercury's forecast, while the invariant holds.            *)

\* What the day of T0 had gained at T0.
LEMMA Day0 ==
    ASSUME NEW f, Legible(f), NEW h \in Hours, Moment(<<f, h>>) <= now,
           NEW r \in Rates, NEW m \in Registers
    PROVE  /\ Account(<<f, "0000">>)[r][m]
                = Account(<<f, h>>)[r][m] + PartialUpTo(Moment(<<f, h>>), at[f])[r][m]
           /\ Account(<<f, h>>)[r][m] \in Nat
           /\ PartialUpTo(Moment(<<f, h>>), at[f])[r][m] \in Nat
<1>. DEFINE mid == <<f, "0000">>  day == <<f, "0700">>  eve == <<f, "2300">>
            t == <<f, h>>
            All == BeginningOf(r, mid)
            Rest == BeginningOf(r, t)
            p == PartialUpTo(Moment(t), at[f])[r][m]
<1>0. now \in Time /\ f \in Days
    BY DEF Legible, TypeOK
<1>1. /\ \A b \in Boundaries : Moment(b) \in Nat
      /\ mid \in Boundaries /\ day \in Boundaries /\ eve \in Boundaries /\ t \in Boundaries
      /\ Moment(mid) < Moment(day) /\ Moment(day) < Moment(eve)
    <2>1. /\ Moment(mid) = f * DayLen /\ Moment(day) = f * DayLen + DayStart
          /\ Moment(eve) = f * DayLen + DayEnd /\ f * DayLen \in Nat
          /\ \A g \in Hours : <<f, g>> \in Boundaries
        BY <1>0, BoundaryOf
    <2>. HIDE DEF mid, day, eve
    <2>2. Moment(mid) < Moment(day) /\ Moment(day) < Moment(eve)
        BY <2>1, Calendar
    <2>. QED
        BY <2>1, <2>2, MomentType DEF mid, day, eve, Hours
<1>2. \A b \in Boundaries :
         /\ Moment(b) > Moment(mid) => Moment(b) >= Moment(day)
         /\ Moment(b) > Moment(day) => Moment(b) >= Moment(eve)
    BY <1>0, NextBoundary
<1>3. \A b \in Boundaries, c \in Boundaries : Moment(b) = Moment(c) => b = c
    BY MomentsDiffer
<1>4. HourIn(Moment(t)) = h
    BY <1>1, ZoneOf
<1>5. \A b \in Since(mid) : /\ SampleOf(b) \in Time /\ SampleOf(b) # None
                            /\ Gains(m)[b] \in Nat
                            /\ Gains(m)[b] = load[m][EndOf(b)] - load[m][SampleOf(b)]
    BY Read, GainsType, NoneIsNoTime
<1>6. /\ SampleOf(mid) = at[f]["0000"] /\ SampleOf(day) = at[f]["0700"]
      /\ SampleOf(eve) = at[f]["2300"]
    BY DEF SampleOf
<1>7. /\ mid[2] = "0000" /\ day[2] = "0700" /\ eve[2] = "2300"
      /\ (r = "day" \/ r = "night") /\ "day" # "night"
    BY DEF Rates
<1>8. /\ Account(mid)[r][m] = SumFunctionOnSet(Gains(m), All)
      /\ Account(t)[r][m] = SumFunctionOnSet(Gains(m), Rest)
    BY AccountIs
<1>9. now \in Nat
    BY <1>0, Calendar
<1>10. Rest \subseteq Since(mid) /\ IsFiniteSet(Rest)
    <2>1. Moment(mid) <= Moment(t)
        <3>1. t = mid \/ t = day \/ t = eve
            BY DEF Hours
        <3>. HIDE DEF mid, day, eve, t
        <3>. QED
            BY <1>1, <3>1
    <2>. HIDE DEF mid, t
    <2>2. Rest \subseteq Since(mid)
        BY <1>1, <2>1 DEF BeginningOf, Since
    <2>3. IsFiniteSet(Rest)
        BY BoundariesFinite, FS_Subset DEF BeginningOf, Since
    <2>. QED
        BY <2>2, <2>3
<1>11. ASSUME NEW b \in Since(mid), b \notin Rest, All = Rest \cup {b}
       PROVE  /\ SumFunctionOnSet(Gains(m), Rest) \in Nat
              /\ SumFunctionOnSet(Gains(m), All)
                   = SumFunctionOnSet(Gains(m), Rest) + Gains(m)[b]
    <2>1. \A c \in Rest \cup {b} : Gains(m)[c] \in Nat
        BY <1>5, <1>10, <1>11
    <2>. HIDE DEF All, Rest
    <2>2. /\ SumFunctionOnSet(Gains(m), Rest) \in Nat
          /\ SumFunctionOnSet(Gains(m), Rest \cup {b})
               = Gains(m)[b] + SumFunctionOnSet(Gains(m), Rest)
        BY <1>10, <1>11, <2>1, SumAdd
    <2>3. Gains(m)[b] \in Nat
        BY <1>5, <1>11
    <2>. QED
        BY <1>11, <2>2, <2>3
<1>12. SumFunctionOnSet(Gains(m), Rest) \in Nat
    <2>1. CASE Rest = {}
        BY <2>1, SumEmpty
    <2>2. ASSUME NEW b \in Rest PROVE SumFunctionOnSet(Gains(m), Rest) \in Nat
        <3>. DEFINE S == Rest \ {b}
        <3>1. IsFiniteSet(S) /\ Rest = S \cup {b} /\ b \notin S
            BY <1>10, <2>2, FS_RemoveElement
        <3>2. \A c \in Rest : Gains(m)[c] \in Nat
            BY <1>5, <1>10
        <3>. HIDE DEF S, Rest
        <3>3. /\ SumFunctionOnSet(Gains(m), S) \in Nat
              /\ SumFunctionOnSet(Gains(m), S \cup {b})
                   = Gains(m)[b] + SumFunctionOnSet(Gains(m), S)
            BY <3>1, <3>2, SumAdd
        <3>4. Gains(m)[b] \in Nat
            BY <2>2, <3>2
        <3>. QED
            BY <3>1, <3>3, <3>4
    <2>. QED
        BY <2>1, <2>2
<1>13. CASE h = "0000"
    <2>1. p = 0
        BY <1>4, <1>13 DEF PartialUpTo, NotNegative
    <2>. HIDE DEF p
    <2>. QED
        BY <1>8, <1>12, <1>13, <2>1 DEF p
<1>14. CASE h = "0700"
    <2>1. t = day /\ Moment(day) <= now
        BY <1>14
    <2>2. mid \in Since(mid) /\ EndOf(mid) = SampleOf(day) /\ day \in Since(mid)
        <3>1. EndOf(mid) = SampleOf(day)
            BY <1>1, <1>2, <2>1, EndIs
        <3>. HIDE DEF mid, day
        <3>2. mid \in Since(mid) /\ day \in Since(mid)
            BY <1>1, <1>9, <2>1 DEF Since
        <3>. QED
            BY <3>1, <3>2
    <2>3. Gains(m)[mid] = Gain(m, at[f]["0000"], at[f]["0700"]) /\ Gains(m)[mid] \in Nat
        BY <1>5, <1>6, <2>2 DEF Gain
    <2>4. p = IF r = "night" THEN Gains(m)[mid] ELSE 0
        BY <1>4, <1>14, <2>3 DEF PartialUpTo, NotNegative
    <2>. HIDE DEF mid, day, eve, t
    <2>5. Since(mid) = Since(day) \cup {mid} /\ mid \notin Since(day)
        BY <1>1, <1>2, <1>3, <2>2 DEF Since
    <2>6. CASE r = "night"
        <3>1. All = Rest \cup {mid} /\ mid \notin Rest
            BY <1>7, <2>1, <2>5, <2>6 DEF BeginningOf
        <3>. HIDE DEF All, Rest, p
        <3>. QED
            BY <1>8, <1>11, <1>12, <2>2, <2>3, <2>4, <2>6, <3>1 DEF p, mid, t
    <2>7. CASE r = "day"
        <3>1. All = Rest
            BY <1>7, <2>1, <2>5, <2>7 DEF BeginningOf
        <3>. HIDE DEF All, Rest, p
        <3>. QED
            BY <1>8, <1>12, <2>4, <2>7, <3>1 DEF p, mid, t
    <2>. QED
        BY <1>7, <2>6, <2>7
<1>15. CASE h = "2300"
    <2>1. t = eve /\ Moment(eve) <= now
        BY <1>15
    <2>2. /\ EndOf(mid) = SampleOf(day) /\ EndOf(day) = SampleOf(eve)
          /\ mid \in Since(mid) /\ day \in Since(mid) /\ eve \in Since(mid)
        <3>1. Moment(day) <= now
            BY <1>1, <1>9, <2>1
        <3>2. EndOf(mid) = SampleOf(day) /\ EndOf(day) = SampleOf(eve)
            BY <1>1, <1>2, <2>1, <3>1, EndIs
        <3>. HIDE DEF mid, day, eve
        <3>3. mid \in Since(mid) /\ day \in Since(mid) /\ eve \in Since(mid)
            BY <1>1, <1>9, <2>1 DEF Since
        <3>. QED
            BY <3>2, <3>3
    <2>3. /\ Gains(m)[mid] = Gain(m, at[f]["0000"], at[f]["0700"]) /\ Gains(m)[mid] \in Nat
          /\ Gains(m)[day] = Gain(m, at[f]["0700"], at[f]["2300"]) /\ Gains(m)[day] \in Nat
        BY <1>5, <1>6, <2>2 DEF Gain
    <2>4. p = IF r = "night" THEN Gains(m)[mid] ELSE Gains(m)[day]
        BY <1>4, <1>15, <2>3 DEF PartialUpTo, NotNegative
    <2>. HIDE DEF mid, day, eve, t
    <2>5. /\ Since(mid) = Since(eve) \cup {mid, day}
          /\ mid \notin Since(eve) /\ day \notin Since(eve)
        BY <1>1, <1>2, <1>3, <2>2 DEF Since
    <2>6. CASE r = "night"
        <3>1. All = Rest \cup {mid} /\ mid \notin Rest
            BY <1>7, <2>1, <2>5, <2>6 DEF BeginningOf
        <3>. HIDE DEF All, Rest, p
        <3>. QED
            BY <1>8, <1>11, <1>12, <2>2, <2>3, <2>4, <2>6, <3>1 DEF p, mid, t
    <2>7. CASE r = "day"
        <3>1. All = Rest \cup {day} /\ day \notin Rest
            BY <1>7, <2>1, <2>5, <2>7 DEF BeginningOf
        <3>2. r # "night"
            BY <2>7
        <3>. HIDE DEF All, Rest, p
        <3>. QED
            BY <1>8, <1>11, <1>12, <2>2, <2>3, <2>4, <3>1, <3>2 DEF p, mid, t
    <2>. QED
        BY <1>7, <2>6, <2>7
<1>. QED
    BY <1>13, <1>14, <1>15 DEF Hours

\* The month is the account of the month.
LEMMA MonthCounts ==
    ASSUME TypeOK, TableInv, CompleteDayFinalized, ViewInv
    PROVE  MonthAddsUp
<1>. SUFFICES ASSUME Answered, Monotone, Quiet(TariffTTL), Known(<<0, "0000">>)
              PROVE  ShownMonth = Account(<<0, "0000">>)
    BY DEF MonthAddsUp
<1>. DEFINE D == DayOf(now)
<1>1. now \in Time /\ D \in Days /\ 0 \in Days /\ 0 <= D
    <2>1. now \in Time /\ D \in Days
        BY DayNow DEF TypeOK
    <2>. QED
        BY <2>1, Calendar DEF Days
<1>2. Legible(0)
    BY <1>1 DEF Legible, ViewInv, Snapshots, Answered, At
<1>3. request.row = at[D] /\ request.month = SumOfDays(0, LastDay)
    BY DEF ViewInv, RequestTrue, ReadTrue, At, PageRead, Answered
<1>4. request.month = SumOfDays(0, D - 1)
    BY <1>2, <1>3, NoneAhead DEF ViewInv
<1>. HIDE DEF D
<1>5. ASSUME NEW r \in Rates, NEW m \in Registers
      PROVE  ShownMonth[r][m] = Account(<<0, "0000">>)[r][m]
    <2>1. ShownMonth[r][m]
            = SumOfDays(0, D - 1)[r][m] + Today(now, at[D], request.cur)[r][m]
        BY <1>3, <1>4 DEF ShownMonth, Plus, LivingDay
    <2>. QED
        BY <1>2, <2>1, AccountOfDays DEF D
<1>. QED
    BY <1>5 DEF ShownMonth, Plus, Account

\* So is the energy since T0.
LEMMA ForecastCounts ==
    ASSUME TypeOK, TableInv, CompleteDayFinalized, ViewInv
    PROVE  ForecastAddsUp
<1>. SUFFICES ASSUME At("forecast"), Monotone, Quiet(TariffTTL), Quiet(MercuryTTL),
                     Known(<<T0[1], "0000">>)
              PROVE  ShownForecast = Account(T0)
    BY DEF ForecastAddsUp
<1>. DEFINE D == DayOf(now)  f == T0[1]  h == T0[2]
<1>1. now \in Time /\ T0 = <<f, h>> /\ f \in Days /\ h \in Hours /\ Moment(T0) <= now
    <2>1. now > Moment(T0) /\ T0 \in Boundaries
        BY ViewAssumption DEF ViewInv, RequestTrue, ReadTrue, At
    <2>2. now \in Time /\ now \in Nat /\ Moment(T0) \in Nat
        BY <2>1, MomentType, Calendar DEF TypeOK
    <2>. QED
        BY <2>1, <2>2, InItsDay
<1>2. f <= D
    <2>1. T0 \in Boundaries /\ f <= f
        BY <1>1, Calendar, ViewAssumption
    <2>2. T0 \in Since(<<f, "0000">>)
        BY <1>1, <2>1, SinceDay
    <2>. QED
        BY <1>1, <2>2, SinceDay
<1>3. Legible(f)
    BY <1>1, <1>2 DEF Legible, ViewInv, Snapshots, At
<1>4. /\ request.row = at[D] /\ request.sum = SumOfDays(f, D - 1)
      /\ request.p0 = PartialUpTo(Moment(T0), at[f])
    BY DEF ViewInv, RequestTrue, ReadTrue, At, PageRead, DaysSinceT0, PartialDay0
<1>. HIDE DEF D, f, h
<1>5. ASSUME NEW r \in Rates, NEW m \in Registers
      PROVE  ShownForecast[r][m] = Account(T0)[r][m]
    <2>. DEFINE a == SumOfDays(f, D - 1)[r][m]
                b == Today(now, at[D], request.cur)[r][m]
                c == PartialUpTo(Moment(T0), at[f])[r][m]
                d == Account(T0)[r][m]
    <2>1. ShownForecast[r][m] = IF (a + b) - c < 0 THEN 0 ELSE (a + b) - c
        BY <1>4 DEF ShownForecast, NotNegative, Minus, Plus, LivingDay
    <2>2. Account(<<f, "0000">>)[r][m] = a + b /\ a \in Nat /\ b \in Nat
        BY <1>3, AccountOfDays DEF D
    <2>3. Account(<<f, "0000">>)[r][m] = d + c /\ d \in Nat /\ c \in Nat
        BY <1>1, <1>3, Day0
    <2>. HIDE DEF a, b, c, d
    <2>. QED
        BY <2>1, <2>2, <2>3 DEF d
<1>. QED
    BY <1>5 DEF ShownForecast, NotNegative, Account

-----------------------------------------------------------------------------
(* The steps of the page and of the writers.                               *)

\* To the table a failed query of the page is a fault fewer.
QueryLost ==
    /\ faults > 0 /\ faults' = faults - 1
    /\ UNCHANGED <<now, load, series, best, at, tariff, todo, picked>>

allVars == <<vars, viewVars>>

LEMMA TableMoves == [ViewNext]_allVars => [Next]_vars \/ QueryLost
<1>. SUFFICES ASSUME [ViewNext]_allVars PROVE [Next]_vars \/ QueryLost
    OBVIOUS
<1>1. CASE Writer
    BY <1>1 DEF Writer, ViewPoll, ViewBackfill, ViewRestart, ViewTick, Next
<1>2. CASE Ask \/ StaticStart \/ UNCHANGED allVars
    BY <1>2 DEF Ask, StaticStart, allVars
<1>3. CASE ReadRow \/ ReadMonth \/ ReadRange \/ ReadDay0
    <2>1. (QueryAnswers \/ QueryFails) /\ Others
        BY <1>3 DEF ReadRow, ReadMonth, ReadRange, ReadDay0
    <2>. QED
        BY <2>1 DEF QueryAnswers, QueryFails, Others, QueryLost, vars
<1>. QED
    BY <1>1, <1>2, <1>3 DEF ViewNext, Request

TableTrue == TypeOK /\ TableInv /\ TooOld /\ CompleteDayFinalized

LEMMA TableTrueStep == TableTrue /\ [ViewNext]_allVars => TableTrue'
<1>. SUFFICES ASSUME TableTrue, [ViewNext]_allVars PROVE TableTrue'
    OBVIOUS
<1>1. CASE [Next]_vars
    <2>1. TypeOK' /\ TableInv' /\ TooOld'
        BY <1>1, TypeStep, TableStep, OldStep DEF TableTrue
    <2>2. SamplesInOrder'
        BY <2>1, TableInOrder, PTL
    <2>3. CompleteDayFinalized'
        BY <1>1, <2>2, FinalizedStep DEF TableTrue
    <2>. QED
        BY <2>1, <2>3 DEF TableTrue
<1>2. CASE QueryLost
    <2>1. TypeOK'
        <3>1. faults' \in 0..MaxFaults
            BY <1>2, ClockAssumption DEF TableTrue, TypeOK, QueryLost
        <3>. QED
            BY <1>2, <3>1 DEF TableTrue, TypeOK, QueryLost
    <2>2. TableInv' /\ TooOld'
        BY <1>2 DEF TableTrue, QueryLost, TableInv, PickedNear, NextColumn, Placed, TooOld,
                    IsFirst, Near
    <2>3. CompleteDayFinalized'
        BY <1>2 DEF TableTrue, QueryLost, CompleteDayFinalized, Monotone, Amounts, Complete
    <2>. QED
        BY <2>1, <2>2, <2>3 DEF TableTrue
<1>. QED
    BY <1>1, <1>2, TableMoves

LEMMA TableTrueInit == ViewInit => TableTrue
    BY TypeInit, TableInit, FinalizedInit DEF ViewInit, TableTrue, Init, TooOld

\* A step leaves what the caches hold as it is, or is noted as a change, or is
\* the clock's, which notes the change of the day.
Held    == UNCHANGED <<now, at, tariff, load, changed>>
Stirred == now' = now /\ changed' = now
Ticked  ==
    /\ now' = now + 1 /\ request' = None
    /\ UNCHANGED <<at, tariff, load, cache, static, cur>>
    /\ changed' = IF DayOf(now') = DayOf(now) THEN changed ELSE now'

LEMMA StepKinds == [ViewNext]_allVars => Held \/ Stirred \/ Ticked
<1>. SUFFICES ASSUME [ViewNext]_allVars PROVE Held \/ Stirred \/ Ticked
    OBVIOUS
<1>1. CASE ViewPoll \/ ViewBackfill
    <2>1. now' = now /\ load' = load
        BY <1>1 DEF ViewPoll, ViewBackfill, Poll, Backfill, BackfillStart, BackfillLook,
                    BackfillStore
    <2>2. changed' = IF <<at, tariff>>' = <<at, tariff>> THEN changed ELSE now'
        BY <1>1 DEF ViewPoll, ViewBackfill, Unless
    <2>. QED
        BY <2>1, <2>2 DEF Held, Stirred
<1>2. CASE ViewRestart
    BY <1>2 DEF ViewRestart, Restart, Held
<1>3. CASE ViewTick
    BY <1>3 DEF ViewTick, Tick, Unless, Ticked
<1>4. CASE Ask \/ StaticStart \/ UNCHANGED allVars
    BY <1>4 DEF Ask, StaticStart, allVars, vars, viewVars, Held
<1>5. CASE ReadRow \/ ReadMonth \/ ReadRange \/ ReadDay0
    <2>1. (QueryAnswers \/ QueryFails) /\ Others
        BY <1>5 DEF ReadRow, ReadMonth, ReadRange, ReadDay0
    <2>. QED
        BY <2>1 DEF QueryAnswers, QueryFails, Others, Held, Stirred
<1>. QED
    BY <1>1, <1>2, <1>3, <1>4, <1>5 DEF ViewNext, Writer, Request

\* What is computed from the table is what it was while the table is.
LEMMA SameSums ==
    ASSUME tariff' = tariff, NEW from, NEW to
    PROVE  SumOfDays(from, to)' = SumOfDays(from, to)
BY DEF SumOfDays, FinalizedDays

LEMMA SameStill ==
    ASSUME UNCHANGED <<at, tariff, load>>, DayOf(now') = DayOf(now)
    PROVE  /\ at'[DayOf(now')] = at[DayOf(now)]
           /\ SumOfDays(0, LastDay)' = SumOfDays(0, LastDay)
           /\ DaysSinceT0' = DaysSinceT0
           /\ PartialDay0' = PartialDay0
<1>1. DaysSinceT0' = DaysSinceT0
    BY SameSums DEF DaysSinceT0
<1>2. PartialDay0' = PartialDay0
    BY DEF PartialDay0, PartialUpTo, Gain, NotNegative
<1>. QED
    BY <1>1, <1>2, SameSums

-----------------------------------------------------------------------------
(* The page's invariant, part by part.                                     *)

LEMMA ViewStart == ViewInit => ViewInv
<1>. SUFFICES ASSUME ViewInit PROVE ViewInv
    OBVIOUS
<1>1. now = 0 /\ changed = 0 /\ cache = None /\ static = None /\ request = None /\ cur = None
    BY DEF ViewInit, Init
<1>2. Clocks /\ CacheTrue /\ StaticTrue /\ RequestTrue /\ Snapshots
    <2>1. 0 \in Time
        BY ClockAssumption DEF Time
    <2>. QED
        BY <1>1, <2>1 DEF Clocks, CacheTrue, StaticTrue, RequestTrue, ReadTrue, At, Snapshots,
                         Samples
<1>3. NotEarly
    <2>1. ASSUME NEW b \in Boundaries PROVE SampleOf(b) = None
        <3>1. b[1] \in Rows /\ b[2] \in Marks
            BY BoundaryFields DEF Marks
        <3>. QED
            BY <3>1 DEF ViewInit, Init, SampleOf
    <2>. QED
        BY <2>1 DEF NotEarly
<1>. QED
    BY <1>2, <1>3 DEF ViewInv

\* The cache of the boundaries is left, lost or stamped with what was read.
LEMMA CacheMoves ==
    ASSUME [ViewNext]_allVars
    PROVE  \/ cache' = cache
           \/ cache' = None
           \/ /\ now' = now /\ cache'.time = now
              /\ \/ changed' = now
                 \/ /\ At("month")
                    /\ cache'.row = request.row
                    /\ cache'.month = SumOfDays(0, LastDay)
<1>1. CASE Writer \/ Ask \/ StaticStart \/ UNCHANGED allVars \/ ReadRange \/ ReadDay0
    BY <1>1 DEF Writer, ViewPoll, ViewBackfill, ViewRestart, ViewTick, Ask, StaticStart,
                ReadRange, ReadDay0, allVars, viewVars
<1>2. CASE ReadRow
    <2>1. now' = now /\ At("row")
        BY <1>2 DEF ReadRow, Others
    <2>2. CASE QueryFails
        BY <2>1, <2>2, <1>2 DEF ReadRow, Stamp, QueryFails
    <2>3. CASE ~QueryFails
        BY <2>3, <1>2 DEF ReadRow
    <2>. QED
        BY <2>2, <2>3
<1>3. CASE ReadMonth
    <2>1. now' = now /\ At("month")
        BY <1>3 DEF ReadMonth, Others
    <2>2. CASE QueryFails
        BY <2>1, <2>2, <1>3 DEF ReadMonth, Stamp, QueryFails
    <2>3. CASE ~QueryFails
        BY <2>1, <2>3, <1>3 DEF ReadMonth, Stamp
    <2>. QED
        BY <2>2, <2>3
<1>. QED
    BY <1>1, <1>2, <1>3 DEF ViewNext, Request

\* So is the cache of Mercury's correction.
LEMMA StaticMoves ==
    ASSUME [ViewNext]_allVars
    PROVE  \/ static' = static
           \/ static' = None
           \/ /\ now' = now /\ static'.time = now /\ changed' = changed
              /\ At("day0")
              /\ static'.sum = request.sum /\ static'.p0 = PartialDay0
<1>1. CASE \/ Writer \/ Ask \/ StaticStart \/ UNCHANGED allVars
           \/ ReadRow \/ ReadMonth \/ ReadRange
    BY <1>1 DEF Writer, ViewPoll, ViewBackfill, ViewRestart, ViewTick, Ask, StaticStart,
                ReadRow, ReadMonth, ReadRange, allVars, viewVars
<1>2. CASE ReadDay0
    BY <1>2 DEF ReadDay0, Others, QueryAnswers, PartialDay0
<1>. QED
    BY <1>1, <1>2 DEF ViewNext, Request

\* What the clock says before and after a step.
LEMMA TimesOf ==
    ASSUME TableTrue, Clocks, [ViewNext]_allVars
    PROVE  /\ now \in Nat /\ now \in Time /\ now' \in Time /\ now' \in Nat /\ now <= now'
           /\ changed \in Nat /\ changed' \in Nat /\ changed' \in Time /\ changed' <= now'
           /\ changed <= changed'
<1>1. now \in Time /\ now' \in Time
    BY TableTrueStep DEF TableTrue, TypeOK
<1>2. now \in Nat /\ now' \in Nat /\ changed \in Nat /\ changed \in Time /\ changed <= now
    BY <1>1, Calendar DEF Clocks
<1>. QED
    BY <1>1, <1>2, StepKinds DEF Held, Stirred, Ticked

LEMMA ClocksStep ==
    ASSUME TableTrue, Clocks, [ViewNext]_allVars
    PROVE  Clocks'
<1>1. changed' \in Time /\ changed' <= now'
    BY TimesOf
<1>2. cache' # None => cache'.time \in Time /\ cache'.time <= now'
    <2>1. CASE cache' = cache
        <3>1. cache # None => cache.time \in Nat
            BY Calendar DEF Clocks
        <3>. QED
            BY <2>1, <3>1, TimesOf DEF Clocks
    <2>2. CASE cache' = None
        BY <2>2
    <2>3. CASE now' = now /\ cache'.time = now
        BY <2>3, TimesOf
    <2>. QED
        BY <2>1, <2>2, <2>3, CacheMoves
<1>3. static' # None => static'.time \in Time /\ static'.time <= now'
    <2>1. CASE static' = static
        <3>1. static # None => static.time \in Nat
            BY Calendar DEF Clocks
        <3>. QED
            BY <2>1, <3>1, TimesOf DEF Clocks
    <2>2. CASE static' = None
        BY <2>2
    <2>3. CASE now' = now /\ static'.time = now
        BY <2>3, TimesOf
    <2>. QED
        BY <2>1, <2>2, <2>3, StaticMoves
<1>. QED
    BY <1>1, <1>2, <1>3 DEF Clocks

\* A step after which something is older than the last change, or after which
\* the table and the day are what they were.
LEMMA StandsStill ==
    ASSUME TableTrue, Clocks, [ViewNext]_allVars
    PROVE  \/ changed' = now' /\ (Stirred \/ Ticked)
           \/ /\ changed' = changed /\ (Held \/ Ticked)
              /\ at'[DayOf(now')] = at[DayOf(now)]
              /\ SumOfDays(0, LastDay)' = SumOfDays(0, LastDay)
              /\ DaysSinceT0' = DaysSinceT0
              /\ PartialDay0' = PartialDay0
<1>1. CASE Stirred
    BY <1>1 DEF Stirred
<1>2. CASE Held
    <2>1. UNCHANGED <<at, tariff, load>> /\ DayOf(now') = DayOf(now) /\ changed' = changed
        BY <1>2 DEF Held
    <2>. QED
        BY <1>2, <2>1, SameStill
<1>3. CASE Ticked
    <2>1. CASE DayOf(now') = DayOf(now)
        <3>1. UNCHANGED <<at, tariff, load>> /\ changed' = changed
            BY <1>3, <2>1 DEF Ticked
        <3>. QED
            BY <1>3, <2>1, <3>1, SameStill
    <2>2. CASE DayOf(now') # DayOf(now)
        BY <1>3, <2>2 DEF Ticked
    <2>. QED
        BY <2>1, <2>2
<1>. QED
    BY <1>1, <1>2, <1>3, StepKinds

LEMMA CacheTrueStep ==
    ASSUME TableTrue, Clocks, CacheTrue, RequestTrue, [ViewNext]_allVars
    PROVE  CacheTrue'
<1>. SUFFICES ASSUME cache' # None, changed' < cache'.time
              PROVE  PageRead(cache.row, cache.month)'
    BY DEF CacheTrue
<1>0. cache'.time \in Time /\ cache'.time \in Nat /\ cache'.time <= now'
    BY ClocksStep, Calendar DEF Clocks
<1>1. ~(changed' = now')
    BY <1>0, TimesOf
<1>2. /\ changed' = changed
      /\ at'[DayOf(now')] = at[DayOf(now)]
      /\ SumOfDays(0, LastDay)' = SumOfDays(0, LastDay)
    BY <1>1, StandsStill
<1>3. PageRead(cache'.row, cache'.month)
    <2>1. CASE cache' = cache
        BY <1>2, <2>1 DEF CacheTrue
    <2>2. CASE /\ now' = now /\ cache'.time = now
               /\ At("month")
               /\ cache'.row = request.row
               /\ cache'.month = SumOfDays(0, LastDay)
        BY <1>2, <2>2 DEF PageRead, RequestTrue, ReadTrue, At
    <2>. QED
        BY <1>1, <2>1, <2>2, CacheMoves
<1>. QED
    BY <1>2, <1>3 DEF PageRead

LEMMA StaticTrueStep ==
    ASSUME TableTrue, Clocks, StaticTrue, RequestTrue, [ViewNext]_allVars
    PROVE  StaticTrue'
<1>. SUFFICES ASSUME static' # None, changed' < static'.time
              PROVE  static'.sum = DaysSinceT0' /\ static'.p0 = PartialDay0'
    BY DEF StaticTrue
<1>0. static'.time \in Time /\ static'.time \in Nat /\ static'.time <= now'
    BY ClocksStep, Calendar DEF Clocks
<1>1. ~(changed' = now')
    BY <1>0, TimesOf
<1>2. changed' = changed /\ DaysSinceT0' = DaysSinceT0 /\ PartialDay0' = PartialDay0
    BY <1>1, StandsStill
<1>3. static'.sum = DaysSinceT0 /\ static'.p0 = PartialDay0
    <2>1. CASE static' = static
        BY <1>2, <2>1 DEF StaticTrue
    <2>2. CASE /\ now' = now /\ static'.time = now
               /\ At("day0")
               /\ static'.sum = request.sum /\ static'.p0 = PartialDay0
        BY <1>2, <2>2 DEF RequestTrue, ReadTrue, At
    <2>. QED
        BY <2>1, <2>2, StaticMoves
<1>. QED
    BY <1>2, <1>3

\* What is cached, and younger than the table is still, is what the table says.
LEMMA FreshCaches ==
    ASSUME TableTrue, Clocks, CacheTrue, StaticTrue
    PROVE  /\ Cached(now) /\ Quiet(TariffTTL) => PageRead(cache.row, cache.month)
           /\ StaticHit /\ Quiet(MercuryTTL) =>
                static.sum = DaysSinceT0 /\ static.p0 = PartialDay0
<1>0. now \in Nat /\ changed \in Nat /\ TariffTTL \in Nat /\ MercuryTTL \in Nat
    BY Calendar, ViewAssumption DEF TableTrue, TypeOK, Clocks
<1>1. ASSUME Cached(now), Quiet(TariffTTL) PROVE PageRead(cache.row, cache.month)
    <2>1. cache # None /\ cache.time \in Nat /\ now - cache.time < TariffTTL
          /\ now - changed >= TariffTTL
        BY <1>1, Calendar DEF Cached, Quiet, Clocks
    <2>2. changed < cache.time
        BY <1>0, <2>1
    <2>. QED
        BY <2>1, <2>2 DEF CacheTrue
<1>2. ASSUME StaticHit, Quiet(MercuryTTL)
      PROVE  static.sum = DaysSinceT0 /\ static.p0 = PartialDay0
    <2>1. static # None /\ static.time \in Nat /\ now - static.time < MercuryTTL
          /\ now - changed >= MercuryTTL
        BY <1>2, Calendar DEF StaticHit, Quiet, Clocks
    <2>2. changed < static.time
        BY <1>0, <2>1
    <2>. QED
        BY <2>1, <2>2 DEF StaticTrue
<1>. QED
    BY <1>1, <1>2

\* A tick in which something changed is not quiet.
LEMMA NotQuiet ==
    ASSUME TableTrue, Clocks
    PROVE  Quiet(TariffTTL) \/ Quiet(MercuryTTL) => changed < now
BY Calendar, ViewAssumption DEF TableTrue, TypeOK, Clocks, Quiet

\* What a step of a request leaves behind, and the queries that answered.
LEMMA RequestMoves ==
    ASSUME TableTrue, Clocks, CacheTrue, StaticTrue, RequestTrue, [ViewNext]_allVars
    PROVE  \/ request' = None
           \/ /\ Stirred
              /\ request'.step \in {"range", "day0", "forecast"} => now > Moment(T0)
           \/ Held /\ ReadTrue(request')
<1>0. QueryFails => ~QueryAnswers
    <2>1. faults \in Nat
        BY ClockAssumption DEF TableTrue, TypeOK
    <2>. QED
        BY <2>1 DEF QueryFails, QueryAnswers
<1>1. CASE ViewRestart \/ ViewTick
    BY <1>1 DEF ViewRestart, ViewTick
<1>2. CASE ViewPoll \/ ViewBackfill \/ UNCHANGED allVars
    <2>1. request' = request
        BY <1>2 DEF ViewPoll, ViewBackfill, allVars, viewVars
    <2>2. now' = now
        BY <1>2 DEF ViewPoll, ViewBackfill, Poll, Backfill, BackfillStart, BackfillLook,
                    BackfillStore, allVars, vars
    <2>3. ~Ticked
        <3>1. now \in Nat
            BY TimesOf
        <3>. QED
            BY <2>2, <3>1 DEF Ticked
    <2>. QED
        BY <2>1, <2>3, StepKinds DEF RequestTrue, ReadTrue
<1>3. CASE Ask
    <2>1. Held
        BY <1>3 DEF Ask, vars, Held
    <2>2. CASE Cached(now)
        <3>1. /\ request'.step = "static" /\ request'.row = cache.row
              /\ request'.month = cache.month
            BY <1>3, <2>2 DEF Ask
        <3>. QED
            BY <2>1, <2>2, <3>1, FreshCaches DEF ReadTrue
    <2>3. CASE ~Cached(now)
        <3>1. request'.step = "row"
            BY <1>3, <2>3 DEF Ask
        <3>. QED
            BY <2>1, <3>1 DEF ReadTrue
    <2>. QED
        BY <2>2, <2>3
<1>4. ASSUME QueryFails, Others PROVE Stirred
    BY <1>4 DEF QueryFails, Others, Stirred
<1>5. ASSUME QueryAnswers, Others PROVE Held
    BY <1>5 DEF QueryAnswers, Others, Held
<1>6. CASE ReadRow
    <2>1. CASE QueryFails
        <3>1. request'.step = "static" /\ Stirred
            BY <1>0, <1>4, <1>6, <2>1 DEF ReadRow, TariffsRead
        <3>. QED
            BY <3>1
    <2>2. CASE ~QueryFails
        <3>1. /\ Held /\ request'.row = at[DayOf(now)]
              /\ request'.step = "month"
            BY <1>5, <1>6, <2>2 DEF ReadRow, TariffsRead
        <3>. QED
            BY <3>1 DEF ReadTrue
    <2>. QED
        BY <2>1, <2>2
<1>7. CASE ReadMonth
    <2>1. CASE QueryFails
        <3>1. request'.step = "static" /\ Stirred
            BY <1>0, <1>4, <1>7, <2>1 DEF ReadMonth, TariffsRead
        <3>. QED
            BY <3>1
    <2>2. CASE ~QueryFails
        <3>1. /\ Held /\ At("month") /\ request'.step = "static"
              /\ request'.row = request.row /\ request'.month = SumOfDays(0, LastDay)
            BY <1>5, <1>7, <2>2 DEF ReadMonth, TariffsRead
        <3>2. Quiet(TariffTTL) => request.row = at[DayOf(now)]
            BY <3>1, NotQuiet DEF RequestTrue, ReadTrue, At
        <3>. QED
            BY <3>1, <3>2 DEF ReadTrue, PageRead
    <2>. QED
        BY <2>1, <2>2
<1>8. CASE StaticStart
    <2>1. /\ Held /\ request # None /\ request.step = "static"
          /\ request'.row = request.row /\ request'.month = request.month
        BY <1>8 DEF StaticStart, vars, Held, At, MercuryRead
    <2>2. Quiet(TariffTTL) => PageRead(request'.row, request'.month)
        BY <2>1 DEF RequestTrue, ReadTrue
    <2>3. CASE now <= Moment(T0)
        <3>1. request'.step = "done"
            BY <1>8, <2>3 DEF StaticStart, MercuryRead
        <3>. QED
            BY <2>1, <2>2, <3>1 DEF ReadTrue
    <2>4. CASE ~(now <= Moment(T0))
        <3>0. now > Moment(T0)
            <4>1. now \in Nat /\ Moment(T0) \in Nat
                BY MomentType, ViewAssumption, TimesOf
            <4>. QED
                BY <2>4, <4>1
        <3>1. CASE StaticHit
            <4>1. /\ request'.step = "forecast" /\ request'.sum = static.sum
                  /\ request'.p0 = static.p0
                BY <1>8, <2>4, <3>1 DEF StaticStart, MercuryRead
            <4>. QED
                BY <2>1, <2>2, <3>0, <3>1, <4>1, FreshCaches DEF ReadTrue
        <3>2. CASE ~StaticHit
            <4>1. request'.step = "range"
                BY <1>8, <2>4, <3>2 DEF StaticStart, MercuryRead
            <4>. QED
                BY <2>1, <2>2, <3>0, <4>1 DEF ReadTrue
        <3>. QED
            BY <3>1, <3>2
    <2>. QED
        BY <2>3, <2>4
<1>9. CASE ReadRange
    <2>1. CASE QueryFails
        <3>1. request'.step = "done" /\ Stirred
            BY <1>0, <1>4, <1>9, <2>1 DEF ReadRange, MercuryRead
        <3>. QED
            BY <3>1
    <2>2. CASE ~QueryFails
        <3>1. /\ Held /\ At("range") /\ request'.step = "day0"
              /\ request'.row = request.row /\ request'.month = request.month
              /\ request'.sum = DaysSinceT0
            BY <1>5, <1>9, <2>2 DEF ReadRange, MercuryRead
        <3>2. now > Moment(T0) /\ (Quiet(TariffTTL) => PageRead(request.row, request.month))
            BY <3>1 DEF RequestTrue, ReadTrue, At
        <3>. QED
            BY <3>1, <3>2 DEF ReadTrue
    <2>. QED
        BY <2>1, <2>2
<1>10. CASE ReadDay0
    <2>1. CASE QueryFails
        <3>1. request'.step = "done" /\ Stirred
            BY <1>0, <1>4, <1>10, <2>1 DEF ReadDay0, MercuryRead
        <3>. QED
            BY <3>1
    <2>2. CASE ~QueryFails
        <3>1. /\ Held /\ At("day0") /\ request'.step = "forecast"
              /\ request'.row = request.row /\ request'.month = request.month
              /\ request'.sum = request.sum /\ request'.p0 = PartialDay0
            BY <1>5, <1>10, <2>2 DEF ReadDay0, MercuryRead, PartialDay0
        <3>2. now > Moment(T0) /\ (Quiet(TariffTTL) => PageRead(request.row, request.month))
              /\ (changed < now => request.sum = DaysSinceT0)
            BY <3>1 DEF RequestTrue, ReadTrue, At
        <3>. QED
            BY <3>1, <3>2, NotQuiet DEF ReadTrue
    <2>. QED
        BY <2>1, <2>2
<1>. QED
    BY <1>1, <1>2, <1>3, <1>6, <1>7, <1>8, <1>9, <1>10 DEF ViewNext, Writer, Request

LEMMA RequestTrueStep ==
    ASSUME TableTrue, Clocks, CacheTrue, StaticTrue, RequestTrue, [ViewNext]_allVars
    PROVE  RequestTrue'
<1>. SUFFICES ASSUME request' # None PROVE ReadTrue(request)'
    BY DEF RequestTrue
<1>1. CASE Stirred /\ (request'.step \in {"range", "day0", "forecast"} => now > Moment(T0))
    <2>1. ~(changed' < now') /\ ~Quiet(TariffTTL)' /\ ~Quiet(MercuryTTL)'
        <3>1. now' \in Nat /\ changed' = now' /\ now' = now
            BY <1>1, TimesOf DEF Stirred
        <3>. QED
            BY <3>1, ViewAssumption DEF Quiet
    <2>. QED
        BY <1>1, <2>1 DEF ReadTrue, Stirred, Moment, Offset
<1>2. CASE Held /\ ReadTrue(request')
    <2>1. /\ now' = now /\ changed' = changed
          /\ at'[DayOf(now')] = at[DayOf(now)]
          /\ SumOfDays(0, LastDay)' = SumOfDays(0, LastDay)
          /\ DaysSinceT0' = DaysSinceT0
          /\ PartialDay0' = PartialDay0
        BY <1>2, SameStill DEF Held
    <2>2. /\ Quiet(TariffTTL)' <=> Quiet(TariffTTL)
          /\ Quiet(MercuryTTL)' <=> Quiet(MercuryTTL)
          /\ PageRead(request.row, request.month)' <=> PageRead(request'.row, request'.month)
        BY <2>1 DEF Quiet, PageRead
    <2>. QED
        BY <1>2, <2>1, <2>2 DEF ReadTrue
<1>. QED
    BY <1>1, <1>2, RequestMoves

LEMMA SnapshotsStep ==
    ASSUME TableTrue, Snapshots, [ViewNext]_allVars
    PROVE  Snapshots'
<1>0. now \in Time
    BY DEF TableTrue, TypeOK
<1>1. CASE ViewPoll
    BY <1>0, <1>1 DEF ViewPoll, Poll, Snapshots, Samples
<1>2. CASE ViewBackfill \/ ViewRestart \/ ViewTick \/ UNCHANGED allVars
    BY <1>2 DEF ViewBackfill, ViewRestart, ViewTick, allVars, viewVars, Snapshots
<1>3. CASE Ask
    <2>1. cur \in Time /\ cur' = cur /\ request'.cur = cur
        <3>1. CASE Cached(now)
            BY <1>3, <3>1 DEF Ask, Snapshots, Samples
        <3>2. CASE ~Cached(now)
            BY <1>3, <3>2 DEF Ask, Snapshots, Samples
        <3>. QED
            BY <3>1, <3>2
    <2>. QED
        BY <2>1 DEF Snapshots, Samples
<1>4. CASE ReadRow \/ ReadMonth
    <2>1. request # None /\ cur' = cur
        BY <1>4 DEF ReadRow, ReadMonth, At, Others
    <2>2. request'.cur = request.cur
        BY <1>4 DEF ReadRow, ReadMonth, TariffsRead
    <2>. QED
        BY <2>1, <2>2 DEF Snapshots
<1>5. CASE StaticStart \/ ReadRange \/ ReadDay0
    <2>1. request # None /\ cur' = cur
        BY <1>5 DEF StaticStart, ReadRange, ReadDay0, At, Others
    <2>2. request'.cur = request.cur
        BY <1>5 DEF StaticStart, ReadRange, ReadDay0, MercuryRead
    <2>. QED
        BY <2>1, <2>2 DEF Snapshots
<1>. QED
    BY <1>1, <1>2, <1>3, <1>4, <1>5 DEF ViewNext, Writer, Request

\* A store no earlier than the boundary it is for keeps the others' times.
LEMMA StoresNotEarly ==
    ASSUME TableTrue, Clocks, NotEarly, [ViewNext]_allVars,
           NEW b \in Boundaries, NEW s, StoreBoundary(b, s),
           Moment(b) - Tol <= now, changed' = now
    PROVE  NotEarly'
<1>. SUFFICES ASSUME NEW c \in Boundaries, SampleOf(c)' # None
              PROVE  Moment(c) - Tol <= changed'
    BY DEF NotEarly, Moment, Offset
<1>1. now \in Nat /\ changed \in Nat /\ changed <= now /\ Tol \in Nat /\ Moment(c) \in Nat
    BY TimesOf, MomentType, ClockAssumption DEF Clocks
<1>2. CASE SampleOf(c)' = SampleOf(c)
    <2>1. Moment(c) - Tol <= changed
        BY <1>2 DEF NotEarly
    <2>. QED
        BY <1>1, <2>1
<1>3. CASE SampleOf(c)' # SampleOf(c)
    <2>1. c = b
        BY <1>3, StoreAt DEF SampleOf
    <2>. QED
        BY <2>1
<1>. QED
    BY <1>2, <1>3

LEMMA NotEarlyStep ==
    ASSUME TableTrue, Clocks, NotEarly, [ViewNext]_allVars
    PROVE  NotEarly'
<1>0. /\ now \in Nat /\ changed \in Nat /\ changed' \in Nat /\ changed <= changed'
      /\ Tol \in Nat /\ MinAge \in Nat
    BY TimesOf, ClockAssumption
<1>1. CASE UNCHANGED <<at, tariff>>
    <2>. SUFFICES ASSUME NEW c \in Boundaries, SampleOf(c)' # None
                  PROVE  Moment(c) - Tol <= changed'
        BY DEF NotEarly, Moment, Offset
    <2>1. Moment(c) \in Nat /\ Moment(c) - Tol <= changed
        BY <1>1, MomentType DEF NotEarly, SampleOf
    <2>. QED
        BY <1>0, <2>1
<1>2. CASE ~UNCHANGED <<at, tariff>>
    <2>1. ViewPoll \/ ViewBackfill
        BY <1>2 DEF ViewNext, Writer, Request, ViewRestart, Restart, ViewTick, Tick, Ask,
                    StaticStart, ReadRow, ReadMonth, ReadRange, ReadDay0, Others, allVars,
                    vars
    <2>2. now' = now
        BY <2>1 DEF ViewPoll, ViewBackfill, Poll, Backfill, BackfillStart, BackfillLook,
                    BackfillStore
    <2>3. changed' = now
        BY <1>2, <2>1, <2>2 DEF ViewPoll, ViewBackfill, Unless
    <2>4. CASE ViewPoll
        <3>1. PICK b \in Boundaries : Captures(b) /\ StoreBoundary(b, now)
            BY <1>2, <2>4 DEF ViewPoll, Poll
        <3>2. Moment(b) - Tol <= now
            BY <1>0, <3>1, MomentType DEF Captures, Dist
        <3>. QED
            BY <2>3, <3>1, <3>2, StoresNotEarly
    <2>5. CASE ViewBackfill
        <3>1. PICK b \in todo : StoreBoundary(b, picked)
            BY <1>2, <2>5 DEF ViewBackfill, Backfill, BackfillStart, BackfillLook,
                              BackfillStore
        <3>2. b \in Boundaries /\ now - Moment(b) >= MinAge
            BY DEF TableTrue, TypeOK, TooOld
        <3>3. Moment(b) - Tol <= now
            BY <1>0, <3>2, MomentType
        <3>. QED
            BY <2>3, <3>1, <3>2, <3>3, StoresNotEarly
    <2>. QED
        BY <2>1, <2>4, <2>5
<1>. QED
    BY <1>1, <1>2

LEMMA ViewStep == TableTrue /\ ViewInv /\ [ViewNext]_allVars => ViewInv'
BY ClocksStep, CacheTrueStep, StaticTrueStep, RequestTrueStep, SnapshotsStep, NotEarlyStep
   DEF ViewInv

\* What the page shows adds up to what the meter gained, whichever queries
\* failed, whatever the writers stored between them and however old the caches
\* are (apiCurrent, loadTariffData, mercuryStatic).
THEOREM PageAddsUpCorrect == ViewSpec => []PageAddsUp
<1>1. ViewInit => TableTrue /\ ViewInv
    BY TableTrueInit, ViewStart
<1>2. TableTrue /\ ViewInv /\ [ViewNext]_<<vars, viewVars>> => (TableTrue /\ ViewInv)'
    BY TableTrueStep, ViewStep DEF allVars
<1>3. TableTrue /\ ViewInv => PageAddsUp
    BY MonthCounts, ForecastCounts DEF TableTrue, PageAddsUp
<1>. QED
    BY <1>1, <1>2, <1>3, PTL DEF ViewSpec
=============================================================================
