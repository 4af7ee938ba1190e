----------------------------- MODULE MCHistory ------------------------------
(***************************************************************************)
(* The history on its way to the tables and back, each half on a small     *)
(* instance: the restoration of an emptied Redis by two instances of the   *)
(* service, where the points of a device are one; and the rows themselves, *)
(* averaged, put back and averaged again, where the moments are one.  A    *)
(* behaviour of this module is a behaviour of one half, chosen in the      *)
(* initial state.                                                          *)
(***************************************************************************)
EXTENDS Restore, TLC

CONSTANTS Appliances, Brands, Own, Merged, Step, Last, LastSecond, Load, Count, Rounds,
          Lossy, MaxGaps, Failing, MaxStarts  \* AverageRows

VARIABLES
    half,
    now, points, window, rows, restored, gaps, starts, backfilling  \* AverageRows

restoreVars == <<history, live, lock, marker, pc, empty, queue, queried, complete, dropped,
                 overdue, faults>>
rowsVars    == <<now, points, window, rows, restored, gaps, starts, backfilling>>

\* Two inverters of different brands with one serial number, the DTS017M and
\* the MAP, over two buckets of two moments, the last of them in its last second.
Deye  == [kind |-> "deye", key |-> "s"]
Sofar == [kind |-> "sofar", key |-> "s"]
Dts   == [kind |-> "dts017m", key |-> "dts017m"]
Map   == [kind |-> "map", key |-> "map"]
Four  == {Deye, Sofar, Dts, Map}
MCRounds == {Four, {Deye}}
MCLossy   == {<<Map, "power">>, <<Deye, "energy">>}
MCFailing == {<<Map, 0>>, <<Deye, 1>>}
MCLoad  == [d \in Four |-> [t \in 0..4 |->
               IF d = Deye THEN 100 + 7 * t ELSE IF d = Sofar THEN 300
               ELSE IF d = Dts THEN 13 * (t % 3) ELSE 200 - 30 * t]]
MCCount == [d \in Four |-> [t \in 0..4 |-> IF d = Deye THEN 500 + t * t ELSE 17 * t]]

R == INSTANCE AverageRows WITH
        Devices <- Appliances, redis <- points

ASSUME HistoryAssumption == R!AverageRowsAssumption

\* The two instances are alike.
Alike == Permutations(Procs)

HistoryInit == half \in {"restore", "rows"} /\ Init /\ R!Init

HistoryNext ==
    \/ half = "restore" /\ Next /\ UNCHANGED <<half, rowsVars>>
    \/ half = "rows" /\ R!Next /\ UNCHANGED <<half, restoreVars>>
    \/ half = "rows" /\ now = (Last + 1) * Step /\ UNCHANGED <<half, restoreVars, rowsVars>>  \* the end

HistorySpec == HistoryInit /\ [][HistoryNext]_<<half, restoreVars, rowsVars>>

\* The types of both halves.
TypesOK == TypeOK /\ R!TypeOK

\* A row of averages tells only of its own device and bucket, and stays what
\* it was when it is restored and averaged again.
RowsStayTrue == R!RowsStayTrue
=============================================================================
