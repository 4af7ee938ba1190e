----------------------------- MODULE MCPollers ------------------------------
(***************************************************************************)
(* The pollers of the Malina26 server, each on a small instance.  They run *)
(* side by side in the service but share no state, so a behaviour of this  *)
(* module is a behaviour of one of them, chosen in the initial state: the  *)
(* grid inverters, the MAP with its controllers, the batteries, or the     *)
(* alarms of batteries and MAP.                                            *)
(***************************************************************************)
EXTENDS GridPoll, TLC

CONSTANTS
    Controllers, Labelled, Kept, Passing, Values, Delay, Tolerance,   \* MapPoll
    Ids, Batteries, SerialOf, Step, MaxTime, BackoffMax,              \* Bms26
    Warns, Protects, MapAlarms, Slots, Window, MaxAlarmChanges,       \* BmsAlarms
    None

VARIABLES
    poller,  \* the one that runs
    turn, mapWin, mapShown, measured, unsure, empty, kesShown, missed, failing, logged,
    silent, rows, mapRestarts,
    clock, phase, ticked, snaps, listRetry, devFail, open, pending, averages, shown,
    added, lost, bmsRestarts,
    up, alarmChanges, lastBms, lastMap, age, toldBms, blind, hidden, alarmRestarts

gridVars  == <<seen, codes, changes, docs, active, polling, lastSeen, warned, lastAlarms,
               series, current, history, skipped, copies, told, f35, restarts>>
mapVars   == <<turn, mapWin, mapShown, measured, unsure, empty, kesShown, missed, failing,
               logged, silent, rows, mapRestarts>>
bmsVars   == <<clock, phase, ticked, snaps, listRetry, devFail, open, pending, averages,
               shown, added, lost, bmsRestarts>>
alarmVars == <<up, alarmChanges, lastBms, lastMap, age, toldBms, blind, hidden, alarmRestarts>>

M == INSTANCE MapPoll WITH restarts <- mapRestarts

Bms == INSTANCE Bms26 WITH
        Serials <- Batteries, Len <- Step, current <- shown, restarts <- bmsRestarts

A == INSTANCE BmsAlarms WITH
        MaxChanges <- MaxAlarmChanges,
        changes <- alarmChanges, told <- toldBms, restarts <- alarmRestarts

\* Two slots that share a serial number.
MCSerialOf == [i \in {1, 2} |-> "a"]

ASSUME PollersAssumption == M!MapPollAssumption /\ Bms!Bms26Assumption /\ A!BmsAlarmsAssumption

PollersInit ==
    /\ poller \in {"grid", "map", "bms", "alarms"}
    /\ Init /\ M!Init /\ Bms!Init /\ A!Init

PollersNext ==
    \/ poller = "grid" /\ Next /\ UNCHANGED <<poller, mapVars, bmsVars, alarmVars>>
    \/ poller = "map" /\ M!Next /\ UNCHANGED <<poller, gridVars, bmsVars, alarmVars>>
    \/ poller = "bms" /\ Bms!Next /\ UNCHANGED <<poller, gridVars, mapVars, alarmVars>>
    \/ poller = "alarms" /\ A!Next /\ UNCHANGED <<poller, gridVars, mapVars, bmsVars>>

PollersSpec == PollersInit /\ [][PollersNext]_<<poller, gridVars, mapVars, bmsVars, alarmVars>>

\* The two values of a cell may be swapped.
Symmetry == Permutations(Values)

\* The types of the four.
TypesOK == TypeOK /\ M!TypeOK /\ Bms!TypeOK /\ A!TypeOK

\* "No data" is written only after the whole delay without data.
SilenceIsReal == M!SilenceIsReal

\* A kept tag is shown with its newest acknowledged measurement; a controller that
\* has gone leaves the display in time, one that is listed does not.
ShownIsTrue == M!ShownIsTrue

\* Every point of a battery that was read is in exactly one place, rows are
\* written once, what is shown was averaged, back-offs end.
PointsBecomeRows == Bms!PointsBecomeRows

\* An alarm of a battery or the MAP that lasts has one row, and is not
\* silenced by one that was refused; rows of a flapping warning are spaced.
AlarmsHaveRows == A!AlarmsHaveRows
=============================================================================
