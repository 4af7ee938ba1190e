----------------------------- MODULE BmsAlarms ------------------------------
(***************************************************************************)
(* Alarms of a battery in the history of errors, as the poller of the      *)
(* batteries writes them, and alarms of the MAP, as its own loop does.     *)
(*                                                                         *)
(* Both loops write a row when an alarm comes up, and remember in the      *)
(* process what is up.  Warnings of a battery flap: one that has a row in  *)
(* the last ten minutes gets no other.  A poll may see nothing of the      *)
(* device (a stale or missing snapshot, no active MAP), and PostgreSQL may *)
(* refuse the question as well as the row.                                 *)
(***************************************************************************)
EXTENDS Integers, FiniteSets

CONSTANTS
    Warns,       \* alarms of a battery that are warnings
    Protects,    \* alarms of a battery that are protections
    MapAlarms,   \* errors in the cells of the MAP
    Slots,       \* sources of the battery
    Window,      \* bmsWarnDedupWindow, in polls
    MaxRestarts, \* bound: restarts of the service
    MaxChanges,  \* bound: changes of the alarms
    None

BmsAlarm == Warns \cup Protects
Alarms   == BmsAlarm \cup MapAlarms

BmsAlarmsAssumption ==
    /\ Warns \cap Protects = {} /\ BmsAlarm \cap MapAlarms = {} /\ "map" \notin Slots
    /\ Window \in Nat \ {0} /\ MaxRestarts \in Nat /\ MaxChanges \in Nat
    /\ None \notin Nat

VARIABLES
    up,        \* devices: the alarms that each slot, or the MAP, shows
    changes,
    lastBms,   \* lastAlarms[serial]
    lastMap,   \* last, of runMapErrorPoll
    age,       \* polls since the newest row of an alarm (counted for warnings only,
               \* nothing asks it of the others), None without one
    told,      \* rows of an alarm since it came up or the process started (bound:
               \* counted to two)
    blind,     \* alarms whose question was refused in the poll of their last row
    hidden,    \* alarms that are up at a slot that a poll has missed alone
    restarts

vars == <<up, changes, lastBms, lastMap, age, told, blind, hidden, restarts>>

Sources == Slots \cup {"map"}
IsUp(a, u) == \E s \in Sources : a \in u[s]

-----------------------------------------------------------------------------
\* An alarm comes up or goes away at one of the sources.
Change(s, a) ==
    /\ changes < MaxChanges /\ changes' = changes + 1
    /\ a \in IF s = "map" THEN MapAlarms ELSE BmsAlarm
    /\ up' = [up EXCEPT ![s] = IF a \in @ THEN @ \ {a} ELSE @ \cup {a}]
    /\ IF IsUp(a, up) = IsUp(a, up')
       THEN UNCHANGED <<told, hidden>>
       ELSE told' = [told EXCEPT ![a] = 0] /\ hidden' = hidden \ {a}
    /\ UNCHANGED <<lastBms, lastMap, age, blind, restarts>>

\* The rows that a poll writes; the older rows of "aging" age.
Write(rows, aging) ==
    /\ age' = [a \in Alarms |-> IF a \in rows THEN 0
                                ELSE IF a \in aging /\ age[a] # None /\ age[a] <= Window
                                THEN age[a] + 1 ELSE age[a]]
    /\ told' = [a \in Alarms |-> IF a \in rows /\ IsUp(a, up) /\ told[a] < 2
                                 THEN told[a] + 1 ELSE told[a]]

\* pollAlarms: the union over the fresh snapshots of the battery.
Seen(seen) == UNION {up[s] : s \in seen}

\* Faulty variant: an alarm whose row was refused counts as written.
NextTrusts(cur, failed) == cur

\* next: what appeared and got no row is not remembered, and tried again.
NextAlarms(cur, failed) == cur \ failed

\* DeviceErrorSince says so.
HasRecentRow(a) == age[a] # None /\ age[a] + 1 <= Window

\* Faulty variant: every appearance of a warning is written.
NoDedup(cur, unasked) == {}

\* Warnings that appeared and have a recent row, as far as it could be asked.
Deduped(cur, unasked) == {a \in (cur \cap Warns) \ (lastBms \cup unasked) : HasRecentRow(a)}

\* runBms26Poll: a poll with fresh snapshots of the battery from "seen".
PollBms(seen, unasked, refused) ==
    LET cur  == Seen(seen)
        new  == cur \ (lastBms \cup Deduped(cur, unasked))
        rows == new \ refused
    IN  /\ seen # {}
        /\ lastBms' = NextAlarms(cur, new \cap refused)
        /\ Write(rows, Warns)
        /\ blind' = (blind \ rows) \cup (unasked \cap rows)
        /\ hidden' = hidden \cup {a \in BmsAlarm \ cur : IsUp(a, up)}
        /\ UNCHANGED <<up, changes, lastMap, restarts>>

\* Faulty variant: what is not seen is taken for gone.
PollNothingForgets ==
    /\ Write({}, Warns)
    /\ lastBms' = {}
    /\ UNCHANGED <<up, changes, lastMap, blind, hidden, restarts>>

\* A poll without a fresh snapshot: nothing is forgotten, time passes.
PollNothing ==
    /\ Write({}, Warns)
    /\ UNCHANGED <<up, changes, lastBms, lastMap, blind, hidden, restarts>>

\* runMapErrorPoll: the cells were read.  When they were not, or no MAP is
\* active, nothing is forgotten: a stuttering step.
PollCells(refused) ==
    LET new == up["map"] \ lastMap
    IN  /\ lastMap' = NextAlarms(up["map"], new \cap refused)
        /\ Write(new \ refused, {})
        /\ UNCHANGED <<up, changes, lastBms, blind, hidden, restarts>>

-----------------------------------------------------------------------------
Zero == [a \in Alarms |-> 0]

Restart ==
    /\ restarts < MaxRestarts /\ restarts' = restarts + 1
    /\ lastBms' = {} /\ lastMap' = {} /\ told' = Zero
    /\ UNCHANGED <<up, changes, age, blind, hidden>>

Init ==
    /\ up = [s \in Sources |-> {}] /\ changes = 0
    /\ lastBms = {} /\ lastMap = {}
    /\ age = [a \in Alarms |-> None] /\ told = Zero /\ blind = {} /\ hidden = {}
    /\ restarts = 0

Next ==
    \/ \E s \in Sources, a \in Alarms : Change(s, a)
    \/ \E seen \in SUBSET Slots, unasked \in SUBSET Warns, refused \in SUBSET BmsAlarm :
          PollBms(seen, unasked, refused)
    \/ PollNothing
    \/ \E refused \in SUBSET MapAlarms : PollCells(refused)
    \/ Restart

Spec == Init /\ [][Next]_vars

-----------------------------------------------------------------------------
TypeOK ==
    /\ up \in [Sources -> SUBSET Alarms] /\ changes \in 0..MaxChanges
    /\ lastBms \subseteq BmsAlarm /\ lastMap \subseteq MapAlarms
    /\ age \in [Alarms -> 0..(Window + 1) \cup {None}]
    /\ told \in [Alarms -> 0..2] /\ blind \subseteq Warns /\ hidden \subseteq BmsAlarm
    /\ restarts \in 0..MaxRestarts

(* An alarm that lasts has one row, through polls that see nothing, refused *)
(* rows and changes of other alarms; only one that is up at a slot missed   *)
(* by a poll that saw its twin may get another.                             *)
OncePerEpisode == \A a \in Alarms \ hidden : told[a] <= 1

(* What is remembered as up has a row: an alarm is never silenced by a row  *)
(* that PostgreSQL refused.                                                 *)
RememberedHasRow == \A a \in lastBms \cup lastMap : age[a] # None

(* Rows of one flapping warning are a window apart, through restarts, too,  *)
(* unless PostgreSQL could not be asked for the last one.                   *)
WarnsAreSpaced ==
    \A a \in Warns : told'[a] > told[a] =>
        age[a] = None \/ age[a] + 1 > Window \/ a \in blind'

(* An alarm has its row, once, and a flapping one not too many.             *)
AlarmsHaveRows == [][OncePerEpisode' /\ RememberedHasRow' /\ WarnsAreSpaced]_vars
=============================================================================
