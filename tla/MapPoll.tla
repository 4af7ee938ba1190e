------------------------------ MODULE MapPoll -------------------------------
(***************************************************************************)
(* The loop that reads the MAP and the charge controllers (KES) from the   *)
(* Malina26 server: the snapshot of the MAP completed from the one before, *)
(* the controllers that are shown, and the "no data" rows in the history   *)
(* of errors.                                                              *)
(*                                                                         *)
(* A cycle reads the MAP and the controllers and ends with the removal of  *)
(* the controllers that have gone.  Any write to Redis or PostgreSQL may   *)
(* fail, and one that Redis has applied may look as if it had failed; what *)
(* the loop remembers is in the process.  Time is counted in cycles.       *)
(***************************************************************************)
EXTENDS Integers, FiniteSets

CONSTANTS
    Controllers,
    Labelled,     \* the controllers whose entry of the list names the serial
    Kept,         \* tags that mergeMAPSnap completes
    Passing,      \* tags that it does not
    Values,
    Delay,        \* mapNoDataLogAfter, in cycles
    Tolerance,    \* mpptEmptyTolerance
    MaxRestarts,  \* bound: restarts of the service
    None

Devices   == {"map"} \cup Controllers
Tags      == Kept \cup Passing
Snapshots == [Tags -> Values \cup {None}]

MapPollAssumption ==
    /\ IsFiniteSet(Controllers) /\ Labelled \subseteq Controllers
    /\ "map" \notin Controllers /\ None \notin Values \cup Nat \cup Snapshots
    /\ Delay \in Nat \ {0} /\ Tolerance \in Nat \ {0} /\ MaxRestarts \in Nat

VARIABLES
    turn,      \* the part of the cycle that is next
    mapWin,    \* redisStore.mapWin: the last snapshot saved, None before
    mapShown,  \* redis sunreceiver:map:current
    measured,  \* of a kept tag, the newest measurement this process has saved with
               \* an acknowledgement
    unsure,    \* of a kept tag, the measurement in the snapshot that is shown if its
               \* save was not acknowledged; else None
    empty,     \* mpptPollState.empty, at most Tolerance
    kesShown,  \* redis sunreceiver:kes:current: the controllers shown
    missed,    \* answers without a controller, in a row, with Redis at work
    failing,   \* failingSince: cycles since then, at most Delay; None when zero
    logged,    \* noDataLogged
    silent,    \* cycles without data of a device, at most Delay
    rows,      \* acknowledged "no_data" rows since a device last had data
    restarts

mapVars == <<mapWin, mapShown, measured, unsure>>
kesVars == <<empty, kesShown, missed>>
errVars == <<failing, logged, silent, rows>>
vars    == <<turn, mapVars, kesVars, errVars, restarts>>

NoTag   == [t \in Tags |-> None]
NotKept == [t \in Kept |-> None]
Cap(n, limit) == IF n > limit THEN limit ELSE n

-----------------------------------------------------------------------------
(* The history of errors.                                                  *)

\* failure: the first failure starts the episode.
Since(d) == IF failing[d] = None THEN 0 ELSE failing[d]

\* Faulty variant: a device that is silent for a moment is written, too.
AtOnce(d) == ~logged[d]

\* Faulty variant: a row for every cycle of a long silence.
Ever(d) == Since(d) >= Delay

\* failure(.., "no_data", ..): once, after Delay without data.
Due(d) == ~logged[d] /\ Since(d) >= Delay

\* markLogged: only what PostgreSQL has taken counts as written.
Written(bad, refused) == {d \in bad : Due(d)} \ refused

\* The devices of "bad" had no data in this cycle, those of "good" had: failure
\* and markLogged, or clear.
Account(good, bad, refused) ==
    LET written == Written(bad, refused)
    IN  /\ failing' = [d \in Devices |-> IF d \in good THEN None
                                         ELSE IF d \in bad THEN Since(d) ELSE failing[d]]
        /\ logged' = [d \in Devices |-> d \notin good /\ (logged[d] \/ d \in written)]
        /\ silent' = [d \in Devices |-> IF d \in good THEN 0 ELSE silent[d]]
        /\ rows' = [d \in Devices |-> IF d \in good THEN 0
                                      ELSE IF d \in written THEN rows[d] + 1 ELSE rows[d]]

-----------------------------------------------------------------------------
(* The MAP.                                                                *)

\* mergeMAPSnap
Merge(values) ==
    [t \in Tags |-> IF values[t] = None /\ t \in Kept /\ mapWin # None THEN mapWin[t] ELSE values[t]]

\* Faulty variant: the snapshot is remembered before Redis has acknowledged it.
RememberUnsaved(values) ==
    /\ mapWin' = Merge(values)
    /\ mapShown' = Merge(values)
    /\ unsure' = [t \in Kept |-> values[t]]
    /\ UNCHANGED measured

\* Faulty variant: what is remembered is the snapshot as it arrived.
RememberRaw(values) == values

\* The snapshot that mapWin remembers after a save.
Remembered(values) == Merge(values)

\* saveMapSnapshot: completed, shown and remembered.
SaveMap(values) ==
    /\ mapWin' = Remembered(values)
    /\ mapShown' = Merge(values)
    /\ measured' = [t \in Kept |-> IF values[t] # None THEN values[t] ELSE measured[t]]
    /\ unsure' = NotKept

\* saveMapSnapshot when Exec returns an error although Redis has applied the
\* snapshot (TS.ADD fails inside MULTI, or the answer is lost): it is shown but
\* not remembered.
SaveMapFails(values) ==
    /\ mapShown' = Merge(values)
    /\ unsure' = [t \in Kept |-> values[t]]
    /\ UNCHANGED <<mapWin, measured>>

\* saveWindowSnapshot with a snapshot: saved, applied without being
\* acknowledged, or refused by Redis.
PollMap(values) ==
    /\ turn = "map" /\ turn' = "kes"
    /\ SaveMap(values) \/ SaveMapFails(values) \/ UNCHANGED mapVars
    /\ Account({"map"}, {}, {})
    /\ UNCHANGED <<kesVars, restarts>>

\* The MAP is not found, does not answer or has no voltage yet.
PollMapFails(refused) ==
    /\ turn = "map" /\ turn' = "kes"
    /\ Account({}, {"map"}, refused)
    /\ UNCHANGED <<mapVars, kesVars, restarts>>

-----------------------------------------------------------------------------
(* The controllers.                                                        *)

\* Faulty variant: the serial is taken from the payload only.
NamedByPayload(listed, good) == good

\* The controllers with a UID: from the payload, else from the list.
Named(listed, good) == good \cup (listed \cap Labelled)

\* Faulty variant: the count of empty answers must exceed the tolerance.
PruneLate(listed) == listed # {} \/ empty + 1 > Tolerance

\* shouldPrune
ShouldPrune(listed) == listed # {} \/ empty + 1 >= Tolerance

\* PruneMPPT: what leaves the display.
Gone(shown, active) == shown \ active

\* saveKesSnapshot: those that Redis has taken are shown.
ShownWith(saved) == kesShown \cup saved

\* FetchKES answers: each controller of good is saved unless Redis refuses it;
\* then PruneMPPT, unless Redis refuses that.
PollKes(listed, good, saved, pruned, refused) ==
    LET active == Named(listed, good)
        gone   == IF ShouldPrune(listed) /\ pruned THEN Gone(ShownWith(saved), active) ELSE {}
    IN  /\ turn = "kes" /\ turn' = "end"
        /\ empty' = IF listed = {} THEN Cap(empty + 1, Tolerance) ELSE 0
        /\ kesShown' = ShownWith(saved) \ gone
        /\ missed' = [d \in Controllers |-> IF d \in listed \/ ~pruned THEN 0
                                            ELSE Cap(missed[d] + 1, Tolerance)]
        /\ Account(good, active \ good, refused)
        /\ UNCHANGED <<mapVars, restarts>>

\* The list of controllers cannot be read.
PollKesFails ==
    /\ turn = "kes" /\ turn' = "end"
    /\ UNCHANGED <<mapVars, kesVars, errVars, restarts>>

-----------------------------------------------------------------------------
\* The time to the next cycle.
Tick ==
    /\ turn = "end" /\ turn' = "map"
    /\ failing' = [d \in Devices |-> IF failing[d] = None THEN None ELSE Cap(failing[d] + 1, Delay)]
    /\ silent' = [d \in Devices |-> Cap(silent[d] + 1, Delay)]
    /\ UNCHANGED <<mapVars, kesVars, logged, rows, restarts>>

Nobody(D, x) == [d \in D |-> x]

Init ==
    /\ turn = "map" /\ restarts = 0
    /\ mapWin = None /\ mapShown = NoTag /\ measured = NotKept /\ unsure = NotKept
    /\ empty = 0 /\ kesShown = {} /\ missed = Nobody(Controllers, 0)
    /\ failing = Nobody(Devices, None) /\ logged = Nobody(Devices, FALSE)
    /\ silent = Nobody(Devices, 0) /\ rows = Nobody(Devices, 0)

\* A stop or a crash, and a start.
Restart ==
    /\ restarts < MaxRestarts /\ restarts' = restarts + 1
    /\ turn' = "map"
    /\ mapWin' = None /\ measured' = NotKept /\ unsure' = NotKept
    /\ empty' = 0 /\ missed' = Nobody(Controllers, 0)
    /\ failing' = Nobody(Devices, None) /\ logged' = Nobody(Devices, FALSE)
    /\ silent' = Nobody(Devices, 0) /\ rows' = Nobody(Devices, 0)
    /\ UNCHANGED <<mapShown, kesShown>>

Next ==
    \/ \E values \in [Tags -> Values \cup {None}] : PollMap(values)
    \/ \E refused \in SUBSET {"map"} : PollMapFails(refused)
    \/ \E listed \in SUBSET Controllers : \E good \in SUBSET listed : \E saved \in SUBSET good :
          \E pruned \in BOOLEAN, refused \in SUBSET (listed \ good) :
             PollKes(listed, good, saved, pruned, refused)
    \/ PollKesFails
    \/ Tick
    \/ Restart

Spec == Init /\ [][Next]_vars

-----------------------------------------------------------------------------
TypeOK ==
    /\ turn \in {"map", "kes", "end"}
    /\ mapWin \in Snapshots \cup {None} /\ mapShown \in Snapshots
    /\ {measured, unsure} \subseteq [Kept -> Values \cup {None}]
    /\ empty \in 0..Tolerance /\ kesShown \subseteq Controllers
    /\ missed \in [Controllers -> 0..Tolerance]
    /\ failing \in [Devices -> 0..Delay \cup {None}] /\ logged \in [Devices -> BOOLEAN]
    /\ silent \in [Devices -> 0..Delay] /\ rows \in [Devices -> 0..1]
    /\ restarts \in 0..MaxRestarts

(* However the gate drops blocks of cells and Redis refuses snapshots, a    *)
(* kept tag is shown with its newest acknowledged measurement, and is not   *)
(* lost again while the process lives.  A save that Redis has applied       *)
(* without acknowledging it shows what it measured; the next save that does *)
(* not measure the tag goes back to the older, acknowledged measurement.    *)
KeptTagsAreNewest ==
    mapWin # None => \A t \in Kept :
        /\ mapWin[t] = measured[t]
        /\ mapShown[t] = IF unsure[t] # None THEN unsure[t] ELSE measured[t]

(* "No data" is written only when the whole delay passed without any data,  *)
(* so that short failures of the bus stay out of the history.               *)
SilenceIsReal == [][\A d \in Devices : rows'[d] > rows[d] => silent[d] >= Delay]_vars

(* An answer without controllers, or a failing controller, removes nothing  *)
(* by itself: only one that is not listed goes, and after empty answers     *)
(* only when Tolerance of them came in a row.                               *)
ListedControllersStay ==
    \A d \in kesShown \ kesShown' :
        /\ missed'[d] > 0 \/ d \notin Labelled
        /\ empty' \in {0, Tolerance}

(* A controller that has gone is not shown for longer than Tolerance        *)
(* answers in a row whose removal Redis did not refuse.                     *)
GoneControllersLeave == \A d \in kesShown : missed[d] < Tolerance

(* What is shown of the MAP and the controllers is what they last gave, as  *)
(* far as Redis has acknowledged it.                                        *)
ShownIsTrue ==
    [][KeptTagsAreNewest' /\ GoneControllersLeave' /\ ListedControllersStay]_vars
=============================================================================
