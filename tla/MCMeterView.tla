---------------------------- MODULE MCMeterView ----------------------------
(***************************************************************************)
(* A small instance of TariffView: two days of 12 ticks with boundaries at *)
(* 0, 4 and 8.  The writers with their faults and the page with its caches *)
(* are not mixed (what the page shows after a lost point of Redis is no    *)
(* question): a behaviour is of one mode, chosen in its initial state.     *)
(***************************************************************************)
EXTENDS TariffView

VARIABLE mode

modeVars == <<vars, viewVars, mode>>

\* One register climbs a unit per tick, the other stands still at night.
Climb == [t \in Time |-> t]
Dusk  == [t \in Time |-> IF t % DayLen < DayStart THEN t \div DayLen
                         ELSE t \div DayLen + 1]
\* The meter is replaced by one that starts from zero.
Replaced == [t \in Time |-> IF t < DayEnd THEN 5 + t ELSE t - DayEnd]

Steady   == [import |-> Climb, export |-> Dusk]
AllLoads == {Steady, [import |-> Replaced, export |-> Dusk]}

\* BOUND: when the meter may answer, in each mode.
PagePolls   == {0, 4, 8, 11, 13, 16, 20}
WriterPolls == {0, 3, 10, 13, 16, 20, 23}
AllPolls    == PagePolls \cup WriterPolls

Evening == <<0, "2300">>

ModeInit ==
    /\ ViewInit
    /\ mode \in {"page", "writers"}
    /\ mode = "page" => load = Steady

\* While the page is open, the only faults are restarts and failed queries of
\* the page; while the writers' calls fail, the meter is not replaced.
NoWriterFault == mode = "page" \/ load # Steady => faults' = faults

ModePoll ==
    /\ mode = "page" => now \in PagePolls
    /\ mode = "writers" => now \in WriterPolls
    /\ ViewPoll /\ NoWriterFault /\ UNCHANGED mode

ModeBackfill == ViewBackfill /\ NoWriterFault /\ UNCHANGED mode

\* BOUND: where the meter has answered near a boundary before the clock goes
\* on.  The page needs them all: without one there is no account to compare
\* what it shows with.
Answers == IF mode = "page" THEN {0, 4, 8, 13, 16, 20} ELSE {0, 16, 20}

ModeTick ==
    /\ now \in Answers =>
          \E b \in Boundaries : Dist(now, Moment(b)) <= Tol /\ best[b] # None
    /\ ViewTick /\ UNCHANGED mode

\* BOUND: with the page a restart is of interest once there is a cache to lose.
ModeRestart ==
    /\ mode = "page" => cache # None
    /\ ViewRestart /\ UNCHANGED mode

ModeRequest == mode = "page" /\ Request /\ UNCHANGED mode

ModeNext == ModePoll \/ ModeBackfill \/ ModeTick \/ ModeRestart \/ ModeRequest

\* The clock and the goroutine of the backfill go on, as in FairSpec; the
\* meter need not answer, and nobody need open the page.
ModeSpec ==
    /\ ModeInit /\ [][ModeNext]_modeVars
    /\ WF_modeVars(ModeTick) /\ WF_modeVars(ModeBackfill)
=============================================================================
