------------------------------ MODULE MCPanel ------------------------------
(***************************************************************************)
(* Three parts behind the panel of the page, each on a small instance: the *)
(* relay controller with its orders on the wire, the decisions that set    *)
(* it, and the requests of the charts.  They share no state but the        *)
(* desired states of the lamps, which the decisions write and the          *)
(* controller reads, from any hand; so a behaviour of this module is a     *)
(* behaviour of one part, chosen in the initial state; the others rest.    *)
(***************************************************************************)
EXTENDS RelayControl

CONSTANTS Requests, Periods, TTL, FlightMax, MaxTime

VARIABLES
    part,
    setting, meter, map, decision, \* IndicatorLamps
    now, pc, period, came, began, leader, source, flight, outlived  \* LoadRange

relayVars     == <<desired, blinkOn, lastCmd, age, cursor, tickHolds, callHolds, relay>>
indicatorVars == <<setting, meter, map, decision>>
chartVars     == <<now, pc, period, came, began, leader, source, flight, outlived>>
panelVars     == <<part, relayVars, indicatorVars, chartVars>>

\* Both devices configured; every view of the two snapshots.
I == INSTANCE IndicatorLamps WITH MeterEnabled <- TRUE, MapEnabled <- TRUE, desired <- setting

C == INSTANCE LoadRange

ASSUME PanelAssumption == I!IndicatorAssumption /\ C!LoadRangeAssumption

\* Two periods that begin at one moment.
Spans == {<<0, 1>>, <<0, 2>>}

PanelInit ==
    /\ part \in {"relay", "indicator", "charts"}
    /\ Init /\ I!Init /\ C!Init
    /\ part # "relay" => relay = desired
    /\ part # "indicator" => meter = [power |-> "gone", volts |-> FALSE] /\ map = "gone"
    /\ part = "charts" => \A l \in Lamps : desired[l] = "off" /\ relay[l] = "off"
    /\ \A r \in Requests : period[r] = <<0, 1>>

RelayAlone     == part = "relay" /\ UNCHANGED <<part, indicatorVars, chartVars>>
IndicatorAlone == part = "indicator" /\ UNCHANGED <<part, relayVars, chartVars>>
ChartsAlone    == part = "charts" /\ UNCHANGED <<part, relayVars, indicatorVars>>

\* BOUND: the requests are alike: they come in the order of their numbers.
ChartsNext ==
    /\ ChartsAlone /\ C!Next
    /\ \A r \in Requests : pc[r] = "new" /\ pc'[r] # "new" =>
          \A q \in Requests : q < r => pc[q] # "new"

\* BOUND: where the clock stops every request may have been handled.
ChartsAtRest == ChartsAlone /\ now = MaxTime /\ UNCHANGED chartVars

PanelNext ==
    \/ RelayAlone /\ Next
    \/ IndicatorAlone /\ I!Next
    \/ ChartsNext
    \/ ChartsAtRest

\* The fairness of each part, while it is the one that runs.
PanelSpec ==
    /\ PanelInit /\ [][PanelNext]_panelVars
    /\ WF_panelVars(RelayAlone /\ Tick)
    /\ \A a \in Callers :
          WF_panelVars(RelayAlone /\ \E ok \in BOOLEAN : CallerSend(a, ok))
    /\ \A o \in Orders : SF_panelVars(RelayAlone /\ Arrival(o))
    /\ WF_panelVars(IndicatorAlone /\ I!DecideRed)
    /\ WF_panelVars(IndicatorAlone /\ I!ReadMap)
    /\ WF_panelVars(IndicatorAlone /\ I!ReadMeter)
    /\ \A l \in I!Lamps : WF_panelVars(IndicatorAlone /\ I!ApplyDecision(l))
    /\ WF_panelVars(ChartsAlone /\ C!Tick)
    /\ \A r \in Requests :
          WF_panelVars(ChartsAlone /\ (C!TakeAnswer(r) \/ C!ReadItself(r)))

\* The types of the three parts.
TypesOK == TypeOK /\ I!TypeOK /\ C!TypeOK

\* A lasting state of the grid is shown by both lamps again and again,
\* whatever decision was under way and whatever an operator sets.
LampsShowGrid == part = "indicator" => I!LampsShowGrid

\* An answer is of its period, of a read younger than TTL when the request
\* came; one leader reads a period while no read lasts for TTL.
AnswersServe == C!AnswersServe

\* No request waits for ever for another's read.
WaitsEnd == part = "charts" => C!WaitsEnd
=============================================================================
