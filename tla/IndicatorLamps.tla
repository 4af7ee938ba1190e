--------------------------- MODULE IndicatorLamps ---------------------------
(***************************************************************************)
(* The decisions behind the indicator lamps: every two seconds the red     *)
(* lamp's controller decides from the meter's snapshot in Redis whether    *)
(* energy is exported, the white lamp's controller from the inverter's and *)
(* the meter's snapshots whether the grid has voltage.  The white decision *)
(* reads two snapshots one after the other, and either snapshot changes    *)
(* between a read and the call that applies the decision.  An operator may *)
(* override a lamp over HTTP at any time.  What SetLampByName does beyond  *)
(* the desired state is the subject of RelayControl.                       *)
(***************************************************************************)
EXTENDS Integers

CONSTANTS MeterEnabled,   \* meterCfg # nil
          MapEnabled,     \* mapIP # ""
          None

IndicatorAssumption ==
    /\ MeterEnabled \in BOOLEAN /\ MapEnabled \in BOOLEAN
    /\ None \notin {"off", "on", "blink", "ask meter"}

States == {"off", "on", "blink"}
Lamps  == {"white", "red"}

\* What a snapshot tells a controller: "gone" when it is missing, unreadable
\* or older than the window; else the sign of the power ("none" without the
\* tag) and whether the voltage exceeds the threshold.
MeterViews == [power : {"gone", "export", "import", "none"}, volts : BOOLEAN]
MapViews == {"gone", "volts", "dead"}

VARIABLES
    desired,   \* relayController.desired, by lamp name
    meter,     \* the meter's snapshot as a reader sees it now
    map,       \* the inverter's
    decision   \* what a lamp's controller has decided and not yet applied

vars == <<desired, meter, map, decision>>

-----------------------------------------------------------------------------
\* Faulty variant: the sign of the power is taken the wrong way round.
RedWrongSign(m) ==
    IF ~MeterEnabled THEN "off"
    ELSE CASE m.power \in {"gone", "none"} -> "blink"
           [] m.power = "import" -> "on"
           [] m.power = "export" -> "off"

\* redLampDecision
RedLampDecision(m) ==
    IF ~MeterEnabled THEN "off"
    ELSE CASE m.power \in {"gone", "none"} -> "blink"
           [] m.power = "import" -> "off"
           [] m.power = "export" -> "on"

\* Faulty variant: the meter is never asked.
MapAlwaysDecides(v) == MapEnabled \/ v \in MapViews

\* whiteLampDecision, when the inverter's snapshot decides alone ...
MapDecides(v) == ~MapEnabled \/ v \in {"gone", "volts"} \/ ~MeterEnabled

MapDecision(v) == IF MapEnabled /\ v = "volts" THEN "on" ELSE "off"

\* ... and when the meter's is read after it.
MeterDecision(m) == IF m.power = "gone" THEN "off"
                    ELSE IF m.volts THEN "blink" ELSE "off"

WhiteLampDecision(v, m) == IF MapDecides(v) THEN MapDecision(v)
                           ELSE MeterDecision(m)

-----------------------------------------------------------------------------
DecideRed ==
    /\ decision["red"] = None
    /\ decision' = [decision EXCEPT !["red"] = RedLampDecision(meter)]
    /\ UNCHANGED <<desired, meter, map>>

ReadMap ==
    /\ decision["white"] = None
    /\ decision' = [decision EXCEPT !["white"] =
                       IF MapDecides(map) THEN MapDecision(map) ELSE "ask meter"]
    /\ UNCHANGED <<desired, meter, map>>

ReadMeter ==
    /\ decision["white"] = "ask meter"
    /\ decision' = [decision EXCEPT !["white"] = MeterDecision(meter)]
    /\ UNCHANGED <<desired, meter, map>>

\* SetLampByName; setting what is set already is a no-op.
ApplyDecision(l) ==
    /\ decision[l] \in States
    /\ desired' = [desired EXCEPT ![l] = decision[l]]
    /\ decision' = [decision EXCEPT ![l] = None]
    /\ UNCHANGED <<meter, map>>

\* Faulty variant: the state of the request is not checked.
OverrideUnchecked ==
    /\ \E l \in Lamps, st \in States \cup {"dim"} :
          desired' = [desired EXCEPT ![l] = st]
    /\ UNCHANGED <<meter, map, decision>>

\* apiRelay, POST
Override ==
    /\ \E l \in Lamps, st \in States : desired' = [desired EXCEPT ![l] = st]
    /\ UNCHANGED <<meter, map, decision>>

\* The pollers save a snapshot, or the last one grows stale.
SnapshotChanges ==
    /\ \/ meter' \in MeterViews /\ map' = map
       \/ map' \in MapViews /\ meter' = meter
    /\ UNCHANGED <<desired, decision>>

Init ==
    /\ desired = [l \in Lamps |-> "off"]
    /\ meter \in MeterViews /\ map \in MapViews
    /\ decision = [l \in Lamps |-> None]

Controllers == DecideRed \/ ReadMap \/ ReadMeter \/ \E l \in Lamps : ApplyDecision(l)

Next == Controllers \/ Override \/ SnapshotChanges

Spec == Init /\ [][Next]_vars

\* The tickers of the two controllers fire and their calls return.
FairSpec ==
    /\ Spec
    /\ WF_vars(DecideRed) /\ WF_vars(ReadMap) /\ WF_vars(ReadMeter)
    /\ \A l \in Lamps : WF_vars(ApplyDecision(l))

-----------------------------------------------------------------------------
TypeOK ==
    /\ desired \in [Lamps -> States]
    /\ meter \in MeterViews /\ map \in MapViews
    /\ decision \in [Lamps -> States \cup {None, "ask meter"}]

\* Which snapshot a reader would call for each state of the red lamp (list in
\* the comment of runRelayLampController): it burns on export, is dark on
\* import, blinks when the meter is silent or shows no power.
Exporting == MeterEnabled /\ meter.power = "export"
Importing == ~MeterEnabled \/ meter.power = "import"

\* A lasting export lights the red lamp again and again, whatever decision
\* was under way when it began and whatever an operator sets over HTTP.
RedShowsExport ==
    /\ <>[]Exporting => []<>(desired["red"] = "on")
    /\ <>[]Importing => []<>(desired["red"] = "off")
    /\ <>[]~(Exporting \/ Importing) => []<>(desired["red"] = "blink")

\* The same for the white lamp (list in the comment of
\* runWhiteLampController), whose two snapshots are read apart.
WhiteShowsGrid ==
    /\ <>[](MapEnabled /\ map = "volts") => []<>(desired["white"] = "on")
    /\ <>[](/\ MapEnabled /\ map = "dead"
            /\ MeterEnabled /\ meter.power # "gone" /\ meter.volts)
          => []<>(desired["white"] = "blink")
    /\ <>[](~MapEnabled \/ map = "gone") => []<>(desired["white"] = "off")
    /\ <>[](map = "dead" /\ (meter.power = "gone" \/ ~meter.volts))
          => []<>(desired["white"] = "off")

\* Both lamps show a lasting state of the grid.
LampsShowGrid == RedShowsExport /\ WhiteShowsGrid
=============================================================================
