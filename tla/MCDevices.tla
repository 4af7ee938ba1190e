----------------------------- MODULE MCDevices ------------------------------
(***************************************************************************)
(* From the wire to the time series, part by part, each on a small         *)
(* instance: the CE308 over Bluetooth, the link to a Modbus meter, the     *)
(* series of a device in Redis.  The parts hand values on and share no     *)
(* state, so a behaviour of this module is a behaviour of one of them,     *)
(* chosen in the initial state.                                            *)
(***************************************************************************)
EXTENDS Ce308

CONSTANTS
    Size, Depth,                    \* MeterLink
    Tags, Names, Moments, MaxSaves  \* Series

VARIABLES
    part,    \* the one that runs
    mode, conn, pending, inbox, linkPc, linkStage, linkTry, clean, answer, linkLast,
    linkCalm,
    name, series, current, created, blocked, pipe, saves, hidden, seriesCalm

ce308Vars  == <<pc, stage, cmd, try, vals, last, kept, outage, logged, told, regPin, target,
                cached, hci, agent, device, stuck, late, link, halfOpen, queue, held, notify,
                stopping, calm, faults>>
linkVars   == <<mode, conn, pending, inbox, linkPc, linkStage, linkTry, clean, answer,
                linkLast, linkCalm>>
seriesVars == <<name, series, current, created, blocked, pipe, saves, hidden, seriesCalm>>
deviceVars == <<part, ce308Vars, linkVars, seriesVars>>

\* The three blocks of the DTS017M and the setting of its clock.
MCSize == [b \in {"time", "tele", "energy", "set"} |->
             CASE b = "time" -> 3 [] b = "tele" -> 29 [] b = "energy" -> 52 [] b = "set" -> 5]

L == INSTANCE MeterLink WITH
        pc <- linkPc, stage <- linkStage, try <- linkTry, last <- linkLast, calm <- linkCalm

S == INSTANCE Series WITH calm <- seriesCalm

ASSUME DevicesAssumption == L!MeterLinkAssumption /\ S!SeriesAssumption

DevicesInit ==
    /\ part \in {"ce308", "link", "series"}
    /\ Init /\ L!Init /\ S!Init
    /\ part # "ce308" => hci = None /\ device = "unknown"
    /\ part # "link" => mode = "tcp"
    /\ part # "series" => name = CHOOSE n \in Names : TRUE

Ce308Alone  == part = "ce308" /\ UNCHANGED <<part, linkVars, seriesVars>>
LinkAlone   == part = "link" /\ UNCHANGED <<part, ce308Vars, seriesVars>>
SeriesAlone == part = "series" /\ UNCHANGED <<part, ce308Vars, linkVars>>

DevicesNext ==
    \/ Ce308Alone /\ Next
    \/ LinkAlone /\ L!Next
    \/ SeriesAlone /\ S!Next

\* The fairness of each part: only one of them ever moves, so one condition
\* may stand for an action of each.
DevicesSpec ==
    /\ DevicesInit /\ [][DevicesNext]_deviceVars
    /\ WF_deviceVars(\/ Ce308Alone /\ Poller
                     \/ LinkAlone /\ L!Poller
                     \/ SeriesAlone /\ S!SaveAll)
    /\ WF_deviceVars(\/ Ce308Alone /\ LateEnds
                     \/ LinkAlone /\ L!Timeout
                     \/ SeriesAlone /\ S!Exec(TRUE))
    /\ WF_deviceVars(\/ Ce308Alone /\ Answer
                     \/ LinkAlone /\ L!Meter
                     \/ SeriesAlone /\ S!BackoffEnds)

\* The types of the three.
TypesOK == TypeOK /\ L!TypeOK /\ S!TypeOK

\* A block that is decoded is the answer to the request that was made.
AnswersAreOwn == L!AnswersAreOwn

\* Trouble passes: the CE308 is read again, every poll of the Modbus meter
\* succeeds, the series of a device are found under its name, where Redis has
\* not lost them behind the service's back (CalmDown of Series: hidden = {}).
TroublePasses == PollsResume /\ L!PollsRecover /\ S!LabelsFollow
=============================================================================
