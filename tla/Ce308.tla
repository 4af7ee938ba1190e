------------------------------- MODULE Ce308 --------------------------------
(***************************************************************************)
(* The final readings of the CE308 meter over Bluetooth: connect, ask for  *)
(* the kinds of energy one after another, save one snapshot, disconnect.   *)
(*                                                                         *)
(* Three parties: the poller; bluetoothd with its adapter, which can be    *)
(* reset, renumbered, restarted or stuck; the meter, which answers a       *)
(* command with a notification and a memory to be read, late perhaps.  A   *)
(* connecting that took too long is left to itself and closed when it ends. *)
(* A Disconnect may fail; nothing is done about it, and the link stays half *)
(* open until it is lost or the next session over it ends.                  *)
(* Delays are not modelled: the timer may fire whenever the poller waits,   *)
(* as the button may be pressed.                                           *)
(***************************************************************************)
EXTENDS Naturals, Sequences

CONSTANTS
    Kinds,     \* EMD01..EMD0n are read
    Retries,   \* ce308ReadRetries
    Forced,    \* ce308.hci names the adapter
    MaxFaults, \* BOUND: disturbances before everything is in order for good
    None

ASSUME Ce308Assumption ==
    Kinds \in Nat \ {0} /\ Retries \in Nat /\ Forced \in BOOLEAN /\ MaxFaults \in Nat
    /\ None \notin Nat

VARIABLES
    pc,      \* "idle" "open" "connect" "find" "ask" "await" "fetch" "save" "close" "ended"
    stage,   \* the connecting: "direct", "cleared" or "found"
    cmd, try,\* the command asked and how often
    vals,    \* answers of this capture: the command each one belongs to
    last,    \* how the last attempt ended: "saved" or "failed"
    kept,    \* the snapshot in Redis
    outage,  \* without a connection: "no", "young", "old" (an hour)
    logged,  \* commErrLogged
    told,    \* records of this outage in the history, and records that were lost
    regPin,  \* ce308RegPin is the PIN
    target,  \* adapter that tinygo uses
    cached,  \* ce308AdapterIDCached, "" is None
    hci,     \* bluetoothd: number of the adapter, None without one
    agent,   \* bluetoothd: our agent is the default one
    device,  \* bluetoothd: the meter is "unknown", "seen" or "paired"
    stuck,   \* bluetoothd: an operation hangs
    late,    \* connecting that was left to itself: "none", "pending", "linked"
    link,    \* the meter is connected
    halfOpen,\* the link is one that a Disconnect failed to end
    queue,   \* meter: commands it has not answered yet
    held,    \* meter: the command whose answer its memory holds
    notify,  \* channel notify: "empty", "new", or "old" when it was filled before the command
    stopping,\* the service is to stop
    calm, faults

air  == <<link, halfOpen>>
bt   == <<hci, agent, device, stuck, late, air>>
ble  == <<queue, held, notify>>
mine == <<regPin, target, cached>>
rec  == <<outage, logged, told>>
env  == <<stopping, calm, faults>>
vars == <<pc, stage, cmd, try, vals, last, kept, rec, mine, bt, ble, env>>

-----------------------------------------------------------------------------
\* ce308AdapterIDReset: the adapter may have another number by now.
AdapterForgotten == cached' = None

\* Waiting for the timer, the button or the stop.
Wake ==
    /\ pc = "idle" /\ ~stopping /\ pc' = "open" /\ AdapterForgotten
    /\ UNCHANGED <<stage, cmd, try, vals, last, kept, rec, regPin, target, bt, ble, env>>

\* The outage gets older.
HourPasses ==
    /\ outage = "young" /\ outage' = "old"
    /\ UNCHANGED <<pc, stage, cmd, try, vals, last, kept, logged, told, mine, bt, ble, env>>

\* No connection: one record in the history once it lasts.
Failed ==
    /\ pc' = "idle" /\ last' = "failed" /\ stage' = "direct"
    /\ outage' = IF outage = "no" THEN "young" ELSE outage
    /\ IF outage = "old" /\ ~logged
       THEN /\ logged' = TRUE
            /\ told' \in {[told EXCEPT !.kept = @ + 1], [told EXCEPT !.lost = TRUE]}
       ELSE UNCHANGED <<logged, told>>

\* registerCE308Agent: the agent may have gone with a restart of bluetoothd.
Registered == regPin /\ agent

\* registerCE308Agent: whatever fails, the connecting is tried.
Register(ok) ==
    IF Registered THEN UNCHANGED <<regPin, agent>>
                  ELSE regPin' = ok /\ agent' = ok

\* Faulty variant: the adapter used before is used again.
AdapterOnce == target

\* ce308AdapterID.
Adapter == IF cached # None THEN cached ELSE hci

\* ce308EnsurePowered: tinygo is turned to the adapter that is there.
UseAdapter == cached' = Adapter /\ target' = IF Adapter = None THEN target ELSE Adapter

\* openCE308 up to the connecting.  Without the adapter of the configuration,
\* or when the adapter cannot be enabled, nothing is connected.
Open ==
    /\ pc = "open"
    /\ \E ok \in IF calm THEN {TRUE} ELSE BOOLEAN : Register(ok)
    /\ UseAdapter
    /\ \/ (calm => Adapter = None /\ Forced) /\ Failed
       \/ ~(Adapter = None /\ Forced) /\ pc' = "connect" /\ stage' = "direct" /\ UNCHANGED <<last, rec>>
    /\ UNCHANGED <<cmd, try, vals, kept, hci, device, stuck, late, air, ble, env>>

-----------------------------------------------------------------------------
\* ce308DeviceKnown: bluetoothd has an object for the meter.
Known == device # "unknown"

\* ce308BlueZAgent: a device that is not paired yet asks the agent for the PIN.
PinAnswered == device = "seen" => agent

\* Connecting can succeed: the adapter, the device and, before it is paired,
\* the agent are there, and nothing else is in progress.
Reachable ==
    /\ hci # None /\ target = hci /\ Known /\ PinAnswered
    /\ ~stuck /\ late # "pending"

InProgress == hci # None /\ target = hci /\ (stuck \/ late = "pending")

\* Faulty variant: the state of the last outage is kept.
Connected == outage' = "no" /\ told' = [kept |-> 0, lost |-> FALSE] /\ UNCHANGED logged

\* A connection ends the outage.
Reset == outage' = "no" /\ told' = [kept |-> 0, lost |-> FALSE] /\ logged' = FALSE

\* connectCE308: the channel notify is a new one.  A link that is half open is
\* connected for bluetoothd: it is taken over.
Connect ==
    /\ pc = "connect" /\ Reachable
    /\ pc' = "ask" /\ cmd' = 1 /\ try' = 0 /\ vals' = <<>>
    /\ link' = TRUE /\ halfOpen' = FALSE /\ device' = "paired"
    /\ queue' = <<>> /\ notify' = "empty"
    /\ Reset /\ stage' = "direct"
    /\ UNCHANGED <<last, kept, mine, hci, agent, stuck, late, held, env>>

\* openCE308 after a connecting that failed: clear what is stuck and try again,
\* find a device that is not known and try again, or give up.
AfterFailure(inProgress) ==
    \/ inProgress /\ stage = "direct" /\ pc' = "connect" /\ stage' = "cleared" /\ UNCHANGED <<last, rec>>
    \/ /\ ~(inProgress /\ stage = "direct")
       /\ IF ~Known /\ stage # "found"
          THEN pc' = "find" /\ UNCHANGED <<stage, last, rec>>
          ELSE Failed

\* Disconnect, whose error nobody acts upon.
Disconnect(connected) ==
    \/ link' = FALSE /\ halfOpen' = FALSE
    \/ ~calm /\ link' = connected /\ halfOpen' = connected

\* ce308ClearStuck: StopDiscovery and Disconnect, either of which may fail.
Cleared == stuck' \in (IF calm THEN {FALSE} ELSE {FALSE, stuck}) /\ Disconnect(link)

\* Faulty variant: an error leaves the connection as it is.
LeftConnected(connects) ==
    \/ UNCHANGED air
    \/ connects /\ link' = TRUE /\ halfOpen' = FALSE

\* connectCE308 fails: to connect, or after that, and then it disconnects.
ConnectingFailed(connects) ==
    \/ UNCHANGED air
    \/ connects /\ Disconnect(TRUE)

ConnectFails ==
    /\ pc = "connect" /\ (calm => ~Reachable)
    /\ AfterFailure(InProgress)
    /\ IF InProgress /\ stage = "direct" THEN Cleared
       ELSE ConnectingFailed(Reachable) /\ UNCHANGED stuck
    /\ UNCHANGED <<cmd, try, vals, kept, mine, hci, agent, device, late, ble, env>>

\* connectCE308Bounded: the connecting goes on by itself.
ConnectHangs ==
    /\ pc = "connect" /\ ~calm /\ late = "none"
    /\ late' = "pending" /\ AfterFailure(FALSE)
    /\ UNCHANGED <<cmd, try, vals, kept, mine, hci, agent, device, stuck, air, ble, env>>

\* Faulty variant: nobody waits for what was left to itself.
LeftAlone == late' = "none" /\ UNCHANGED air

\* drain: the connection that came too late is closed.
Drained == late' = "none" /\ Disconnect(link)

LateEnds ==
    /\ \/ late = "pending" /\ late' = "none" /\ ConnectingFailed(hci # None) /\ UNCHANGED device
       \/ /\ late = "pending" /\ hci # None /\ late' = "linked"
          /\ link' = TRUE /\ halfOpen' = FALSE /\ device' = "paired"
       \/ late = "linked" /\ Drained /\ UNCHANGED device
    /\ UNCHANGED <<pc, stage, cmd, try, vals, last, kept, rec, mine, hci, agent, stuck, ble, env>>

\* ensureCE308Known: a short discovery.
Find ==
    /\ pc = "find"
    /\ \/ /\ hci # None /\ Adapter = hci /\ device' = "seen" /\ pc' = "connect" /\ stage' = "found"
          /\ UNCHANGED <<last, rec>>
       \/ (~calm \/ hci = None \/ Adapter # hci) /\ Failed /\ UNCHANGED device
    /\ cached' = Adapter
    /\ UNCHANGED <<cmd, try, vals, kept, regPin, target, hci, agent, stuck, late, air, ble, env>>

-----------------------------------------------------------------------------
\* The capture ended in an error.
Abandon == pc' = "close" /\ last' = "failed"

\* Faulty variant: the channel is not emptied.
NoReset(signal) == IF signal = "empty" THEN "empty" ELSE "old"

\* reset: what came before the command is not its answer.
Emptied(signal) == "empty"

\* Read: reset, write.
Ask ==
    /\ pc = "ask"
    /\ notify' = Emptied(notify)
    /\ IF link THEN pc' = "await" /\ queue' = Append(queue, cmd) /\ UNCHANGED last
               ELSE Abandon /\ UNCHANGED queue
    /\ UNCHANGED <<stage, cmd, try, vals, kept, rec, mine, bt, held, env>>

\* onNotify.  A meter that answers two commands leaves one signal.
Answer ==
    /\ queue # <<>> /\ link
    /\ held' = Head(queue) /\ queue' = Tail(queue)
    /\ notify' = IF notify = "old" THEN "old" ELSE "new"
    /\ UNCHANGED <<pc, stage, cmd, try, vals, last, kept, rec, mine, bt, env>>

AnswerLost ==
    /\ ~calm /\ queue # <<>> /\ queue' = Tail(queue)
    /\ UNCHANGED <<pc, stage, cmd, try, vals, last, kept, rec, mine, bt, held, notify, env>>

TakeSignal ==
    /\ pc = "await" /\ notify # "empty" /\ pc' = "fetch" /\ notify' = "empty"
    /\ UNCHANGED <<stage, cmd, try, vals, last, kept, rec, mine, bt, queue, held, env>>

\* parseCE308End: the name of the command is not one of its conditions.
Accepted == vals' = Append(vals, held)

\* readCE308Energy: one kind of energy after another.
NextKind ==
    /\ try' = 0
    /\ IF cmd = Kinds THEN pc' = "save" /\ UNCHANGED cmd ELSE pc' = "ask" /\ cmd' = cmd + 1

\* Read: the fragments, and what is done with them.
Fetch ==
    /\ pc = "fetch"
    /\ IF link
       THEN Accepted /\ NextKind /\ UNCHANGED last
       ELSE Abandon /\ UNCHANGED <<vals, try, cmd>>
    /\ UNCHANGED <<stage, kept, rec, mine, bt, ble, env>>

\* Faulty variant: one time too many.
OneMore == try <= Retries

\* readCE308WithRetries: the same command again, Retries times.
Again == try < Retries

TimesOut ==
    /\ pc = "await" /\ notify = "empty"
    /\ calm => ~link \/ queue = <<>>
    /\ IF Again THEN pc' = "ask" /\ try' = try + 1 /\ UNCHANGED last
                        ELSE Abandon /\ UNCHANGED try
    /\ UNCHANGED <<stage, cmd, vals, kept, rec, mine, bt, ble, env>>

\* SaveCE308Energy: the last snapshot only.
Kept == kept' = vals

\* ce308CaptureEnergy.
Save ==
    /\ pc = "save" /\ pc' = "close"
    /\ \/ Kept /\ last' = "saved"
       \/ ~calm /\ last' = "failed" /\ UNCHANGED kept
    /\ UNCHANGED <<stage, cmd, try, vals, rec, mine, bt, ble, env>>

\* Close, after every capture; its error is only logged.
Close ==
    /\ pc = "close" /\ pc' = (IF stopping THEN "ended" ELSE "idle")
    /\ Disconnect(link) /\ queue' = <<>> /\ vals' = <<>>
    /\ cmd' = 1 /\ try' = 0 /\ held' = None /\ notify' = "empty"
    /\ UNCHANGED <<stage, last, kept, rec, mine, hci, agent, device, stuck, late, env>>

\* Cancelled: the wait, the connecting, which is left to itself, or the reading.
Cancelled ==
    /\ stopping
    /\ \/ pc = "idle" /\ pc' = "ended" /\ UNCHANGED <<last, late, rec, stage>>
       \/ pc = "connect" /\ late = "none" /\ late' = "pending" /\ Failed
       \/ pc \in {"ask", "await"} /\ Abandon /\ UNCHANGED <<late, rec, stage>>
    /\ UNCHANGED <<cmd, try, vals, kept, mine, hci, agent, device, stuck, air, ble, env>>

Stop ==
    /\ ~stopping /\ stopping' = TRUE
    /\ UNCHANGED <<pc, stage, cmd, try, vals, last, kept, rec, mine, bt, ble, calm, faults>>

-----------------------------------------------------------------------------
Disturbance == ~calm /\ faults < MaxFaults /\ faults' = faults + 1 /\ UNCHANGED <<calm, stopping>>

\* With the link goes what was half open.
LinkGone == link' = FALSE /\ halfOpen' = FALSE

\* The driver is loaded again, the adapter is moved, taken out or put back.
AdapterReset ==
    /\ Disturbance
    /\ hci' \in {0, 1, None} /\ stuck' \in BOOLEAN /\ device' \in {device, "unknown"}
    /\ LinkGone
    /\ UNCHANGED <<pc, stage, cmd, try, vals, last, kept, rec, mine, agent, late, ble>>

DaemonRestarts ==
    /\ Disturbance /\ agent' = FALSE /\ stuck' = FALSE /\ LinkGone
    /\ UNCHANGED <<pc, stage, cmd, try, vals, last, kept, rec, mine, hci, device, late, ble>>

RadioLost ==
    /\ Disturbance /\ link /\ LinkGone
    /\ UNCHANGED <<pc, stage, cmd, try, vals, last, kept, rec, mine, hci, agent, device, stuck, late, ble>>

CalmDown ==
    /\ ~calm /\ hci # None /\ calm' = TRUE
    /\ UNCHANGED <<pc, stage, cmd, try, vals, last, kept, rec, mine, bt, ble, stopping, faults>>

Init ==
    /\ pc = "idle" /\ stage = "direct" /\ cmd = 1 /\ try = 0 /\ vals = <<>>
    /\ last = "failed" /\ kept = None
    /\ outage = "no" /\ logged = FALSE /\ told = [kept |-> 0, lost |-> FALSE]
    /\ regPin = FALSE /\ target = 0 /\ cached = None
    /\ hci \in {0, 1, None} /\ agent = FALSE /\ device \in {"unknown", "paired"}
    /\ stuck = FALSE /\ late = "none" /\ link = FALSE /\ halfOpen = FALSE
    /\ queue = <<>> /\ held = None /\ notify = "empty"
    /\ stopping = FALSE /\ calm = FALSE /\ faults = 0

Poller ==
    \/ Wake \/ Open \/ Connect \/ ConnectFails \/ Find
    \/ Ask \/ TakeSignal \/ Fetch \/ TimesOut \/ Save \/ Close \/ Cancelled

Next ==
    \/ Poller \/ ConnectHangs \/ LateEnds \/ Answer \/ AnswerLost
    \/ HourPasses \/ Stop
    \/ AdapterReset \/ DaemonRestarts \/ RadioLost \/ CalmDown

\* The loop runs, a connecting ends, the meter answers.
Fairness == WF_vars(Poller) /\ WF_vars(LateEnds) /\ WF_vars(Answer)

Spec == Init /\ [][Next]_vars /\ Fairness

-----------------------------------------------------------------------------
TypeOK ==
    /\ pc \in {"idle", "open", "connect", "find", "ask", "await", "fetch", "save", "close", "ended"}
    /\ stage \in {"direct", "cleared", "found"} /\ last \in {"saved", "failed"}
    /\ cmd \in 1..Kinds /\ try \in 0..Retries /\ regPin \in BOOLEAN
    /\ vals \in UNION {[1..n -> 1..Kinds] : n \in 0..Kinds}
    /\ kept \in [1..Kinds -> 1..Kinds] \cup {None} /\ held \in 1..Kinds \cup {None}
    /\ outage \in {"no", "young", "old"} /\ logged \in BOOLEAN
    /\ told \in [kept : Nat, lost : BOOLEAN]
    /\ target \in {0, 1} /\ cached \in {0, 1, None} /\ hci \in {0, 1, None}
    /\ agent \in BOOLEAN /\ device \in {"unknown", "seen", "paired"} /\ stuck \in BOOLEAN
    /\ late \in {"none", "pending", "linked"} /\ link \in BOOLEAN /\ halfOpen \in BOOLEAN
    /\ queue \in Seq(1..Kinds) /\ Len(queue) <= Kinds * (Retries + 1)
    /\ notify \in {"empty", "new", "old"}
    /\ stopping \in BOOLEAN /\ calm \in BOOLEAN /\ faults \in 0..MaxFaults

(* Between captures, and after the stop, no connection was forgotten: the   *)
(* poller has tried to end each one, that of a connecting which came too    *)
(* late as well, and what is still connected is what its Disconnect failed  *)
(* to end.  Such a half-open link is only logged; nothing closes it but the  *)
(* end of the next session.                                                 *)
NoLeak == pc \in {"idle", "ended"} /\ late = "none" /\ link => halfOpen

(* An answer that arrived before its command was asked, late for the one    *)
(* before it, is never what a command takes for its own.                    *)
NothingFromBefore == pc = "await" => notify # "old"

(* The history of errors has one record of an outage that lasts an hour,    *)
(* none of a shorter one, and an earlier outage does not silence a later.   *)
OneRecordPerOutage ==
    /\ told.kept <= 1 /\ (told.kept = 1 => outage = "old")
    /\ logged => told.kept = 1 \/ told.lost

(* Sessions leave nothing behind: no link but one that a Disconnect failed  *)
(* to end, no old answer, no second record.                                 *)
SessionsAreClean == NoLeak /\ NothingFromBefore /\ OneRecordPerOutage

(* Once adapter, bluetoothd, radio and meter are in order, readings are     *)
(* taken again without a restart of the service, whatever came before:      *)
(* a renumbered adapter, an agent that was lost, an operation that hangs.   *)
PollsResume == calm ~> [](last = "saved" \/ stopping)

=============================================================================
