-------------------------- MODULE DevicesProofs ---------------------------
(***************************************************************************)
(* What the parts between the wire and the time series keep, for any       *)
(* kinds of energy, retries and disturbances of the CE308, any sizes of    *)
(* the blocks of a Modbus meter and any depth of its gateway, any tags,    *)
(* names, moments and saves of a device: first of each part by itself,     *)
(* then of the composition the run checks.  Of the constants only          *)
(* Ce308Assumption and DevicesAssumption are used.                         *)
(***************************************************************************)
EXTENDS MCDevices, SequenceTheorems, TLAPS

-----------------------------------------------------------------------------
(* The CE308: the connection, the session over it, the outage.             *)

\* The commands asked in a session before the t-th repetition of command c.
Asked(c, t) == (c - 1) * (Retries + 1) + t

LEMMA AskedBounds ==
    ASSUME NEW c \in 1..Kinds, NEW t \in 0..Retries
    PROVE  /\ Asked(c, t) \in Nat
           /\ Asked(c, t + 1) = Asked(c, t) + 1
           /\ Asked(c, t) + 1 <= Asked(c + 1, 0)
           /\ Asked(c, t) + 1 <= Kinds * (Retries + 1)
<1>. USE Ce308Assumption
<1>1. \A a, b \in Nat : a * b \in Nat
    OBVIOUS
<1>2. (c - 1) * (Retries + 1) \in Nat /\ (Kinds - c) * (Retries + 1) \in Nat
    BY <1>1
<1>3. c * (Retries + 1) = (c - 1) * (Retries + 1) + (Retries + 1)
    OBVIOUS
<1>4. Kinds * (Retries + 1) = c * (Retries + 1) + (Kinds - c) * (Retries + 1)
    OBVIOUS
<1>5. DEFINE x == (c - 1) * (Retries + 1)
             y == (Kinds - c) * (Retries + 1)
             z == c * (Retries + 1)
             w == Kinds * (Retries + 1)
<1>6. Asked(c, t) = x + t /\ Asked(c, t + 1) = x + (t + 1) /\ Asked(c + 1, 0) = z
    BY DEF Asked
<1>7. x \in Nat /\ y \in Nat /\ z = x + (Retries + 1) /\ w = z + y
    BY <1>2, <1>3, <1>4
<1>. HIDE DEF x, y, z, w
<1>8. Asked(c, t) + 1 <= z /\ Asked(c, t) + 1 <= w
    BY <1>6, <1>7
<1>. QED
    BY <1>6, <1>7, <1>8 DEF z, w

States308 == {"idle", "open", "connect", "find", "ask", "await", "fetch", "save", "close", "ended"}
Apart     == {"idle", "open", "connect", "find", "ended"}  \* from the meter

\* The session: an answer for each command before the one that is asked, no
\* more commands waiting than were asked, a signal only of an answer that the
\* meter's memory holds.
Session ==
    /\ pc \in States308 /\ stage \in {"direct", "cleared", "found"}
    /\ last \in {"saved", "failed"}
    /\ cmd \in 1..Kinds /\ try \in 0..Retries
    /\ vals \in Seq(1..Kinds) /\ Len(vals) <= Kinds
    /\ pc \in {"ask", "await", "fetch"} => Len(vals) = cmd - 1
    /\ pc = "save" => Len(vals) = Kinds
    /\ kept \in [1..Kinds -> 1..Kinds] \cup {None}
    /\ held \in 1..Kinds \cup {None} /\ notify \in {"empty", "new"}
    /\ notify = "new" \/ pc = "fetch" => held # None
    /\ queue \in Seq(1..Kinds) /\ Len(queue) <= Kinds * (Retries + 1)
    /\ pc = "ask" => Len(queue) <= Asked(cmd, try)
    /\ pc \in {"await", "fetch"} => Len(queue) <= Asked(cmd, try) + 1

\* The outage: no record before it is an hour old, one after.
Outage ==
    /\ outage \in {"no", "young", "old"} /\ logged \in BOOLEAN
    /\ told \in [kept : Nat, lost : BOOLEAN]
    /\ told.kept \in {0, 1} /\ (told.kept = 1 => logged /\ outage = "old")
    /\ logged => told.kept = 1 \/ told.lost

\* The connection: none while the poller is apart from the meter, but one
\* that came too late and is going to be closed, or that a Disconnect failed
\* to end.
Connection ==
    /\ regPin \in BOOLEAN /\ agent \in BOOLEAN /\ stuck \in BOOLEAN /\ link \in BOOLEAN
    /\ target \in {0, 1} /\ cached \in {0, 1, None} /\ hci \in {0, 1, None}
    /\ device \in {"unknown", "seen", "paired"}
    /\ late \in {"none", "pending", "linked"}
    /\ halfOpen \in BOOLEAN
    /\ pc \in Apart /\ late # "linked" /\ link => halfOpen

Ending ==
    stopping \in BOOLEAN /\ calm \in BOOLEAN /\ faults \in 0..MaxFaults

Ce308Inv == Session /\ Outage /\ Connection /\ Ending

LEMMA Ce308InvInit == Init => Ce308Inv
<1>. SUFFICES ASSUME Init PROVE Ce308Inv
    OBVIOUS
<1>. USE Ce308Assumption DEF Init
<1>1. Session
    <2>1. 0 <= Kinds * (Retries + 1)
        OBVIOUS
    <2>. QED
        BY <2>1 DEF Session, States308
<1>2. Outage
    <2>1. told \in [kept : Nat, lost : BOOLEAN] /\ told.kept = 0
        OBVIOUS
    <2>2. outage \in {"no", "young", "old"} /\ logged \in BOOLEAN /\ ~logged
        OBVIOUS
    <2>. QED
        BY <2>1, <2>2 DEF Outage
<1>3. Connection
    BY DEF Connection
<1>4. Ending
    <2>1. stopping \in BOOLEAN /\ calm \in BOOLEAN
        OBVIOUS
    <2>2. faults \in 0..MaxFaults
        OBVIOUS
    <2>. QED
        BY <2>1, <2>2 DEF Ending
<1>. QED
    BY <1>1, <1>2, <1>3, <1>4 DEF Ce308Inv

\* Every step keeps the session in order.
LEMMA SessionStep == Session /\ [Next]_vars => Session'
<1>. SUFFICES ASSUME Session, [Next]_vars PROVE Session'
    OBVIOUS
<1>. DEFINE conversation == <<vals, cmd, try, kept, held, notify, queue>>
<1>1. ASSUME UNCHANGED conversation, pc' \in States308,
             pc' = pc \/ pc' \notin {"ask", "await", "fetch", "save"},
             stage' \in {"direct", "cleared", "found"}, last' \in {"saved", "failed"}
      PROVE  Session'
    BY <1>1 DEF Session, Asked
<1>2. ASSUME Wake \/ HourPasses \/ Stop \/ AdapterReset \/ DaemonRestarts \/ RadioLost
             \/ CalmDown \/ LateEnds \/ UNCHANGED vars
      PROVE  Session'
    <2>1. /\ UNCHANGED conversation /\ UNCHANGED <<stage, last>>
          /\ pc' = pc \/ pc' = "open"
        BY <1>2 DEF Wake, HourPasses, Stop, AdapterReset, DaemonRestarts, RadioLost, CalmDown,
                    LateEnds, vars, bt, ble, mine, rec, env
    <2>. QED
        BY <1>1, <2>1 DEF Session, States308
<1>3. ASSUME Open \/ ConnectFails \/ ConnectHangs \/ Find \/ Cancelled
      PROVE  Session'
    <2>1. /\ UNCHANGED conversation /\ pc' \in {"idle", "connect", "find", "ended", "close"}
          /\ stage' \in {stage, "direct", "cleared", "found"} /\ last' \in {last, "failed"}
        BY <1>3 DEF Open, ConnectFails, ConnectHangs, Find, Cancelled, AfterFailure, Failed,
                    Abandon, bt, ble, mine, rec, env
    <2>. QED
        BY <1>1, <2>1 DEF Session, States308
<1>4. ASSUME Connect PROVE Session'
    <2>1. Asked(1, 0) = 0 /\ 0 <= Kinds * (Retries + 1)
        BY Ce308Assumption DEF Asked
    <2>. QED
        BY <1>4, <2>1, Ce308Assumption DEF Connect, Session, States308
<1>5. ASSUME Ask PROVE Session'
    <2>1. /\ UNCHANGED <<stage, cmd, try, vals, kept, held>>
          /\ notify' = "empty" /\ pc = "ask"
        BY <1>5 DEF Ask, Emptied
    <2>2. CASE link
        <3>1. pc' = "await" /\ queue' = Append(queue, cmd) /\ last' = last
            BY <1>5, <2>2 DEF Ask
        <3>2. queue' \in Seq(1..Kinds) /\ Len(queue') = Len(queue) + 1
            BY <3>1 DEF Session
        <3>3. Asked(cmd, try)' = Asked(cmd, try)
            BY <2>1 DEF Asked
        <3>4. /\ Len(queue') <= Asked(cmd, try) + 1
              /\ Len(queue') <= Kinds * (Retries + 1)
            <4>1. /\ Asked(cmd, try) \in Nat /\ Len(queue) \in Nat
                  /\ Asked(cmd, try) + 1 <= Kinds * (Retries + 1)
                BY AskedBounds DEF Session
            <4>2. Kinds * (Retries + 1) \in Nat
                BY Ce308Assumption
            <4>3. Len(queue) <= Asked(cmd, try)
                BY <2>1 DEF Session
            <4>. DEFINE bound == Kinds * (Retries + 1)
                        asked == Asked(cmd, try)
            <4>4. asked \in Nat /\ bound \in Nat /\ asked + 1 <= bound /\ Len(queue) <= asked
                BY <4>1, <4>2, <4>3
            <4>. HIDE DEF bound, asked
            <4>5. Len(queue') <= asked + 1 /\ Len(queue') <= bound
                BY <3>2, <4>1, <4>4
            <4>. QED
                BY <4>5 DEF bound, asked
        <3>. QED
            BY <2>1, <3>1, <3>2, <3>3, <3>4 DEF Session, States308
    <2>3. CASE ~link
        BY <1>5, <2>1, <2>3 DEF Ask, Abandon, Session, States308
    <2>. QED
        BY <2>2, <2>3
<1>6. ASSUME queue # <<>>, queue' = Tail(queue), UNCHANGED <<pc, stage, cmd, try, vals, last, kept>>,
             held' \in 1..Kinds \cup {None}, notify' \in {"empty", "new"},
             notify' = "new" \/ pc' = "fetch" => held' # None
      PROVE  Session'
    <2>1. queue' \in Seq(1..Kinds) /\ Len(queue') <= Len(queue) /\ Len(queue) \in Nat
          /\ Len(queue') \in Nat
        BY <1>6 DEF Session
    <2>2. Asked(cmd, try)' = Asked(cmd, try) /\ Asked(cmd, try) \in Nat
        BY <1>6, AskedBounds DEF Asked, Session
    <2>3. Kinds * (Retries + 1) \in Nat
        BY Ce308Assumption
    <2>. QED
        BY <1>6, <2>1, <2>2, <2>3 DEF Session
<1>7. ASSUME Answer PROVE Session'
    <2>1. Head(queue) \in 1..Kinds
        <3>1. queue \in Seq(1..Kinds) /\ queue # <<>>
            BY <1>7 DEF Answer, Session
        <3>. QED
            BY <3>1, HeadTailProperties
    <2>2. held' # None
        BY <1>7, <2>1, Ce308Assumption DEF Answer
    <2>. QED
        BY <1>6, <1>7, <2>1, <2>2 DEF Answer, Session
<1>8. ASSUME AnswerLost PROVE Session'
    BY <1>6, <1>8 DEF AnswerLost, Session
<1>9. ASSUME TakeSignal PROVE Session'
    BY <1>9 DEF TakeSignal, Session, States308, Asked
<1>10. ASSUME Fetch PROVE Session'
    <2>1. /\ UNCHANGED <<stage, kept, queue, held, notify>> /\ pc = "fetch"
        BY <1>10 DEF Fetch, ble
    <2>2. CASE ~link
        BY <1>10, <2>1, <2>2 DEF Fetch, Abandon, Session, States308
    <2>3. CASE link
        <3>1. /\ vals' = Append(vals, held) /\ try' = 0 /\ last' = last
              /\ IF cmd = Kinds THEN pc' = "save" /\ cmd' = cmd ELSE pc' = "ask" /\ cmd' = cmd + 1
            BY <1>10, <2>3 DEF Fetch, Accepted, NextKind
        <3>2. vals' \in Seq(1..Kinds) /\ Len(vals') = cmd
            BY <2>1, <3>1 DEF Session
        <3>3. Asked(cmd, try) + 1 <= Asked(cmd + 1, 0) /\ Asked(cmd, try) \in Nat
            BY AskedBounds DEF Session
        <3>4. cmd # Kinds => cmd + 1 \in 1..Kinds
            BY Ce308Assumption DEF Session
        <3>5. pc' = "ask" => Asked(cmd, try)' = Asked(cmd + 1, 0)
            BY <3>1 DEF Asked
        <3>6. Asked(cmd + 1, 0) \in Int /\ Len(queue) \in Nat
            BY Ce308Assumption DEF Asked, Session
        <3>7. pc' = "ask" => Len(queue') <= Asked(cmd, try)'
            BY <2>1, <3>3, <3>5, <3>6 DEF Session
        <3>. QED
            BY <2>1, <3>1, <3>2, <3>4, <3>7, Ce308Assumption DEF Session, States308
    <2>. QED
        BY <2>2, <2>3
<1>11. ASSUME TimesOut PROVE Session'
    <2>1. UNCHANGED <<stage, cmd, vals, kept, queue, held, notify>> /\ pc = "await"
        BY <1>11 DEF TimesOut, ble
    <2>2. CASE ~Again
        BY <1>11, <2>1, <2>2 DEF TimesOut, Abandon, Session, States308
    <2>3. CASE Again
        <3>1. pc' = "ask" /\ try' = try + 1 /\ last' = last /\ try' \in 0..Retries
            BY <1>11, <2>3, Ce308Assumption DEF TimesOut, Again, Session
        <3>2. Asked(cmd, try)' = Asked(cmd, try) + 1
            BY <2>1, <3>1, AskedBounds DEF Asked, Session
        <3>. QED
            BY <2>1, <3>1, <3>2 DEF Session, States308
    <2>. QED
        BY <2>2, <2>3
<1>12. ASSUME Save PROVE Session'
    <2>1. vals \in [1..Kinds -> 1..Kinds]
        BY <1>12 DEF Save, Session
    <2>. QED
        BY <1>12, <2>1 DEF Save, Kept, Session, States308, ble
<1>13. ASSUME Close PROVE Session'
    <2>1. 0 <= Kinds * (Retries + 1)
        BY Ce308Assumption
    <2>. QED
        BY <1>13, <2>1, Ce308Assumption DEF Close, Session, States308
<1>. QED
    BY <1>2, <1>3, <1>4, <1>5, <1>7, <1>8, <1>9, <1>10, <1>11, <1>12, <1>13
       DEF Next, Poller

LEMMA OutageStep == Outage /\ [Next]_vars => Outage'
<1>. SUFFICES ASSUME Outage, [Next]_vars PROVE Outage'
    OBVIOUS
<1>1. CASE UNCHANGED rec
    BY <1>1 DEF Outage, rec
<1>2. CASE Failed
    <2>1. outage' \in {"young", "old"} /\ (outage = "old" => outage' = "old")
        BY <1>2 DEF Failed, Outage
    <2>2. CASE outage = "old" /\ ~logged
        <3>1. /\ logged' = TRUE /\ outage' = "old"
              /\ told' \in {[told EXCEPT !.kept = told.kept + 1], [told EXCEPT !.lost = TRUE]}
            BY <1>2, <2>1, <2>2 DEF Failed
        <3>2. told.kept = 0
            BY <2>2 DEF Outage
        <3>3. told' \in [kept : Nat, lost : BOOLEAN] /\ told'.kept \in {0, 1}
              /\ (told'.kept = 1 \/ told'.lost)
            <4>1. told \in [kept : Nat, lost : BOOLEAN]
                BY DEF Outage
            <4>2. CASE told' = [told EXCEPT !.kept = told.kept + 1]
                BY <3>2, <4>1, <4>2
            <4>3. CASE told' = [told EXCEPT !.lost = TRUE]
                BY <3>2, <4>1, <4>3
            <4>. QED
                BY <3>1, <4>2, <4>3
        <3>4. outage' \in {"no", "young", "old"} /\ logged' \in BOOLEAN
            BY <3>1
        <3>5. logged' /\ outage' = "old"
            BY <3>1
        <3>. QED
            BY ONLY <3>3, <3>4, <3>5 DEF Outage
    <2>3. CASE ~(outage = "old" /\ ~logged)
        BY <1>2, <2>1, <2>3 DEF Failed, Outage
    <2>. QED
        BY <2>2, <2>3
<1>3. CASE Reset
    <2>1. told' \in [kept : Nat, lost : BOOLEAN] /\ told'.kept = 0
        BY <1>3 DEF Reset
    <2>2. outage' \in {"no", "young", "old"} /\ logged' \in BOOLEAN /\ ~logged'
        BY <1>3 DEF Reset
    <2>. QED
        BY <2>1, <2>2 DEF Outage
<1>4. CASE HourPasses
    BY <1>4 DEF HourPasses, Outage
<1>5. Connect => Reset
    BY DEF Connect
<1>6. \A b \in BOOLEAN : AfterFailure(b) => Failed \/ UNCHANGED rec
    BY DEF AfterFailure, rec
<1>7. Open \/ ConnectFails \/ ConnectHangs \/ Find \/ Cancelled => Failed \/ UNCHANGED rec
    BY <1>6 DEF Open, ConnectFails, ConnectHangs, Find, Cancelled, InProgress, rec
<1>8. Wake \/ Ask \/ TakeSignal \/ Fetch \/ TimesOut \/ Save \/ Close \/ LateEnds \/ Answer
      \/ AnswerLost \/ Stop \/ AdapterReset \/ DaemonRestarts \/ RadioLost \/ CalmDown
      \/ UNCHANGED vars => UNCHANGED rec
    BY DEF Wake, Ask, TakeSignal, Fetch, TimesOut, Save, Close, LateEnds, Answer, AnswerLost,
           Stop, AdapterReset, DaemonRestarts, RadioLost, CalmDown, vars
<1>. QED
    BY <1>1, <1>2, <1>3, <1>4, <1>5, <1>7, <1>8 DEF Next, Poller

LEMMA ConnectionStep == Session /\ Connection /\ [Next]_vars => Connection'
<1>. SUFFICES ASSUME Session, Connection, [Next]_vars PROVE Connection'
    OBVIOUS
<1>. USE DEF Connection, Apart
<1>0. ASSUME NEW l \in BOOLEAN, Disconnect(l)
      PROVE  link' \in BOOLEAN /\ halfOpen' \in BOOLEAN /\ (link' => halfOpen')
    <2>1. (link' = FALSE /\ halfOpen' = FALSE) \/ (link' = l /\ halfOpen' = l)
        BY <1>0, Zenon DEF Disconnect
    <2>2. CASE link' = FALSE /\ halfOpen' = FALSE
        BY <2>2
    <2>3. CASE link' = l /\ halfOpen' = l
        <3>1. l = TRUE \/ l = FALSE
            BY <1>0
        <3>. QED
            BY <2>3, <3>1
    <2>. QED
        BY <2>1, <2>2, <2>3
<1>1. CASE UNCHANGED <<mine, bt>> /\ (pc \in Apart \/ pc' \notin Apart)
    BY <1>1 DEF mine, bt, air
<1>2. Wake => Connection'
    BY DEF Wake, AdapterForgotten, bt, air
<1>3. ASSUME Open PROVE Connection'
    <2>1. pc = "open" /\ UNCHANGED <<hci, device, stuck, late, link, halfOpen>>
        BY <1>3 DEF Open, air
    <2>2. regPin' \in BOOLEAN /\ agent' \in BOOLEAN
        BY <1>3 DEF Open, Register
    <2>3. target' \in {0, 1} /\ cached' \in {0, 1, None}
        BY <1>3 DEF Open, UseAdapter, Adapter
    <2>. QED
        BY <2>1, <2>2, <2>3
<1>4. Connect => Connection'
    BY DEF Connect, mine
<1>5. ASSUME ConnectFails PROVE Connection'
    <2>1. UNCHANGED <<regPin, target, cached, hci, agent, device, late>> /\ pc = "connect"
        BY <1>5 DEF ConnectFails, mine
    <2>2. \/ link' = link /\ halfOpen' = halfOpen
          \/ \E l \in BOOLEAN : Disconnect(l)
        BY <1>5 DEF ConnectFails, Cleared, ConnectingFailed, air
    <2>3. stuck' \in BOOLEAN
        BY <1>5 DEF ConnectFails, Cleared
    <2>. QED
        BY <1>0, <2>1, <2>2, <2>3
<1>6. ConnectHangs => Connection'
    BY DEF ConnectHangs, mine, air
<1>7. ASSUME LateEnds PROVE Connection'
    <2>1. UNCHANGED <<pc, regPin, target, cached, hci, agent, stuck>>
        BY <1>7 DEF LateEnds, mine
    <2>2. \/ late = "pending" /\ late' = "none" /\ UNCHANGED <<link, halfOpen, device>>
          \/ late' = "none" /\ device' = device /\ \E l \in BOOLEAN : Disconnect(l)
          \/ late' = "linked" /\ link' = TRUE /\ halfOpen' = FALSE /\ device' = "paired"
        BY <1>7 DEF LateEnds, Drained, ConnectingFailed, air
    <2>3. CASE late = "pending" /\ late' = "none" /\ UNCHANGED <<link, halfOpen, device>>
        BY <2>1, <2>3
    <2>4. CASE late' = "linked" /\ link' = TRUE /\ halfOpen' = FALSE /\ device' = "paired"
        BY <2>1, <2>4
    <2>5. CASE late' = "none" /\ device' = device /\ \E l \in BOOLEAN : Disconnect(l)
        BY <1>0, <2>1, <2>5
    <2>. QED
        BY <2>2, <2>3, <2>4, <2>5
<1>8. Find => Connection'
    BY DEF Find, Adapter, air
<1>9. ASSUME Close PROVE Connection'
    <2>1. UNCHANGED <<regPin, target, cached, hci, agent, device, stuck, late>>
        BY <1>9 DEF Close, mine
    <2>2. link \in BOOLEAN /\ Disconnect(link)
        BY <1>9 DEF Close
    <2>. QED
        BY <1>0, <2>1, <2>2
<1>10. Cancelled => Connection'
    BY DEF Cancelled, Abandon, mine, air
<1>11. AdapterReset \/ DaemonRestarts \/ RadioLost => Connection'
    BY DEF AdapterReset, DaemonRestarts, RadioLost, LinkGone, mine
<1>12. Ask \/ TakeSignal \/ Fetch \/ TimesOut \/ Save
       => UNCHANGED <<mine, bt>> /\ pc' \notin Apart
    BY DEF Ask, TakeSignal, Fetch, TimesOut, Save, Abandon, NextKind
<1>13. HourPasses \/ Answer \/ AnswerLost \/ Stop \/ CalmDown \/ UNCHANGED vars
       => UNCHANGED <<mine, bt>> /\ pc' = pc
    BY DEF HourPasses, Answer, AnswerLost, Stop, CalmDown, vars
<1>. QED
    BY <1>1, <1>2, <1>3, <1>4, <1>5, <1>6, <1>7, <1>8, <1>9, <1>10, <1>11, <1>12, <1>13
       DEF Next, Poller

LEMMA EndingStep == Ending /\ [Next]_vars => Ending'
<1>. SUFFICES ASSUME Ending, [Next]_vars PROVE Ending'
    OBVIOUS
<1>. USE Ce308Assumption DEF Ending
<1>1. CASE UNCHANGED env
    BY <1>1 DEF env
<1>2. Poller => UNCHANGED env
    BY DEF Poller, Wake, Open, Connect, ConnectFails, Find, Ask, TakeSignal, Fetch, TimesOut,
           Save, Close, Cancelled
<1>3. ConnectHangs \/ LateEnds \/ Answer \/ AnswerLost \/ HourPasses \/ UNCHANGED vars
      => UNCHANGED env
    BY DEF ConnectHangs, LateEnds, Answer, AnswerLost, HourPasses, vars, env
<1>4. Disturbance => Ending'
    BY DEF Disturbance
<1>5. Stop \/ CalmDown => Ending'
    BY DEF Stop, CalmDown
<1>. QED
    BY <1>1, <1>2, <1>3, <1>4, <1>5 DEF Next, AdapterReset, DaemonRestarts, RadioLost

LEMMA Ce308InvStep == Ce308Inv /\ [Next]_vars => Ce308Inv'
    BY SessionStep, OutageStep, ConnectionStep, EndingStep DEF Ce308Inv

LEMMA Ce308Types == Ce308Inv => TypeOK
<1>. SUFFICES ASSUME Ce308Inv PROVE TypeOK
    OBVIOUS
<1>1. vals \in [1..Len(vals) -> 1..Kinds] /\ Len(vals) \in 0..Kinds
    BY Ce308Assumption DEF Ce308Inv, Session
<1>2. vals \in UNION {[1..n -> 1..Kinds] : n \in 0..Kinds}
    BY <1>1
<1>. QED
    BY <1>2 DEF Ce308Inv, Session, States308, Outage, Connection, Ending, TypeOK

LEMMA Ce308Sessions == Ce308Inv => SessionsAreClean
    BY DEF Ce308Inv, Session, Outage, Connection, Apart,
           SessionsAreClean, NoLeak, NothingFromBefore, OneRecordPerOutage

\* The poller, bluetoothd and the meter keep their types: no more commands
\* wait at the meter than its retries allow, and what is saved has one answer
\* for each kind.
THEOREM Ce308TypeCorrect == Spec => []TypeOK
    BY Ce308InvInit, Ce308InvStep, Ce308Types, PTL DEF Spec

\* A session of the CE308 leaves no link, no old answer and no second record
\* of its outage behind, for any retries and disturbances.
THEOREM Ce308SessionsAreClean == Spec => []SessionsAreClean
    BY Ce308InvInit, Ce308InvStep, Ce308Sessions, PTL DEF Spec

-----------------------------------------------------------------------------
(* The link to a Modbus meter.                                             *)

LEMMA LinkAssumed ==
    /\ Size \in [L!Stages -> Nat \ {0}] /\ Depth \in Nat \ {0}
    /\ \A b, c \in L!Blocks : Size[b] = Size[c] => b = c
    BY DevicesAssumption DEF L!MeterLinkAssumption

Request == [blk : L!Stages, own : BOOLEAN, half : BOOLEAN]
Waits   == {"wait", "skipped", "body", "stale"}  \* the client reads

LinkTypes ==
    /\ mode \in L!Modes /\ conn \in {"none", "up", "dead"}
    /\ pending \in Seq(Request) /\ Len(pending) <= Depth
    /\ inbox \in Seq(L!Frame)
    /\ linkPc \in {"idle", "ask"} \cup Waits
    /\ linkStage \in L!Stages /\ linkTry \in {1, 2}
    /\ linkTry = 2 => linkStage \in L!Blocks
    /\ clean \in BOOLEAN /\ linkCalm \in BOOLEAN
    /\ answer \in {"own", "late", "stale", "foreign"}
    /\ linkLast \in {"none", "ok", "failed"}

\* Nothing is on its way without a connection, and an exception comes whole.
Wire ==
    /\ conn # "up" => pending = <<>> /\ inbox = <<>>
    /\ \A i \in 1..Len(inbox) : inbox[i].part = "head" => ~inbox[i].exc

\* The frame whose rest is waited for is one that fits the request.
Body ==
    linkPc = "body" /\ conn = "up" =>
        /\ inbox # <<>>
        /\ inbox[1].part = "head" /\ L!Fits(inbox[1]) /\ L!RightSize(inbox[1])

\* Without transaction ids: where no older request was waiting when this one
\* was written, all that comes is this one's.
Clean ==
    mode # "tcp" /\ linkPc \in Waits /\ clean =>
        /\ \A i \in 1..Len(pending) : pending[i].own
        /\ \A i \in 1..Len(inbox) : inbox[i].own \/ inbox[i].part = "rest"

\* Where every timeout closes the connection one request at most is waiting,
\* and none of its answer has come but perhaps the first bytes.
Solo ==
    mode = "rtu" =>
        /\ linkPc \in {"idle", "ask"} => pending = <<>>
        /\ linkPc \in Waits =>
              /\ clean /\ Len(pending) <= 1
              /\ pending # <<>> /\ ~pending[1].half => inbox = <<>>
              /\ pending # <<>> /\ pending[1].half =>
                    Len(inbox) <= 1 /\ (inbox # <<>> => inbox[1].part = "head")

Owned == answer = "own" \/ (mode = "keep" /\ answer = "late")

LinkInv == LinkTypes /\ Wire /\ Body /\ Clean /\ Solo /\ Owned

LEMMA LinkInit == L!Init => LinkInv
<1>. SUFFICES ASSUME L!Init PROVE LinkInv
    OBVIOUS
<1>1. pending = <<>> /\ inbox = <<>> /\ conn = "none" /\ linkPc = "idle" /\ answer = "own"
    BY DEF L!Init
<1>2. LinkTypes
    <2>1. pending \in Seq(Request) /\ inbox \in Seq(L!Frame) /\ Len(pending) <= Depth
        BY <1>1, LinkAssumed
    <2>2. linkStage \in L!Stages /\ linkTry = 1 /\ linkLast = "none" /\ mode \in L!Modes
        BY DEF L!Init, L!Stages, L!Blocks
    <2>3. clean \in BOOLEAN /\ linkCalm \in BOOLEAN
        BY DEF L!Init
    <2>. QED
        BY <1>1, <2>1, <2>2, <2>3 DEF LinkTypes
<1>3. Wire /\ Body /\ Clean /\ Solo /\ Owned
    BY <1>1 DEF Wire, Body, Clean, Solo, Owned, Waits
<1>. QED
    BY <1>2, <1>3 DEF LinkInv

LEMMA ForeignRequests ==
    ASSUME NEW q \in Seq(Request)
    PROVE  /\ L!Foreign(q) \in Seq(Request) /\ Len(L!Foreign(q)) = Len(q)
           /\ \A i \in 1..Len(q) : L!Foreign(q)[i] = [q[i] EXCEPT !.own = FALSE]
<1>1. ASSUME NEW i \in 1..Len(q) PROVE [q[i] EXCEPT !.own = FALSE] \in Request
    <2>1. q[i] \in Request
        BY ElementOfSeq
    <2>. QED
        BY <2>1 DEF Request
<1>2. DOMAIN q = 1..Len(q) /\ Len(q) \in Nat
    OBVIOUS
<1>3. L!Foreign(q) = [i \in 1..Len(q) |-> [q[i] EXCEPT !.own = FALSE]]
    BY <1>2 DEF L!Foreign
<1>. QED
    BY <1>1, <1>2, <1>3

LEMMA ForeignFrames ==
    ASSUME NEW q \in Seq(L!Frame)
    PROVE  /\ L!Foreign(q) \in Seq(L!Frame) /\ Len(L!Foreign(q)) = Len(q)
           /\ \A i \in 1..Len(q) : L!Foreign(q)[i] = [q[i] EXCEPT !.own = FALSE]
<1>1. ASSUME NEW i \in 1..Len(q) PROVE [q[i] EXCEPT !.own = FALSE] \in L!Frame
    <2>1. q[i] \in L!Frame
        BY ElementOfSeq
    <2>. QED
        BY <2>1 DEF L!Frame
<1>2. DOMAIN q = 1..Len(q) /\ Len(q) \in Nat
    OBVIOUS
<1>3. L!Foreign(q) = [i \in 1..Len(q) |-> [q[i] EXCEPT !.own = FALSE]]
    BY <1>2 DEF L!Foreign
<1>. QED
    BY <1>1, <1>2, <1>3

LEMMA NothingLeft == ASSUME NEW T, NEW q \in Seq(T), Len(q) = 0 PROVE q = <<>>
    OBVIOUS

\* The poll goes on with another request, or ends.
LEMMA ProceedTypes ==
    ASSUME LinkTypes, NEW result, L!Proceed(result)
    PROVE  /\ linkPc' \in {"idle", "ask"} /\ linkStage' \in L!Stages /\ linkTry' \in {1, 2}
           /\ linkTry' = 2 => linkStage' \in L!Blocks
           /\ linkLast' \in {"none", "ok", "failed"}
<1>1. CASE L!Repeats(result)
    <2>1. linkPc' = "ask" /\ linkTry' = 2 /\ UNCHANGED <<linkStage, linkLast>>
        BY <1>1 DEF L!Proceed
    <2>2. linkStage \in L!Blocks
        BY <1>1 DEF L!Repeats, LinkTypes, L!Stages
    <2>. QED
        BY <2>1, <2>2 DEF LinkTypes
<1>2. CASE ~L!Repeats(result)
    <2>1. PICK next : IF next \in L!Stages
                      THEN /\ linkPc' = "ask" /\ linkTry' = 1 /\ linkStage' = next
                           /\ UNCHANGED linkLast
                      ELSE L!Ended(next = "end")
        BY <1>2 DEF L!Proceed
    <2>2. CASE next \in L!Stages
        BY <2>1, <2>2 DEF LinkTypes
    <2>3. CASE next \notin L!Stages
        BY <2>1, <2>3 DEF L!Ended, L!Stages, L!Blocks
    <2>. QED
        BY <2>2, <2>3
<1>. QED
    BY <1>1, <1>2

\* The connection is closed and the poll goes on.
LEMMA Closing ==
    ASSUME LinkInv, NEW result, L!Proceed(result), L!Close,
           UNCHANGED <<mode, clean, answer, linkCalm>>
    PROVE  LinkInv'
<1>1. conn' = "none" /\ pending' = <<>> /\ inbox' = <<>>
    BY DEF L!Close
<1>2. LinkTypes
    BY DEF LinkInv
<1>3. linkPc' \in {"idle", "ask"}
    BY <1>2, ProceedTypes
<1>4. LinkTypes'
    <2>1. pending' \in Seq(Request) /\ inbox' \in Seq(L!Frame) /\ Len(pending') <= Depth
        BY <1>1, LinkAssumed
    <2>. QED
        BY <1>1, <1>2, <2>1, ProceedTypes DEF LinkTypes
<1>5. Wire' /\ Body' /\ Clean' /\ Solo'
    BY <1>1, <1>3 DEF Wire, Body, Clean, Solo, Waits
<1>6. Owned'
    BY DEF LinkInv, Owned
<1>. QED
    BY <1>4, <1>5, <1>6 DEF LinkInv

\* The connection is kept and the poll goes on.
LEMMA Keeping ==
    ASSUME LinkInv, NEW result, L!Proceed(result), conn = "up",
           UNCHANGED <<mode, conn, pending, clean, linkCalm>>,
           inbox' \in Seq(L!Frame),
           \A i \in 1..Len(inbox') : inbox'[i].part = "head" => ~inbox'[i].exc,
           mode = "rtu" => pending = <<>>,
           answer' \in {"own", "late"}, Owned'
    PROVE  LinkInv'
<1>1. LinkTypes
    BY DEF LinkInv
<1>2. linkPc' \in {"idle", "ask"}
    BY <1>1, ProceedTypes
<1>3. LinkTypes'
    BY <1>1, ProceedTypes DEF LinkTypes
<1>4. Wire' /\ Body' /\ Clean' /\ Solo'
    BY <1>2 DEF Wire, Body, Clean, Solo, Waits
<1>. QED
    BY <1>3, <1>4 DEF LinkInv

\* What is taken for the answer of a request is its own, or late where an
\* older request was waiting.
LEMMA OwnVerdict ==
    ASSUME LinkInv, linkPc \in Waits, NEW f \in L!Frame,
           f.part # "rest", ~f.exc, L!Fits(f), L!RightSize(f),
           mode # "tcp" /\ clean => f.own
    PROVE  L!Verdict(f) = "own" \/ (mode = "keep" /\ L!Verdict(f) = "late")
<1>1. f.blk \in L!Stages /\ linkStage \in L!Stages /\ mode \in L!Modes
    BY DEF LinkInv, LinkTypes, L!Frame
<1>2. f.blk = linkStage
    <2>1. CASE linkStage = "set"
        BY <2>1 DEF L!Fits, L!Echo
    <2>2. CASE linkStage # "set"
        <3>1. f.blk \in L!Blocks /\ linkStage \in L!Blocks
            BY <1>1, <2>2 DEF L!Fits, L!Data, L!Stages
        <3>. QED
            BY <3>1, LinkAssumed DEF L!RightSize
    <2>. QED
        BY <2>1, <2>2
<1>3. CASE f.own
    BY <1>2, <1>3 DEF L!Verdict
<1>4. CASE ~f.own
    <2>1. mode # "tcp" /\ ~clean
        BY <1>4 DEF L!Fits
    <2>2. mode = "keep"
        BY <1>1, <2>1 DEF LinkInv, Solo, L!Modes
    <2>. QED
        BY <1>2, <1>4, <2>1, <2>2 DEF L!Verdict
<1>. QED
    BY <1>3, <1>4

\* The first pieces are read.
LEMMA LaterFrames ==
    ASSUME LinkInv, inbox # <<>>
    PROVE  /\ Len(inbox) >= 1 /\ Len(inbox) \in Nat
           /\ Head(inbox) = inbox[1] /\ inbox[1] \in L!Frame
           /\ Tail(inbox) \in Seq(L!Frame) /\ Len(Tail(inbox)) = Len(inbox) - 1
           /\ \A i \in 1..Len(Tail(inbox)) : Tail(inbox)[i] = inbox[i + 1]
<1>1. inbox \in Seq(L!Frame)
    BY DEF LinkInv, LinkTypes
<1>2. Len(inbox) \in Nat /\ Len(inbox) # 0
    BY <1>1, NothingLeft
<1>. QED
    BY <1>1, <1>2, HeadTailProperties, ElementOfSeq

LEMMA LaterRequests ==
    ASSUME LinkInv, pending # <<>>
    PROVE  /\ Len(pending) >= 1 /\ Len(pending) \in Nat
           /\ Head(pending) = pending[1] /\ pending[1] \in Request
           /\ Tail(pending) \in Seq(Request) /\ Len(Tail(pending)) = Len(pending) - 1
           /\ \A i \in 1..Len(Tail(pending)) : Tail(pending)[i] = pending[i + 1]
<1>1. pending \in Seq(Request)
    BY DEF LinkInv, LinkTypes
<1>2. Len(pending) \in Nat /\ Len(pending) # 0
    BY <1>1, NothingLeft
<1>. QED
    BY <1>1, <1>2, HeadTailProperties, ElementOfSeq

LEMMA ReadHeaderStep == ASSUME LinkInv, L!ReadHeader PROVE LinkInv'
<1>. DEFINE f == Head(inbox)
            skips == mode # "tcp" /\ linkStage # "set" /\ linkPc = "wait"
<1>1. /\ linkPc \in {"wait", "skipped"} /\ inbox # <<>>
      /\ UNCHANGED <<mode, clean, linkCalm>>
    BY DEF L!ReadHeader
<1>2. /\ f = inbox[1] /\ f \in L!Frame /\ linkPc \in Waits /\ conn = "up"
      /\ f.part = "head" => ~f.exc
    BY <1>1, LaterFrames DEF LinkInv, Wire, Waits
<1>3. /\ Tail(inbox) \in Seq(L!Frame)
      /\ \A i \in 1..Len(Tail(inbox)) : Tail(inbox)[i].part = "head" => ~Tail(inbox)[i].exc
    BY <1>1, LaterFrames DEF LinkInv, Wire
<1>4. mode = "rtu" /\ f.part # "head" => pending = <<>>
    <2>1. ASSUME mode = "rtu", pending # <<>> PROVE f.part = "head"
        <3>1. CASE pending[1].half
            BY <1>1, <1>2, <2>1, <3>1 DEF LinkInv, Solo
        <3>2. CASE ~pending[1].half
            BY <1>1, <1>2, <2>1, <3>2 DEF LinkInv, Solo
        <3>. QED
            BY <3>1, <3>2
    <2>. QED
        BY <2>1
<1>5. answer \in {"own", "late"} /\ Owned /\ LinkTypes
    BY DEF LinkInv, Owned
<1>6. CASE L!Refuse
    BY <1>1, <1>6, Closing DEF L!Refuse
<1>7. CASE /\ L!Fits(f) /\ f.exc
           /\ IF mode = "keep" /\ linkStage # "set"
              THEN L!Close ELSE inbox' = Tail(inbox) /\ UNCHANGED <<conn, pending>>
           /\ L!Proceed("error") /\ UNCHANGED answer
    <2>1. CASE L!Close
        BY <1>1, <1>7, <2>1, Closing
    <2>2. CASE inbox' = Tail(inbox) /\ UNCHANGED <<conn, pending>>
        <3>1. Owned'
            BY <1>1, <1>5, <1>7 DEF Owned
        <3>. QED
            BY <1>1, <1>2, <1>3, <1>4, <1>5, <1>7, <2>2, <3>1, Keeping
    <2>. QED
        BY <1>7, <2>1, <2>2
<1>8. CASE /\ L!Fits(f) /\ ~f.exc /\ f.part = "whole" /\ L!RightSize(f)
           /\ inbox' = Tail(inbox) /\ L!Take(f)
    <2>1. mode # "tcp" /\ clean => f.own
        BY <1>1, <1>2, <1>8, LaterFrames DEF LinkInv, Clean
    <2>2. L!Verdict(f) = "own" \/ (mode = "keep" /\ L!Verdict(f) = "late")
        BY <1>2, <1>8, <2>1, OwnVerdict
    <2>3. answer' = L!Verdict(f) /\ L!Proceed("ok") /\ UNCHANGED <<conn, pending>>
        BY <1>8 DEF L!Take
    <2>4. Owned' /\ answer' \in {"own", "late"}
        BY <1>1, <2>2, <2>3 DEF Owned
    <2>. QED
        BY <1>1, <1>2, <1>3, <1>4, <1>8, <2>3, <2>4, Keeping
<1>9. CASE f.part = "whole" /\ skips /\ inbox' = Tail(inbox) /\ L!Skip
    <2>1. linkPc' = "skipped" /\ UNCHANGED <<conn, pending, linkStage, linkTry, answer, linkLast>>
        BY <1>9 DEF L!Skip
    <2>2. LinkTypes' /\ Wire' /\ Body' /\ Owned'
        BY <1>1, <1>2, <1>3, <1>5, <1>9, <2>1 DEF LinkTypes, Wire, Body, Owned, Waits
    <2>3. Clean'
        BY <1>1, <1>2, <1>9, <2>1, LaterFrames DEF LinkInv, Clean
    <2>4. Solo'
        <3>1. mode = "rtu" => pending' = <<>> /\ Len(pending') <= 1 /\ clean'
            BY <1>1, <1>2, <1>4, <1>9, <2>1 DEF LinkInv, Solo
        <3>. QED
            BY <1>1, <2>1, <3>1 DEF Solo
    <2>. QED
        BY <2>2, <2>3, <2>4 DEF LinkInv
<1>10. CASE /\ L!Fits(f) /\ f.part = "head"
            /\ linkPc' = IF L!RightSize(f) THEN "body" ELSE "stale"
            /\ UNCHANGED <<conn, pending, inbox, linkStage, linkTry, answer, linkLast>>
    <2>1. LinkTypes' /\ Wire' /\ Owned'
        BY <1>1, <1>5, <1>10 DEF LinkInv, LinkTypes, Wire, Owned, Waits
    <2>2. Body'
        BY <1>1, <1>2, <1>10
           DEF Body, L!Fits, L!RightSize, L!Echo, L!Data
    <2>3. Clean' /\ Solo'
        BY <1>1, <1>2, <1>10 DEF LinkInv, Clean, Solo, Waits
    <2>. QED
        BY <2>1, <2>2, <2>3 DEF LinkInv
<1>. QED
    BY <1>6, <1>7, <1>8, <1>9, <1>10 DEF L!ReadHeader

LEMMA ReadRestStep == ASSUME LinkInv, L!ReadRest PROVE LinkInv'
<1>. DEFINE f == Head(inbox)
<1>1. /\ linkPc \in {"body", "stale"} /\ Len(inbox) > 1 /\ inbox' = Tail(Tail(inbox))
      /\ UNCHANGED <<mode, clean, linkCalm>>
      /\ IF linkPc = "body" THEN L!Take(f) ELSE L!Skip
    BY DEF L!ReadRest
<1>2. inbox # <<>>
    BY <1>1
<1>3. f = inbox[1] /\ f \in L!Frame /\ linkPc \in Waits /\ conn = "up"
    BY <1>1, <1>2, LaterFrames DEF LinkInv, Wire, Waits
<1>4. /\ inbox' \in Seq(L!Frame) /\ Len(inbox') = Len(inbox) - 2
      /\ \A i \in 1..Len(inbox') : inbox'[i] = inbox[i + 2]
    <2>1. Tail(inbox) \in Seq(L!Frame) /\ Len(Tail(inbox)) = Len(inbox) - 1
          /\ Len(inbox) \in Nat
        BY <1>2, LaterFrames
    <2>2. Tail(inbox) # <<>>
        <3>1. Len(Tail(inbox)) # 0 /\ Len(<<>>) = 0
            BY <1>1, <2>1
        <3>. QED
            BY <3>1
    <2>3. /\ Tail(Tail(inbox)) \in Seq(L!Frame)
          /\ Len(Tail(Tail(inbox))) = Len(inbox) - 2
          /\ \A i \in 1..Len(Tail(Tail(inbox))) : Tail(Tail(inbox))[i] = Tail(inbox)[i + 1]
        BY <2>1, <2>2, HeadTailProperties
    <2>4. \A i \in 1..(Len(inbox) - 1) : Tail(inbox)[i] = inbox[i + 1]
        BY <1>2, <2>1, LaterFrames
    <2>5. ASSUME NEW i \in 1..(Len(inbox) - 2) PROVE Tail(Tail(inbox))[i] = inbox[i + 2]
        <3>1. i + 1 \in 1..(Len(inbox) - 1) /\ (i + 1) + 1 = i + 2
            BY <2>1
        <3>. QED
            BY <2>3, <2>4, <3>1
    <2>. QED
        BY <1>1, <2>3, <2>5
<1>5. /\ \A i \in 1..Len(inbox') : inbox'[i].part = "head" => ~inbox'[i].exc
      /\ \A i \in 1..Len(inbox') : i + 2 \in 1..Len(inbox)
    <2>1. Len(inbox) \in Nat
        BY <1>2, LaterFrames
    <2>. QED
        BY <1>4, <2>1 DEF LinkInv, Wire
<1>6. mode = "rtu" => pending = <<>>
    <2>1. ASSUME mode = "rtu", pending # <<>> PROVE FALSE
        <3>1. CASE pending[1].half
            BY <1>1, <1>3, <2>1, <3>1, LaterFrames DEF LinkInv, Solo
        <3>2. CASE ~pending[1].half
            BY <1>2, <1>3, <2>1, <3>2 DEF LinkInv, Solo
        <3>. QED
            BY <3>1, <3>2
    <2>. QED
        BY <2>1
<1>7. CASE linkPc = "body"
    <2>1. f.part = "head" /\ ~f.exc /\ L!Fits(f) /\ L!RightSize(f)
        BY <1>2, <1>3, <1>7, LaterFrames DEF LinkInv, Body, Wire
    <2>2. mode # "tcp" /\ clean => f.own
        BY <1>2, <1>3, <2>1, LaterFrames DEF LinkInv, Clean
    <2>3. L!Verdict(f) = "own" \/ (mode = "keep" /\ L!Verdict(f) = "late")
        BY <1>3, <2>1, <2>2, OwnVerdict
    <2>4. answer' = L!Verdict(f) /\ L!Proceed("ok") /\ UNCHANGED <<conn, pending>>
        BY <1>1, <1>7 DEF L!Take
    <2>5. Owned' /\ answer' \in {"own", "late"}
        BY <1>1, <2>3, <2>4 DEF Owned
    <2>. QED
        BY <1>1, <1>3, <1>4, <1>5, <1>6, <2>4, <2>5, Keeping
<1>8. CASE linkPc = "stale"
    <2>1. linkPc' = "skipped" /\ UNCHANGED <<conn, pending, linkStage, linkTry, answer, linkLast>>
        BY <1>1, <1>8 DEF L!Skip
    <2>2. LinkTypes' /\ Wire' /\ Body' /\ Owned'
        BY <1>1, <1>3, <1>4, <1>5, <2>1 DEF LinkInv, LinkTypes, Wire, Body, Owned, Waits
    <2>3. Clean'
        BY <1>1, <1>3, <1>4, <1>5, <2>1 DEF LinkInv, Clean
    <2>4. Solo'
        <3>1. mode = "rtu" => pending' = <<>> /\ Len(pending') <= 1 /\ clean'
            BY <1>1, <1>3, <1>6, <2>1 DEF LinkInv, Solo
        <3>. QED
            BY <1>1, <2>1, <3>1 DEF Solo
    <2>. QED
        BY <2>2, <2>3, <2>4 DEF LinkInv
<1>. QED
    BY <1>1, <1>7, <1>8

\* Where every timeout closes the connection, what is waiting is the one
\* request of a client that reads.
LEMMA OneRequest ==
    ASSUME LinkInv, mode = "rtu", pending # <<>>
    PROVE  /\ linkPc \in Waits /\ linkPc \notin {"idle", "ask"} /\ clean
           /\ Len(pending) = 1
           /\ ~pending[1].half => inbox = <<>>
<1>1. Len(pending) \in Nat /\ Len(pending) # 0
    BY NothingLeft DEF LinkInv, LinkTypes
<1>0. linkPc \in {"idle", "ask"} \cup Waits
    BY DEF LinkInv, LinkTypes
<1>2. linkPc \notin {"idle", "ask"}
    BY DEF LinkInv, Solo
<1>3. clean /\ (~pending[1].half => inbox = <<>>)
    BY <1>0, <1>2 DEF LinkInv, Solo
<1>4. Len(pending) <= 1
    BY <1>0, <1>2 DEF LinkInv, Solo
<1>5. \A n \in Nat : n # 0 /\ n <= 1 => n = 1
    OBVIOUS
<1>6. Len(pending) = 1
    BY <1>1, <1>4, <1>5
<1>. QED
    BY <1>0, <1>2, <1>3, <1>6

LEMMA DeliverStep ==
    ASSUME LinkInv, NEW piece \in {"whole", "head"}, L!Deliver(piece) PROVE LinkInv'
<1>1. /\ pending # <<>> /\ ~Head(pending).half
      /\ pending' = IF piece = "whole" THEN Tail(pending)
                                       ELSE [pending EXCEPT ![1].half = TRUE]
      /\ UNCHANGED <<mode, conn, linkPc, linkStage, linkTry, clean, answer, linkLast, linkCalm>>
    BY DEF L!Deliver
<1>2. PICK exc \in BOOLEAN :
          /\ piece = "head" => ~exc
          /\ inbox' = Append(inbox, [blk |-> Head(pending).blk, exc |-> exc,
                                     own |-> Head(pending).own, part |-> piece])
    BY DEF L!Deliver
<1>3. LinkTypes /\ Wire /\ Body /\ Clean /\ Solo /\ Owned
    BY DEF LinkInv
<1>. DEFINE new == [blk |-> pending[1].blk, exc |-> exc, own |-> pending[1].own, part |-> piece]
<1>4. pending[1] \in Request /\ Len(pending) >= 1 /\ Len(pending) \in Nat
    BY <1>1, LaterRequests
<1>5. new \in L!Frame /\ new.part = piece /\ new.exc = exc /\ new.own = pending[1].own
    BY <1>4 DEF Request, L!Frame
<1>6. inbox' = Append(inbox, new)
    BY <1>1, <1>2, LaterRequests
<1>. HIDE DEF new
<1>7. /\ inbox' \in Seq(L!Frame) /\ Len(inbox') = Len(inbox) + 1 /\ Len(inbox) \in Nat
      /\ \A i \in 1..Len(inbox) : inbox'[i] = inbox[i]
      /\ inbox'[Len(inbox) + 1] = new
    BY <1>3, <1>5, <1>6, AppendProperties DEF LinkTypes
<1>8. \A i \in 1..Len(inbox') : i \in 1..Len(inbox) \/ i = Len(inbox) + 1
    BY <1>7
<1>9. CASE piece = "whole"
    <2>1. /\ pending' \in Seq(Request) /\ Len(pending') = Len(pending) - 1
          /\ \A i \in 1..Len(pending') : pending'[i] = pending[i + 1] /\ i + 1 \in 1..Len(pending)
        BY <1>1, <1>4, <1>9, LaterRequests
    <2>. QED
        <3>1. LinkTypes'
            BY <1>1, <1>3, <1>4, <1>7, <2>1, LinkAssumed DEF LinkTypes
        <3>2. Wire'
            BY <1>1, <1>2, <1>3, <1>5, <1>7, <1>8, <1>9 DEF Wire
        <3>3. Clean'
            <4>. SUFFICES ASSUME mode # "tcp", linkPc \in Waits, clean
                          PROVE  /\ \A i \in 1..Len(pending') : pending'[i].own
                                 /\ \A i \in 1..Len(inbox') :
                                       inbox'[i].own \/ inbox'[i].part = "rest"
                BY <1>1 DEF Clean
            <4>1. /\ \A i \in 1..Len(pending) : pending[i].own
                  /\ \A i \in 1..Len(inbox) : inbox[i].own \/ inbox[i].part = "rest"
                BY <1>3 DEF Clean
            <4>2. \A i \in 1..Len(pending') : pending'[i].own
                BY <2>1, <4>1
            <4>3. new.own
                BY <1>4, <1>5, <4>1
            <4>. QED
                BY <1>7, <1>8, <4>1, <4>2, <4>3
        <3>4. Solo'
            <4>1. mode = "rtu" => linkPc \in Waits /\ linkPc \notin {"idle", "ask"} /\ clean
                BY <1>1, OneRequest
            <4>0. mode = "rtu" => Len(pending) = 1
                BY <1>1, OneRequest
            <4>2. pending' \in Seq(Request) /\ Len(pending') = Len(pending) - 1
                BY <2>1
            <4>3. ASSUME mode = "rtu" PROVE pending' = <<>> /\ Len(pending') <= 1
                <5>1. Len(pending') = 0
                    BY <4>0, <4>2, <4>3
                <5>2. pending' = <<>>
                    BY <4>2, <5>1, NothingLeft
                <5>. QED
                    BY <5>1, <5>2
            <4>. QED
                BY <1>1, <4>1, <4>3 DEF Solo
        <3>5. Body'
            <4>1. linkPc = "body" /\ conn = "up" => inbox'[1] = inbox[1] /\ inbox' # <<>>
                BY <1>3, <1>7, NothingLeft DEF Body, LinkTypes
            <4>. QED
                BY <1>1, <1>3, <4>1 DEF Body, L!Fits, L!RightSize, L!Echo, L!Data
        <3>. QED
            BY <1>1, <1>3, <3>1, <3>2, <3>3, <3>4, <3>5 DEF LinkInv, Owned
<1>10. CASE piece = "head"
    <2>1. /\ pending' = [pending EXCEPT ![1] = [pending[1] EXCEPT !.half = TRUE]]
          /\ [pending[1] EXCEPT !.half = TRUE] \in Request
        BY <1>1, <1>4, <1>10 DEF Request
    <2>2. /\ pending' \in Seq(Request) /\ Len(pending') = Len(pending)
          /\ \A i \in 1..Len(pending) : pending'[i].own = pending[i].own
          /\ pending'[1].half
        <3>1. pending \in Seq(Request) /\ 1 \in 1..Len(pending)
            BY <1>3, <1>4 DEF LinkTypes
        <3>2. /\ pending' \in Seq(Request) /\ Len(pending') = Len(pending)
              /\ \A i \in 1..Len(pending) :
                    pending'[i] = IF i = 1 THEN [pending[1] EXCEPT !.half = TRUE] ELSE pending[i]
            BY <2>1, <3>1, ExceptSeq
        <3>3. pending'[1].own = pending[1].own /\ pending'[1].half
            BY <1>4, <3>1, <3>2 DEF Request
        <3>4. ASSUME NEW i \in 1..Len(pending) PROVE pending'[i].own = pending[i].own
            BY <3>2, <3>3
        <3>. QED
            BY <3>2, <3>3, <3>4
    <2>. QED
        <3>1. LinkTypes'
            BY <1>1, <1>3, <1>4, <1>7, <2>2, LinkAssumed DEF LinkTypes
        <3>2. Wire'
            BY <1>1, <1>2, <1>3, <1>5, <1>7, <1>8, <1>10 DEF Wire
        <3>3. Clean'
            BY <1>1, <1>3, <1>4, <1>5, <1>7, <1>8, <2>2 DEF Clean
        <3>4. Solo'
            <4>1. mode = "rtu" => /\ linkPc \in Waits /\ linkPc \notin {"idle", "ask"}
                                  /\ clean /\ Len(pending) = 1 /\ inbox = <<>>
                BY <1>1, OneRequest, LaterRequests
            <4>2. mode = "rtu" => Len(inbox') = 1 /\ inbox'[1] = new
                <5>1. Len(<<>>) = 0
                    OBVIOUS
                <5>. QED
                    BY <1>7, <4>1, <5>1
            <4>3. inbox'[Len(inbox) + 1].part = "head" /\ pending'[1].half
                BY <1>5, <1>7, <1>10, <2>2
            <4>4. ASSUME mode = "rtu" PROVE inbox'[1].part = "head" /\ Len(pending') <= 1
                <5>1. inbox'[1].part = "head"
                    BY <1>5, <1>10, <4>2, <4>4
                <5>2. Len(pending') = 1
                    BY <2>2, <4>1, <4>4
                <5>. QED
                    BY <5>1, <5>2
            <4>5. ASSUME mode = "rtu" PROVE Len(inbox') <= 1
                <5>1. Len(inbox') = 1
                    BY <4>2, <4>5
                <5>. QED
                    BY <5>1
            <4>6. UNCHANGED <<mode, linkPc, clean>> /\ pending'[1].half
                BY <1>1, <4>3
            <4>7. mode = "rtu" => linkPc \notin {"idle", "ask"} /\ clean
                BY <4>1
            <4>. QED
                BY ONLY <4>4, <4>5, <4>6, <4>7 DEF Solo
        <3>5. Body'
            <4>1. linkPc = "body" /\ conn = "up" => inbox'[1] = inbox[1] /\ inbox' # <<>>
                BY <1>3, <1>7, NothingLeft DEF Body, LinkTypes
            <4>. QED
                BY <1>1, <1>3, <4>1 DEF Body, L!Fits, L!RightSize, L!Echo, L!Data
        <3>. QED
            BY <1>1, <1>3, <3>1, <3>2, <3>3, <3>4, <3>5 DEF LinkInv, Owned
<1>. QED
    BY <1>9, <1>10

LEMMA DeliverRestStep == ASSUME LinkInv, L!DeliverRest PROVE LinkInv'
<1>1. /\ pending # <<>> /\ Head(pending).half /\ pending' = Tail(pending)
      /\ inbox' = Append(inbox, [blk |-> Head(pending).blk, exc |-> FALSE,
                                 own |-> FALSE, part |-> "rest"])
      /\ UNCHANGED <<mode, conn, linkPc, linkStage, linkTry, clean, answer, linkLast, linkCalm>>
    BY DEF L!DeliverRest
<1>2. LinkTypes /\ Wire /\ Body /\ Clean /\ Solo /\ Owned
    BY DEF LinkInv
<1>. DEFINE new == [blk |-> pending[1].blk, exc |-> FALSE, own |-> FALSE, part |-> "rest"]
<1>3. pending[1] \in Request /\ Len(pending) >= 1 /\ Len(pending) \in Nat
    BY <1>1, LaterRequests
<1>4. new \in L!Frame /\ new.part = "rest"
    BY <1>3 DEF Request, L!Frame
<1>5. inbox' = Append(inbox, new)
    BY <1>1, LaterRequests
<1>. HIDE DEF new
<1>6. /\ inbox' \in Seq(L!Frame) /\ Len(inbox') = Len(inbox) + 1 /\ Len(inbox) \in Nat
      /\ \A i \in 1..Len(inbox) : inbox'[i] = inbox[i]
      /\ inbox'[Len(inbox) + 1] = new
    BY <1>2, <1>4, <1>5, AppendProperties DEF LinkTypes
<1>7. \A i \in 1..Len(inbox') : i \in 1..Len(inbox) \/ i = Len(inbox) + 1
    BY <1>6
<1>8. /\ pending' \in Seq(Request) /\ Len(pending') = Len(pending) - 1
      /\ \A i \in 1..Len(pending') : pending'[i] = pending[i + 1] /\ i + 1 \in 1..Len(pending)
    BY <1>1, <1>3, LaterRequests
<1>9. LinkTypes'
    BY <1>1, <1>2, <1>3, <1>6, <1>8, LinkAssumed DEF LinkTypes
<1>10. Wire'
    BY <1>1, <1>2, <1>4, <1>6, <1>7 DEF Wire
<1>11. Clean'
    BY <1>1, <1>2, <1>3, <1>4, <1>6, <1>7, <1>8 DEF Clean
<1>12. Solo'
    <2>1. mode = "rtu" => linkPc \in Waits /\ linkPc \notin {"idle", "ask"} /\ clean
        BY <1>1, OneRequest
    <2>0. mode = "rtu" => Len(pending) = 1
        BY <1>1, OneRequest
    <2>2. pending' \in Seq(Request) /\ Len(pending') = Len(pending) - 1
        BY <1>8
    <2>3. ASSUME mode = "rtu" PROVE pending' = <<>> /\ Len(pending') <= 1
        <3>1. Len(pending') = 0
            BY <2>0, <2>2, <2>3
        <3>2. pending' = <<>>
            BY <2>2, <3>1, NothingLeft
        <3>. QED
            BY <3>1, <3>2
    <2>. QED
        BY <1>1, <2>1, <2>3 DEF Solo
<1>13. Body'
    <2>1. linkPc = "body" /\ conn = "up" => inbox'[1] = inbox[1] /\ inbox' # <<>>
        BY <1>2, <1>6, NothingLeft DEF Body, LinkTypes
    <2>. QED
        BY <1>1, <1>2, <2>1 DEF Body, L!Fits, L!RightSize, L!Echo, L!Data
<1>. QED
    BY <1>1, <1>2, <1>9, <1>10, <1>11, <1>12, <1>13 DEF LinkInv, Owned

LEMMA LoseStep == ASSUME LinkInv, L!Lose PROVE LinkInv'
<1>1. /\ pending # <<>>
      /\ UNCHANGED <<mode, linkPc, linkStage, linkTry, clean, answer, linkLast, linkCalm>>
    BY DEF L!Lose
<1>2. LinkTypes /\ Wire /\ Body /\ Clean /\ Solo /\ Owned
    BY DEF LinkInv
<1>3. CASE pending' = Tail(pending) /\ UNCHANGED <<conn, inbox>>
    <2>1. /\ pending' \in Seq(Request) /\ Len(pending') = Len(pending) - 1
          /\ Len(pending) \in Nat
          /\ \A i \in 1..Len(pending') : pending'[i] = pending[i + 1] /\ i + 1 \in 1..Len(pending)
        BY <1>1, <1>3, LaterRequests
    <2>2. LinkTypes' /\ Clean'
        BY <1>1, <1>2, <1>3, <2>1, LinkAssumed DEF LinkTypes, Clean
    <2>3. Wire'
        BY <1>1, <1>2, <1>3 DEF Wire
    <2>4. Body'
        BY <1>1, <1>2, <1>3 DEF Body, L!Fits, L!RightSize, L!Echo, L!Data
    <2>5. Solo'
        <3>1. mode = "rtu" => linkPc \in Waits /\ clean /\ Len(pending) <= 1
            BY <1>1, <1>2 DEF Solo, LinkTypes
        <3>2. mode = "rtu" => Len(pending') = 0 /\ pending' = <<>>
            BY <1>1, <2>1, <3>1, LaterRequests, NothingLeft
        <3>. QED
            BY <1>1, <3>1, <3>2 DEF Solo
    <2>. QED
        BY <1>1, <1>2, <2>2, <2>3, <2>4, <2>5 DEF LinkInv, Owned
<1>4. CASE conn' = "dead" /\ pending' = <<>> /\ inbox' = <<>>
    <2>1. pending' \in Seq(Request) /\ inbox' \in Seq(L!Frame) /\ Len(pending') = 0
          /\ Len(inbox') = 0
        BY <1>4
    <2>2. LinkTypes' /\ Wire' /\ Body' /\ Clean'
        BY <1>1, <1>2, <1>4, <2>1, LinkAssumed DEF LinkTypes, Wire, Body, Clean
    <2>3. Solo'
        BY <1>1, <1>2, <1>4, <2>1 DEF Solo
    <2>. QED
        BY <1>1, <1>2, <2>2, <2>3 DEF LinkInv, Owned
<1>. QED
    BY <1>3, <1>4 DEF L!Lose

LEMMA AskStep == ASSUME LinkInv, L!Ask PROVE LinkInv'
<1>1. LinkTypes /\ Wire /\ Body /\ Clean /\ Solo /\ Owned
    BY DEF LinkInv
<1>2. PICK fresh \in IF conn = "up" THEN {FALSE} ELSE IF conn = "none" THEN {TRUE} ELSE BOOLEAN :
          LET old == IF fresh \/ conn = "dead" THEN <<>> ELSE L!Foreign(pending)
          IN  /\ conn' = IF fresh THEN "up" ELSE conn
              /\ pending' = IF Len(old) < Depth /\ conn' = "up"
                            THEN Append(old, [blk |-> linkStage, own |-> TRUE, half |-> FALSE])
                            ELSE old
              /\ inbox' = IF fresh THEN <<>> ELSE L!Foreign(L!Drained)
              /\ clean' = (old = <<>>)
    BY DEF L!Ask
<1>. DEFINE old == IF fresh \/ conn = "dead" THEN <<>> ELSE L!Foreign(pending)
            new == [blk |-> linkStage, own |-> TRUE, half |-> FALSE]
<1>3. /\ linkPc = "ask" /\ linkPc' = "wait"
      /\ UNCHANGED <<mode, linkStage, linkTry, answer, linkLast, linkCalm>>
    BY DEF L!Ask
<1>4. old \in Seq(Request) /\ Len(old) <= Len(pending) /\ Len(pending) \in Nat
    <2>1. pending \in Seq(Request)
        BY <1>1 DEF LinkTypes
    <2>2. CASE fresh \/ conn = "dead"
        BY <2>1, <2>2
    <2>3. CASE ~(fresh \/ conn = "dead")
        BY <2>1, <2>3, ForeignRequests
    <2>. QED
        BY <2>2, <2>3
<1>5. new \in Request /\ new.own /\ ~new.half
    BY <1>1 DEF LinkTypes, Request
<1>6. \/ pending' = old
      \/ pending' = Append(old, new) /\ Len(old) < Depth /\ conn' = "up"
    BY <1>2
<1>7. clean' = (old = <<>>) /\ conn' \in {"none", "up", "dead"}
    BY <1>1, <1>2 DEF LinkTypes
<1>8. conn' # "up" => conn = "dead" /\ old = <<>> /\ pending' = old
    BY <1>1, <1>2 DEF LinkTypes
<1>9. /\ L!Drained \in Seq(L!Frame)
      /\ \A i \in 1..Len(L!Drained) : L!Drained[i].part = "head" => ~L!Drained[i].exc
      /\ mode # "tcp" \/ conn # "up" => L!Drained = <<>>
    BY <1>1 DEF L!Drained, LinkTypes, Wire
<1>10. /\ inbox' \in Seq(L!Frame)
       /\ \A i \in 1..Len(inbox') : inbox'[i].part = "head" => ~inbox'[i].exc
       /\ mode # "tcp" \/ conn' # "up" => inbox' = <<>>
    <2>1. CASE fresh
        BY <1>2, <2>1
    <2>2. CASE ~fresh
        <3>1. inbox' = L!Foreign(L!Drained) /\ conn' = conn
            BY <1>2, <2>2
        <3>2. /\ inbox' \in Seq(L!Frame) /\ Len(inbox') = Len(L!Drained)
              /\ \A i \in 1..Len(inbox') :
                    inbox'[i] = [L!Drained[i] EXCEPT !.own = FALSE]
            BY <1>9, <3>1, ForeignFrames
        <3>3. ASSUME NEW i \in 1..Len(inbox'), inbox'[i].part = "head" PROVE ~inbox'[i].exc
            <4>1. L!Drained[i] \in L!Frame /\ i \in 1..Len(L!Drained)
                BY <1>9, <3>2, ElementOfSeq
            <4>2. inbox'[i].part = L!Drained[i].part /\ inbox'[i].exc = L!Drained[i].exc
                BY <3>2, <4>1 DEF L!Frame
            <4>. QED
                BY <1>9, <3>3, <4>1, <4>2
        <3>4. ASSUME mode # "tcp" \/ conn' # "up" PROVE inbox' = <<>>
            <4>1. Len(L!Drained) = 0
                BY <1>9, <3>1, <3>4
            <4>. QED
                BY <3>2, <4>1, NothingLeft
        <3>. QED
            BY <3>2, <3>3, <3>4
    <2>. QED
        BY <2>1, <2>2
<1>. HIDE DEF old, new
<1>11. /\ pending' \in Seq(Request) /\ Len(pending') <= Depth
       /\ old = <<>> => Len(pending') <= 1
                        /\ \A i \in 1..Len(pending') : pending'[i].own /\ ~pending'[i].half
    <2>1. CASE pending' = old
        <3>1. old = <<>> => Len(old) = 0
            OBVIOUS
        <3>. QED
            BY <1>1, <1>4, <2>1, <3>1, LinkAssumed DEF LinkTypes
    <2>2. CASE pending' = Append(old, new) /\ Len(old) < Depth
        <3>1. pending' \in Seq(Request) /\ Len(pending') = Len(old) + 1
              /\ pending'[Len(old) + 1] = new
            BY <1>4, <1>5, <2>2, AppendProperties
        <3>2. old = <<>> => Len(old) = 0
            OBVIOUS
        <3>3. Len(old) \in Nat
            BY <1>4
        <3>4. old = <<>> => \A i \in 1..Len(pending') : pending'[i] = new
            BY <3>1, <3>2
        <3>. QED
            BY <1>5, <2>2, <3>1, <3>2, <3>3, <3>4, LinkAssumed
    <2>. QED
        BY <1>6, <2>1, <2>2
<1>12. LinkTypes'
    <2>1. clean' \in BOOLEAN
        BY <1>7
    <2>. QED
        BY <1>1, <1>3, <1>7, <1>10, <1>11, <2>1 DEF LinkTypes, Waits
<1>13. Wire'
    BY <1>8, <1>10 DEF Wire
<1>14. Body'
    BY <1>3 DEF Body
<1>15. Clean'
    <2>1. mode # "tcp" /\ clean' => inbox' = <<>> /\ old = <<>> /\ Len(<<>>) = 0
        BY <1>7, <1>10
    <2>. QED
        BY <1>3, <1>11, <2>1 DEF Clean
<1>16. Solo'
    <2>1. mode = "rtu" => pending = <<>> /\ Len(pending) = 0
        BY <1>1, <1>3 DEF Solo
    <2>2. mode = "rtu" => old = <<>> /\ clean'
        <3>1. mode = "rtu" => Len(old) = 0
            BY <1>4, <2>1
        <3>. QED
            BY <1>4, <1>7, <3>1, NothingLeft
    <2>3. mode = "rtu" => inbox' = <<>>
        BY <1>10
    <2>4. mode = "rtu" /\ pending' # <<>> => ~pending'[1].half
        <3>1. pending' # <<>> => 1 \in 1..Len(pending')
            BY <1>11, NothingLeft
        <3>. QED
            BY <1>11, <2>2, <3>1
    <2>. QED
        BY <1>3, <1>11, <2>2, <2>3, <2>4 DEF Solo
<1>. QED
    BY <1>1, <1>3, <1>12, <1>13, <1>14, <1>15, <1>16 DEF LinkInv, Owned

LEMMA LinkInvStep == LinkInv /\ [L!Next]_(L!vars) => LinkInv'
<1>. SUFFICES ASSUME LinkInv, [L!Next]_(L!vars) PROVE LinkInv'
    OBVIOUS
<1>1. ASSUME NEW check \in BOOLEAN, L!Tick(check) PROVE LinkInv'
    <2>1. /\ linkPc = "idle" /\ linkPc' = "ask" /\ linkTry' = 1 /\ linkStage' \in L!Stages
          /\ UNCHANGED <<mode, conn, pending, inbox, clean, answer, linkLast, linkCalm>>
        BY <1>1 DEF L!Tick, L!Stages, L!Blocks
    <2>. QED
        BY <2>1 DEF LinkInv, LinkTypes, Wire, Body, Clean, Solo, Owned, Waits
<1>2. ASSUME L!Timeout PROVE LinkInv'
    <2>1. /\ conn = "up" /\ L!Proceed("timeout") /\ UNCHANGED <<mode, clean, answer, linkCalm>>
          /\ IF L!Keeps THEN UNCHANGED <<conn, pending, inbox>> ELSE L!Close
        BY <1>2 DEF L!Timeout
    <2>2. CASE L!Keeps
        <3>1. mode = "keep" /\ inbox' \in Seq(L!Frame) /\ UNCHANGED <<conn, pending>>
              /\ \A i \in 1..Len(inbox') : inbox'[i].part = "head" => ~inbox'[i].exc
            BY <2>1, <2>2 DEF L!Keeps, LinkInv, LinkTypes, Wire
        <3>2. answer' \in {"own", "late"} /\ Owned'
            BY <2>1 DEF LinkInv, Owned
        <3>. QED
            BY <2>1, <3>1, <3>2, Keeping
    <2>3. CASE ~L!Keeps
        BY <2>1, <2>3, Closing
    <2>. QED
        BY <2>2, <2>3
<1>3. ASSUME L!DialFails PROVE LinkInv'
    <2>1. PICK result \in {"timeout", "error"} : L!Proceed(result)
        BY <1>3 DEF L!DialFails
    <2>. QED
        BY <1>3, <2>1, Closing DEF L!DialFails
<1>4. ASSUME L!ReadFails PROVE LinkInv'
    BY <1>4, Closing DEF L!ReadFails, L!Refuse
<1>5. ASSUME L!CalmDown \/ UNCHANGED L!vars PROVE LinkInv'
    <2>1. /\ UNCHANGED <<mode, conn, pending, inbox, linkPc, linkStage, linkTry, clean, answer,
                         linkLast>>
          /\ linkCalm' \in {linkCalm, TRUE}
        BY <1>5 DEF L!CalmDown, L!vars
    <2>2. LinkTypes'
        BY <2>1 DEF LinkInv, LinkTypes
    <2>3. Wire' /\ Clean' /\ Solo' /\ Owned'
        BY <2>1 DEF LinkInv, Wire, Clean, Solo, Owned
    <2>4. Body'
        BY <2>1 DEF LinkInv, Body, L!Fits, L!RightSize, L!Echo, L!Data
    <2>. QED
        BY <2>2, <2>3, <2>4 DEF LinkInv
<1>. QED
    BY <1>1, <1>2, <1>3, <1>4, <1>5, AskStep, ReadHeaderStep, ReadRestStep, DeliverStep,
       DeliverRestStep, LoseStep
       DEF L!Next, L!Poller, L!Meter

LEMMA LinkTypeOK == LinkInv => L!TypeOK
<1>. SUFFICES ASSUME LinkInv PROVE L!TypeOK
    OBVIOUS
<1>1. LinkTypes
    BY DEF LinkInv
<1>2. pending \in [1..Len(pending) -> Request] /\ Len(pending) \in 0..Depth
    BY <1>1, LinkAssumed DEF LinkTypes
<1>3. pending \in L!BoundedSeq(Request, Depth)
    BY <1>2 DEF L!BoundedSeq, L!SeqOf
<1>4. \A i \in DOMAIN inbox : inbox[i] \in L!Frame
    BY <1>1, ElementOfSeq DEF LinkTypes
<1>. QED
    BY <1>1, <1>3, <1>4 DEF LinkTypes, Request, Waits, L!TypeOK

LEMMA LinkAnswers == LinkInv => L!AnswersAreOwn
    BY DEF LinkInv, Owned, L!AnswersAreOwn, L!OwnBlock, L!OwnAnswer

\* The link keeps its types, and no more requests wait than the gateway holds.
THEOREM LinkTypeCorrect == L!Spec => []L!TypeOK
    BY LinkInit, LinkInvStep, LinkTypeOK, PTL DEF L!Spec

\* A block of a Modbus meter that is decoded is the answer to the request that
\* was made, for blocks of any different sizes: with transaction ids and where
\* every timeout closes the connection always, else unless an older request
\* was still waiting.
THEOREM LinkAnswersAreOwn == L!Spec => []L!AnswersAreOwn
    BY LinkInit, LinkInvStep, LinkAnswers, PTL DEF L!Spec

-----------------------------------------------------------------------------
(* The series of a device in Redis.                                        *)

LEMMA SeriesAssumed == MaxSaves \in Nat \ {0} /\ None \notin Nat /\ None \notin Names
    BY DevicesAssumption DEF S!SeriesAssumption

Row == [name : Names \cup {None}, points : [Moments -> 1..MaxSaves \cup {None}]]

LEMMA SeriesInit == S!Init => S!TypeOK
<1>. SUFFICES ASSUME S!Init PROVE S!TypeOK
    OBVIOUS
<1>1. saves \in 0..MaxSaves
    BY SeriesAssumed DEF S!Init
<1>. QED
    BY <1>1 DEF S!Init, S!TypeOK

LEMMA MadeRow == \A n \in Names \cup {None} : S!Made(n) \in Row
    BY DEF S!Made, S!NoPoints, Row

\* The labels after tsEnsure, and what is remembered of them.
LEMMA EnsuredTypes ==
    ASSUME S!TypeOK, NEW tag \in Tags, NEW ok \in [Tags -> BOOLEAN],
           NEW aligned \in [Tags -> BOOLEAN]
    PROVE  /\ S!Ensured(tag, ok, aligned) \in {None} \cup Row
           /\ S!Cached(tag, ok) \in Names \cup {None}
           /\ blocked[tag] \/ (S!Creates(tag) /\ ~ok[tag]) => S!Cached(tag, ok) = None
<1>1. series[tag] \in {None} \cup Row /\ name \in Names
    BY DEF S!TypeOK, Row
<1>2. series[tag] # None => [series[tag] EXCEPT !.name = name] \in Row
    BY <1>1 DEF Row
<1>3. S!Altered(tag, ok) => series[tag] # None
    BY DEF S!Altered
<1>4. S!Ensured(tag, ok, aligned) \in {None} \cup Row
    BY <1>1, <1>2, <1>3, MadeRow DEF S!Ensured
<1>5. S!Cached(tag, ok) \in Names \cup {None}
    BY DEF S!TypeOK, S!Cached
<1>6. ASSUME blocked[tag] \/ (S!Creates(tag) /\ ~ok[tag]) PROVE S!Cached(tag, ok) = None
    <2>1. created[tag] = None
        BY <1>6 DEF S!TypeOK, S!Creates
    <2>2. ~S!Altered(tag, ok)
        BY <2>1 DEF S!Altered, S!Alters
    <2>3. ~(S!Creates(tag) /\ ok[tag])
        BY <1>6 DEF S!Creates
    <2>. QED
        BY <2>1, <2>2, <2>3 DEF S!Cached
<1>. QED
    BY <1>4, <1>5, <1>6

LEMMA SaveTypes ==
    ASSUME S!TypeOK, NEW tags \in SUBSET Tags, NEW ts \in Moments, S!Save(tags, ts)
    PROVE  S!TypeOK'
<1>1. PICK ok, aligned \in IF seriesCalm THEN {[tag \in Tags |-> TRUE]} ELSE [Tags -> BOOLEAN] :
          /\ series' = [tag \in Tags |->
                IF tag \in tags THEN S!Ensured(tag, ok, aligned) ELSE series[tag]]
          /\ created' = [tag \in Tags |->
                IF tag \in tags THEN S!Cached(tag, ok) ELSE created[tag]]
          /\ blocked' = [tag \in Tags |->
                blocked[tag] \/ (tag \in tags /\ S!Creates(tag) /\ ~ok[tag])]
          /\ hidden' = (hidden \ {tag \in tags : S!Altered(tag, ok) \/ (S!Creates(tag) /\ ok[tag])})
                       \cup {tag \in tags : S!Creates(tag) /\ ok[tag] /\ ~aligned[tag]
                                            /\ series[tag] # None}
    BY DEF S!Save
<1>2. ok \in [Tags -> BOOLEAN] /\ aligned \in [Tags -> BOOLEAN]
    BY <1>1
<1>3. /\ saves' = IF saves < MaxSaves THEN saves + 1 ELSE saves
      /\ pipe' = [no |-> saves', ts |-> ts, tags |-> {tag \in tags : ~blocked[tag]}]
      /\ UNCHANGED <<name, current, seriesCalm>>
    BY DEF S!Save
<1>4. saves' \in 1..MaxSaves
    BY <1>3, SeriesAssumed DEF S!TypeOK
<1>5. pipe' \in [no : 1..MaxSaves, ts : Moments, tags : SUBSET Tags]
    BY <1>3, <1>4
<1>6. series' \in [Tags -> {None} \cup Row]
    BY <1>1, <1>2, EnsuredTypes DEF S!TypeOK, Row
<1>7. created' \in [Tags -> Names \cup {None}]
    BY <1>1, <1>2, EnsuredTypes DEF S!TypeOK
<1>8. blocked' \in [Tags -> BOOLEAN]
    BY <1>1, <1>2 DEF S!TypeOK
<1>9. ASSUME NEW tag \in Tags, blocked'[tag] PROVE created'[tag] = None
    <2>1. CASE tag \in tags
        <3>1. blocked[tag] \/ (S!Creates(tag) /\ ~ok[tag])
            BY <1>1, <1>9
        <3>. QED
            BY <1>1, <1>2, <2>1, <3>1, EnsuredTypes
    <2>2. CASE tag \notin tags
        <3>1. blocked[tag]
            BY <1>1, <1>9, <2>2
        <3>. QED
            BY <1>1, <2>2, <3>1 DEF S!TypeOK
    <2>. QED
        BY <2>1, <2>2
<1>10. hidden' \subseteq Tags
    BY <1>1 DEF S!TypeOK
<1>11. saves' \in 0..MaxSaves
    BY <1>4, SeriesAssumed
<1>. QED
    BY <1>3, <1>5, <1>6, <1>7, <1>8, <1>9, <1>10, <1>11 DEF S!TypeOK, Row

LEMMA ExecTypes ==
    ASSUME S!TypeOK, NEW arrives \in BOOLEAN, S!Exec(arrives) PROVE S!TypeOK'
<1>1. /\ pipe \in [no : 1..MaxSaves, ts : Moments, tags : SUBSET Tags] /\ pipe' = None
      /\ UNCHANGED <<name, created, blocked, saves, hidden, seriesCalm>>
    BY DEF S!Exec, S!TypeOK
<1>2. CASE UNCHANGED <<current, series>>
    BY <1>1, <1>2 DEF S!TypeOK
<1>3. CASE current' = pipe.no /\ series' = [tag \in Tags |-> S!Added(tag)]
    <2>1. ASSUME NEW tag \in Tags PROVE S!Added(tag) \in {None} \cup Row
        <3>. DEFINE row == IF series[tag] = None THEN S!Made(None) ELSE series[tag]
        <3>1. series[tag] \in {None} \cup Row
            BY DEF S!TypeOK, Row
        <3>2. row \in Row
            BY <3>1, MadeRow
        <3>. HIDE DEF row
        <3>3. [row EXCEPT !.points[pipe.ts] = pipe.no] \in Row
            BY <1>1, <3>2 DEF Row
        <3>. QED
            BY <3>1, <3>3 DEF S!Added, row
    <2>2. series' \in [Tags -> {None} \cup Row]
        BY <1>3, <2>1
    <2>3. current' \in 1..MaxSaves \cup {None}
        BY <1>1, <1>3
    <2>. QED
        BY <1>1, <2>2, <2>3 DEF S!TypeOK, Row
<1>. QED
    BY <1>2, <1>3 DEF S!Exec

LEMMA SeriesStep == S!TypeOK /\ [S!Next]_(S!vars) => S!TypeOK'
<1>. SUFFICES ASSUME S!TypeOK, [S!Next]_(S!vars) PROVE S!TypeOK'
    OBVIOUS
<1>1. ASSUME S!BackoffEnds PROVE S!TypeOK'
    BY <1>1 DEF S!BackoffEnds, S!TypeOK
<1>2. ASSUME S!RedisLost PROVE S!TypeOK'
    BY <1>2 DEF S!RedisLost, S!TypeOK
<1>3. ASSUME S!Restart PROVE S!TypeOK'
    BY <1>3 DEF S!Restart, S!TypeOK
<1>4. ASSUME S!CalmDown PROVE S!TypeOK'
    BY <1>4 DEF S!CalmDown, S!TypeOK
<1>5. ASSUME NEW n \in Names, S!Rename(n) PROVE S!TypeOK'
    BY <1>5 DEF S!Rename, S!TypeOK
<1>6. ASSUME UNCHANGED S!vars PROVE S!TypeOK'
    BY <1>6 DEF S!vars, S!TypeOK
<1>. QED
    BY <1>1, <1>2, <1>3, <1>4, <1>5, <1>6, SaveTypes, ExecTypes DEF S!Next, S!SaveAll

\* The series, what is remembered of them and the transaction keep their
\* types; a series that is held off is not remembered as made.
THEOREM SeriesTypeCorrect == S!Spec => []S!TypeOK
    BY SeriesInit, SeriesStep, PTL DEF S!Spec

-----------------------------------------------------------------------------
(* The composition.  A step of it is a step of one part, a stutter of the  *)
(* others, so the invariant of each part holds of it.                      *)

LEMMA DevicesParts ==
    /\ DevicesInit => Init /\ L!Init /\ S!Init
    /\ [DevicesNext]_deviceVars => [Next]_vars /\ [L!Next]_(L!vars) /\ [S!Next]_(S!vars)
<1>1. DevicesInit => Init /\ L!Init /\ S!Init
    BY DEF DevicesInit
<1>2. UNCHANGED ce308Vars => UNCHANGED vars
    BY DEF ce308Vars, vars, rec, mine, bt, air, ble, env
<1>3. UNCHANGED linkVars => UNCHANGED L!vars
    BY DEF linkVars, L!vars
<1>4. UNCHANGED seriesVars => UNCHANGED S!vars
    BY DEF seriesVars, S!vars
<1>5. UNCHANGED deviceVars =>
          UNCHANGED ce308Vars /\ UNCHANGED linkVars /\ UNCHANGED seriesVars
    BY DEF deviceVars
<1>. QED
    BY <1>1, <1>2, <1>3, <1>4, <1>5 DEF DevicesNext, Ce308Alone, LinkAlone, SeriesAlone

LEMMA DevicesInductive ==
    DevicesInit /\ [][DevicesNext]_deviceVars => [](Ce308Inv /\ LinkInv /\ S!TypeOK)
<1>1. DevicesInit => Ce308Inv /\ LinkInv /\ S!TypeOK
    BY DevicesParts, Ce308InvInit, LinkInit, SeriesInit
<1>2. Ce308Inv /\ LinkInv /\ S!TypeOK /\ [DevicesNext]_deviceVars
      => (Ce308Inv /\ LinkInv /\ S!TypeOK)'
    BY DevicesParts, Ce308InvStep, LinkInvStep, SeriesStep
<1>. QED
    BY <1>1, <1>2, PTL

\* The three parts keep their types in every behaviour of the composition.
THEOREM TypesOKCorrect == DevicesSpec => []TypesOK
<1>1. Ce308Inv /\ LinkInv /\ S!TypeOK => TypesOK
    BY Ce308Types, LinkTypeOK DEF TypesOK
<1>. QED
    BY <1>1, DevicesInductive, PTL DEF DevicesSpec

\* Between captures and after the stop the CE308 is not held connected, no
\* command takes an answer that came before it, and an outage has at most one
\* record in the history of errors.
THEOREM SessionsAreCleanCorrect == DevicesSpec => []SessionsAreClean
    BY Ce308Sessions, DevicesInductive, PTL DEF DevicesSpec

\* A block that is decoded is the answer to the request that was made, but
\* for a late one where the connection is kept while one is waiting.
THEOREM AnswersAreOwnCorrect == DevicesSpec => []AnswersAreOwn
<1>1. LinkInv => AnswersAreOwn
    BY LinkAnswers DEF AnswersAreOwn
<1>. QED
    BY <1>1, DevicesInductive, PTL DEF DevicesSpec
=============================================================================
