------------------------------- MODULE Notify -------------------------------
(***************************************************************************)
(* Alerts about the inverter (MAP) sent to one subscriber of the MAX       *)
(* messenger.                                                              *)
(*                                                                         *)
(* The MAP poller notes each poll in mapTracker.  Every notifyPollEvery    *)
(* the monitor judges what was noted, lets one detector per kind of event  *)
(* decide whether there is something to tell, and sends it.  A message     *)
(* stays in the detector's outbox until the messenger acknowledges it.     *)
(* Another goroutine takes subscriptions, whose first owner becomes the    *)
(* recipient, in memory and then in the configuration file.                *)
(*                                                                         *)
(* Time is counted in ticks of the monitor; ages stop at the window they   *)
(* are compared with.  A poll, a subscription or a failed write may fall   *)
(* between the two reports of one tick.                                    *)
(***************************************************************************)
EXTENDS Integers

CONSTANTS
    Accounts,     \* records [user, chat] of those who may subscribe
    Stable,       \* alertDetector.stable, in ticks
    Undeclared,   \* monitorState.undeclared, in ticks
    MaxRestarts,  \* bound: restarts of the service
    None

ASSUME NotifyAssumption ==
    /\ Stable \in Nat \ {0}
    /\ Undeclared \in Nat \ {0}
    /\ MaxRestarts \in Nat
    /\ None \notin Accounts

Kinds    == {"down", "noVolt"}
Messages == {"alarm", "recovery"}

VARIABLES
    okAge,      \* since mapTrack.lastOK; Undeclared + 1 also when never
    tsAge,      \* since mapTrack.apiTSChange
    behind,     \* mapTrack.apiTS is more than maxAPITimeBehind behind the clock
    lowVolt,    \* mapTrack: no grid voltage or one below the threshold
    report,     \* the report of the tick that comes next
    est,        \* iterate: down, as judged at the start of the tick
    det,        \* monitorState.down and monitorState.noVolt
    recipient,  \* maxClient.userID and chatID, or None
    saved,      \* the same in sunReceiver.json
    restarts,
    wire,       \* the message this step has sent, or None
    told,       \* the message sent last since the detector began, and whether
                \* the messenger has acknowledged it
    run,        \* the latest samples that agree, and for how long
    gone        \* those whose leaving has been recorded in the file

track  == <<okAge, tsAge, behind, lowVolt>>
people == <<recipient, saved, gone>>
vars   == <<track, report, est, det, people, restarts, wire, told, run>>

\* Faulty variant: the window is exceeded.
OlderFreely(age, most) == age + 1

\* The age of a moment after one more tick.
Older(age, most) == IF age < most THEN age + 1 ELSE most

Fresh == [lastDown |-> FALSE, downAge |-> Stable, lastUp |-> FALSE,
          upAge |-> Stable, sentDown |-> FALSE,
          pendingDown |-> FALSE, pendingUp |-> FALSE]
NoRun == [alarm |-> TRUE, age |-> 0]
NothingTold == [msg |-> "recovery", acked |-> TRUE]

-----------------------------------------------------------------------------
(* The MAP poller: pollMAPMalina26 notes what it has got.                  *)

\* trackAPITS: a timestamp that did not move leaves apiTSChange alone.
TrackAPITS(moved, lag) ==
    IF moved THEN tsAge' = 0 /\ behind' = lag
             ELSE tsAge' = tsAge /\ behind' = (behind \/ lag)

\* trackOK
TrackOK(low) == okAge' = 0 /\ lowVolt' = low

\* A successful poll: trackAPITS and trackOK.
PollOK(moved, lag, low) ==
    /\ TrackAPITS(moved, lag)
    /\ TrackOK(low)
    /\ wire' = None
    /\ UNCHANGED <<report, est, det, people, restarts, told, run>>

\* mapTrack.status # "".  A failed poll (trackErr), or one that does not find
\* the device, changes nothing of this: the ages grow with the ticks.
MapDown(ok, ts) == (ts >= Undeclared /\ behind) \/ ok > Undeclared

-----------------------------------------------------------------------------
(* The detectors.                                                          *)

Aged(d) == [d EXCEPT !.downAge = Older(@, Stable), !.upAge = Older(@, Stable)]

\* Faulty variant: the return to normal before this alarm is not forgotten.
AlarmKeepsUp(d) ==
    LET e == IF d.lastDown THEN d
             ELSE [d EXCEPT !.lastDown = TRUE, !.downAge = 0, !.sentDown = FALSE]
    IN  [e EXCEPT !.pendingDown = ~e.sentDown /\ e.downAge >= Stable]

\* evaluate, when nothing is in the outbox and the alarm condition holds.
Alarm(d) ==
    LET e == [(IF d.lastDown THEN d
               ELSE [d EXCEPT !.lastDown = TRUE, !.downAge = 0, !.sentDown = FALSE])
              EXCEPT !.lastUp = FALSE, !.upAge = IF d.lastUp THEN Stable ELSE @]
    IN  [e EXCEPT !.pendingDown = ~e.sentDown /\ e.downAge >= Stable]

\* Faulty variant: a short alarm that nobody was told of is kept.
CalmKeepsUntold(d) ==
    LET e == IF d.lastUp THEN d ELSE [d EXCEPT !.lastUp = TRUE, !.upAge = 0]
    IN  [e EXCEPT !.pendingUp = e.lastDown /\ e.upAge >= Stable]

\* Faulty variant: the return to normal drops an alarm that was told, too.
CalmDropsTold(d) ==
    [(IF d.lastUp THEN d ELSE [d EXCEPT !.lastUp = TRUE, !.upAge = 0])
        EXCEPT !.lastDown = FALSE, !.downAge = Stable]

\* evaluate, when nothing is in the outbox and the alarm condition is gone:
\* an alarm nobody was told of is dropped without a recovery.
Calm(d) ==
    LET e == [(IF d.lastUp THEN d ELSE [d EXCEPT !.lastUp = TRUE, !.upAge = 0])
              EXCEPT !.lastDown = d.lastDown /\ d.sentDown,
                     !.downAge = IF d.lastDown /\ d.sentDown THEN @ ELSE Stable]
    IN  [e EXCEPT !.pendingUp = e.lastDown /\ e.upAge >= Stable]

\* evaluate: the outbox goes first and freezes the rest of the detector.
Evaluate(d, alarm) ==
    IF d.pendingDown \/ d.pendingUp THEN d
    ELSE IF alarm THEN Alarm(d) ELSE Calm(d)

\* confirmDispatched: lastUp is left as it is.
Confirm(d) ==
    IF d.pendingDown THEN [d EXCEPT !.pendingDown = FALSE, !.sentDown = TRUE]
    ELSE [Fresh EXCEPT !.lastUp = d.lastUp]

\* Faulty variant: a message is sent once, whatever becomes of it.
SettleAlways(d, acked) == Confirm(d)

\* dispatch confirms only what the messenger has acknowledged.
Settle(d, acked) == IF acked THEN Confirm(d) ELSE d

Waiting(d) == d.pendingDown \/ d.pendingUp
Outbox(d)  == IF d.pendingDown THEN "alarm" ELSE "recovery"

\* evaluate and dispatch for detector k: without a recipient the message
\* waits in the outbox.  Not acknowledged means that the message or its
\* answer was lost: the monitor cannot tell.
Report(k, alarm, acked) ==
    LET d    == Evaluate(Aged(det[k]), alarm)
        send == recipient # None /\ Waiting(d)
    IN  /\ det' = [det EXCEPT ![k] = IF send THEN Settle(d, acked) ELSE d]
        /\ wire' = IF send THEN [kind |-> k, msg |-> Outbox(d)] ELSE None
        /\ told' = IF send THEN [told EXCEPT ![k] = [msg |-> Outbox(d), acked |-> acked]]
                   ELSE told
        /\ run' = [run EXCEPT ![k] =
                      [alarm |-> alarm, age |-> IF @.alarm = alarm THEN Older(@.age, Stable) ELSE 0]]

\* iterate up to downReport: a tick has passed and the MAP is judged.
DownReport(acked) ==
    LET down == MapDown(Older(okAge, Undeclared + 1), Older(tsAge, Undeclared))
    IN  /\ report = "down"
        /\ report' = "noVolt"
        /\ okAge' = Older(okAge, Undeclared + 1)
        /\ tsAge' = Older(tsAge, Undeclared)
        /\ est' = down
        /\ Report("down", down, acked)
        /\ UNCHANGED <<behind, lowVolt, people, restarts>>

\* voltReport: the voltage is read now, the judgement of the MAP is the one
\* made before the first message was sent.  While the MAP is down the
\* detector is reset, its outbox included.
VoltReport(acked) ==
    /\ report = "noVolt"
    /\ report' = "down"
    /\ IF est THEN /\ det' = [det EXCEPT !["noVolt"] = Fresh]
                   /\ told' = [told EXCEPT !["noVolt"] = NothingTold]
                   /\ run' = [run EXCEPT !["noVolt"] = NoRun]
                   /\ wire' = None
              ELSE Report("noVolt", lowVolt, acked)
    /\ est' = FALSE  \* out of scope until the next tick
    /\ UNCHANGED <<track, people, restarts>>

\* runNotifyMonitor: one tick after the other.
Monitor(acked) == DownReport(acked) \/ VoltReport(acked)

-----------------------------------------------------------------------------
(* Subscriptions: handleSubscriberEvent, one event at a time.              *)

\* isOurSubscriber: the user or the chat is that of the recipient.
Ours(a) ==
    /\ recipient # None
    /\ \/ recipient.user # None /\ a.user = recipient.user
       \/ recipient.chat # None /\ a.chat = recipient.chat

\* saveRecipientToConfig: a recipient that is already there stays.
SaveRecipient(a) == saved' = IF saved = None THEN a ELSE saved

\* bot_started, bot_added, message_created: the first one is registered, in
\* memory even if the file cannot be written; everybody else is refused.
Subscribe(a, ok) ==
    /\ recipient = None
    /\ recipient' = a
    /\ gone' = gone \ {a}
    /\ IF ok THEN SaveRecipient(a) ELSE UNCHANGED saved
    /\ wire' = None
    /\ UNCHANGED <<track, report, est, det, restarts, told, run>>

\* Faulty variant: the file keeps the recipient who has left.
ForgetInMemory(a, ok) ==
    /\ Ours(a)
    /\ recipient' = None
    /\ gone' = gone \cup {recipient}
    /\ wire' = None
    /\ UNCHANGED <<track, report, est, det, saved, restarts, told, run>>

\* bot_stopped, bot_removed, dialog_removed of the recipient: clearRecipient.
Unsubscribe(a, ok) ==
    /\ Ours(a)
    /\ recipient' = None
    /\ IF ok THEN saved' = None /\ gone' = gone \cup {recipient}
             ELSE UNCHANGED <<saved, gone>>
    /\ wire' = None
    /\ UNCHANGED <<track, report, est, det, restarts, told, run>>

\* pollSubscriber takes the events one by one; a failed or empty long poll
\* changes nothing and keeps the marker.
Subscriptions == \E a \in Accounts, ok \in BOOLEAN : Subscribe(a, ok) \/ Unsubscribe(a, ok)

\* The service is restarted: detectors and tracker start anew, the recipient
\* is the one of the file (newMonitorState, newMaxClient).
Restart ==
    /\ restarts < MaxRestarts
    /\ restarts' = restarts + 1
    /\ okAge' = Undeclared + 1 /\ tsAge' = 0 /\ behind' = FALSE /\ lowVolt' = TRUE
    /\ report' = "down" /\ est' = FALSE
    /\ det' = [k \in Kinds |-> Fresh]
    /\ recipient' = saved
    /\ wire' = None
    /\ told' = [k \in Kinds |-> NothingTold]
    /\ run' = [k \in Kinds |-> NoRun]
    /\ UNCHANGED <<saved, gone>>

-----------------------------------------------------------------------------
Init ==
    /\ okAge = Undeclared + 1 /\ tsAge = 0 /\ behind = FALSE /\ lowVolt = TRUE
    /\ report = "down" /\ est = FALSE
    /\ det = [k \in Kinds |-> Fresh]
    /\ saved \in Accounts \cup {None}
    /\ recipient = saved
    /\ restarts = 0
    /\ wire = None
    /\ told = [k \in Kinds |-> NothingTold]
    /\ run = [k \in Kinds |-> NoRun]
    /\ gone = {}

Next ==
    \/ \E moved, lag, low \in BOOLEAN : PollOK(moved, lag, low)
    \/ \E acked \in BOOLEAN : Monitor(acked)
    \/ Subscriptions
    \/ Restart

Spec == Init /\ [][Next]_vars

\* The ticker goes on, and the messenger is not out of reach for ever.
FairSpec ==
    /\ Spec
    /\ WF_vars(\E acked \in BOOLEAN : DownReport(acked))
    /\ WF_vars(\E acked \in BOOLEAN : VoltReport(acked))
    /\ SF_vars(DownReport(TRUE) /\ wire' # None)
    /\ SF_vars(VoltReport(TRUE) /\ wire' # None)

-----------------------------------------------------------------------------
Detectors ==
    [lastDown : BOOLEAN, downAge : 0..Stable, lastUp : BOOLEAN, upAge : 0..Stable,
     sentDown : BOOLEAN, pendingDown : BOOLEAN, pendingUp : BOOLEAN]

Runs  == [alarm : BOOLEAN, age : 0..Stable]
Wires == [kind : Kinds, msg : Messages]
Tolds == [msg : Messages, acked : BOOLEAN]

TypeOK ==
    /\ okAge \in 0..(Undeclared + 1) /\ tsAge \in 0..Undeclared
    /\ behind \in BOOLEAN /\ lowVolt \in BOOLEAN /\ est \in BOOLEAN
    /\ report \in Kinds
    /\ det \in [Kinds -> Detectors]
    /\ recipient \in Accounts \cup {None} /\ saved \in Accounts \cup {None}
    /\ restarts \in 0..MaxRestarts
    /\ wire \in Wires \cup {None}
    /\ told \in [Kinds -> Tolds]
    /\ run \in [Kinds -> Runs]
    /\ gone \subseteq Accounts

(* A message that was not acknowledged is the next one of its kind, as      *)
(* often as it takes (it may have arrived all the same, and then comes      *)
(* twice, or reach another subscriber); one that was acknowledged is        *)
(* followed by its opposite.  So no flapping makes two acknowledged alarms  *)
(* or a recovery of an alarm nobody was told of.  A reset (voltReport, MAP  *)
(* down) and a restart forget what was told: then comes an alarm, if        *)
(* anything, although the last message may have been one.                   *)
Alternation ==
    [][wire' # None => (told[wire'.kind].acked <=> wire'.msg # told[wire'.kind].msg)]_vars

(* A message is put into the outbox only if every sample of the last Stable *)
(* ticks agreed with it: the hysteresis of evaluate is not fooled by        *)
(* flapping, by a full outbox or by a reset.                                *)
Hysteresis ==
    [][\A k \in Kinds :
          LET formed == /\ ~Waiting(det[k])
                        /\ \/ Waiting(det'[k])
                           \/ wire' # None /\ wire'.kind = k
              alarm  == IF Waiting(det'[k]) THEN det'[k].pendingDown ELSE wire'.msg = "alarm"
          IN  formed => run'[k] = [alarm |-> alarm, age |-> Stable]]_vars

(* Nobody whose leaving was recorded gets an alert, not even after a        *)
(* restart that reads the recipient from the file (clearRecipient).         *)
LeaverIsLeftAlone == [][wire' # None => recipient \notin gone]_vars

(* A MAP that stays down is told of, and once it stays up the recovery of   *)
(* an alarm that was told is acknowledged, whatever the messenger lost in   *)
(* between.  The same for a voltage that stays normal, unless a reset has   *)
(* forgotten.                                                               *)
AlertsGetThrough ==
    /\ <>[](MapDown(okAge, tsAge) /\ recipient # None) =>
         <>[](told["down"] = [msg |-> "alarm", acked |-> TRUE])
    /\ <>[](~MapDown(okAge, tsAge) /\ recipient # None) => <>[](told["down"] = NothingTold)
    /\ <>[](~MapDown(okAge, tsAge) /\ ~lowVolt /\ recipient # None) =>
         <>[](told["noVolt"] = NothingTold)

=============================================================================
