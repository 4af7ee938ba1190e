---------------------------- MODULE NotifyProofs ----------------------------
(* Proofs about the alerts: types, and the alternation of alarms and        *)
(* recoveries, for every window, every set of subscribers and any restarts. *)
EXTENDS Notify, TLAPS

USE DEF Kinds, Messages

(* What a detector says of itself agrees with what the messenger has        *)
(* acknowledged: sentDown is set exactly while a recovery is owed, and the  *)
(* outbox holds an alarm only before, a recovery only after that.           *)
Book(d, o) ==
    /\ d.sentDown = o
    /\ d.sentDown => d.lastDown
    /\ d.pendingDown => ~d.sentDown /\ d.lastDown
    /\ d.pendingUp => d.sentDown

\* A recovery is due: an alarm was acknowledged, or the recovery was not.
Owed(t) == (t.msg = "alarm" <=> t.acked)

Books == \A k \in Kinds : Book(det[k], Owed(told[k]))

IInv == TypeOK /\ Books

\* What Alternation says of one step.
Alternates ==
    wire' # None => (told[wire'.kind].acked <=> wire'.msg # told[wire'.kind].msg)

-----------------------------------------------------------------------------
\* An age stays in its window.
LEMMA OlderType ==
    ASSUME NEW most \in Nat, NEW age \in 0..most
    PROVE  Older(age, most) \in 0..most
BY DEF Older

\* The ends of the windows.
LEMMA Windows ==
    /\ 0 \in 0..Stable /\ Stable \in 0..Stable
    /\ 0 \in 0..Undeclared /\ Undeclared + 1 \in 0..(Undeclared + 1)
    /\ 0 \in 0..MaxRestarts
BY NotifyAssumption

\* A detector in its initial state owes nothing.
LEMMA FreshBook ==
    /\ Fresh \in Detectors /\ NoRun \in Runs /\ NothingTold \in Tolds
    /\ Book(Fresh, Owed(NothingTold))
<1>1. NothingTold \in Tolds /\ Owed(NothingTold) = FALSE
    BY DEF NothingTold, Tolds, Owed
<1>2. Fresh \in Detectors /\ NoRun \in Runs
    BY NotifyAssumption DEF Fresh, Detectors, NoRun, Runs
<1>3. Book(Fresh, FALSE)
    BY DEF Fresh, Book
<1>. QED BY <1>1, <1>2, <1>3

\* evaluate puts into the outbox only what the book allows and changes
\* nothing in what is owed.
LEMMA EvaluateBook ==
    ASSUME NEW d \in Detectors, NEW o \in BOOLEAN, Book(d, o), NEW alarm \in BOOLEAN
    PROVE  Evaluate(Aged(d), alarm) \in Detectors /\ Book(Evaluate(Aged(d), alarm), o)
<1>. DEFINE a == Aged(d)
<1>1. a \in Detectors /\ Book(a, o)
    BY OlderType, NotifyAssumption DEF Aged, Detectors, Book
<1>2. CASE a.pendingDown \/ a.pendingUp
    BY <1>1, <1>2 DEF Evaluate
<1>3. ASSUME ~a.pendingDown, ~a.pendingUp
      PROVE  Alarm(a) \in Detectors /\ Book(Alarm(a), o)
    <2>. DEFINE b == IF a.lastDown THEN a
                     ELSE [a EXCEPT !.lastDown = TRUE, !.downAge = 0, !.sentDown = FALSE]
                u == IF a.lastUp THEN Stable ELSE b.upAge
                e == [b EXCEPT !.lastUp = FALSE, !.upAge = u]
    <2>1. b \in Detectors /\ Book(b, o) /\ b.lastDown /\ ~b.pendingDown /\ ~b.pendingUp
        <3>1. CASE a.lastDown
            BY <3>1, <1>1, <1>3
        <3>2. CASE ~a.lastDown
            BY <3>2, <1>1, <1>3, Windows DEF Detectors, Book
        <3>. QED BY <3>1, <3>2
    <2>2. u \in 0..Stable
        BY <2>1, Windows DEF Detectors
    <2>. HIDE DEF b, u
    <2>3. e \in Detectors /\ Book(e, o) /\ e.lastDown /\ ~e.pendingDown /\ ~e.pendingUp
        BY <2>1, <2>2 DEF Detectors, Book
    <2>4. Alarm(a) = [e EXCEPT !.pendingDown = ~e.sentDown /\ e.downAge >= Stable]
        BY DEF Alarm, b, u
    <2>. HIDE DEF e
    <2>5. CASE ~e.sentDown /\ e.downAge >= Stable
        <3>1. Alarm(a) = [e EXCEPT !.pendingDown = TRUE]
            BY <2>4, <2>5
        <3>. QED BY <3>1, <2>3, <2>5 DEF Detectors, Book
    <2>6. CASE ~(~e.sentDown /\ e.downAge >= Stable)
        <3>1. Alarm(a) = [e EXCEPT !.pendingDown = FALSE]
            BY <2>4, <2>6
        <3>. QED BY <3>1, <2>3 DEF Detectors, Book
    <2>. QED BY <2>5, <2>6
<1>4. ASSUME ~a.pendingDown, ~a.pendingUp
      PROVE  Calm(a) \in Detectors /\ Book(Calm(a), o)
    <2>. DEFINE b == IF a.lastUp THEN a ELSE [a EXCEPT !.lastUp = TRUE, !.upAge = 0]
                due == a.lastDown /\ a.sentDown
                w == IF due THEN b.downAge ELSE Stable
                e == [b EXCEPT !.lastDown = due, !.downAge = w]
    <2>1. b \in Detectors /\ Book(b, o) /\ ~b.pendingDown /\ ~b.pendingUp /\ b.sentDown = a.sentDown
        <3>1. CASE a.lastUp
            BY <3>1, <1>1, <1>4
        <3>2. CASE ~a.lastUp
            BY <3>2, <1>1, <1>4, Windows DEF Detectors, Book
        <3>. QED BY <3>1, <3>2
    <2>2. w \in 0..Stable /\ due \in BOOLEAN /\ (due <=> b.sentDown)
        BY <1>1, <2>1, Windows DEF Detectors, Book
    <2>. HIDE DEF b, w, due
    <2>3. e \in Detectors /\ Book(e, o) /\ ~e.pendingDown /\ (e.lastDown => e.sentDown)
        BY <2>1, <2>2 DEF Detectors, Book
    <2>4. Calm(a) = [e EXCEPT !.pendingUp = e.lastDown /\ e.upAge >= Stable]
        BY DEF Calm, b, w, due
    <2>. HIDE DEF e
    <2>5. CASE e.lastDown /\ e.upAge >= Stable
        <3>1. Calm(a) = [e EXCEPT !.pendingUp = TRUE]
            BY <2>4, <2>5
        <3>. QED BY <3>1, <2>3, <2>5 DEF Detectors, Book
    <2>6. CASE ~(e.lastDown /\ e.upAge >= Stable)
        <3>1. Calm(a) = [e EXCEPT !.pendingUp = FALSE]
            BY <2>4, <2>6
        <3>. QED BY <3>1, <2>3 DEF Detectors, Book
    <2>. QED BY <2>5, <2>6
<1>. QED BY <1>2, <1>3, <1>4 DEF Evaluate

\* confirmDispatched keeps the book with what was acknowledged.
LEMMA ConfirmBook ==
    ASSUME NEW d \in Detectors, NEW o \in BOOLEAN, Book(d, o), Waiting(d)
    PROVE  /\ Confirm(d) \in Detectors /\ Book(Confirm(d), d.pendingDown)
           /\ o <=> Outbox(d) = "recovery"
<1>1. CASE d.pendingDown
    BY <1>1 DEF Confirm, Outbox, Detectors, Book
<1>2. CASE ~d.pendingDown
    <2>1. d.pendingUp /\ d.pendingDown = FALSE /\ o = TRUE
        BY <1>2 DEF Waiting, Detectors, Book
    <2>2. Confirm(d) = [lastDown |-> FALSE, downAge |-> Stable, lastUp |-> d.lastUp,
                        upAge |-> Stable, sentDown |-> FALSE,
                        pendingDown |-> FALSE, pendingUp |-> FALSE]
        BY <1>2 DEF Confirm, Fresh
    <2>3. Confirm(d) \in Detectors /\ Book(Confirm(d), FALSE)
        BY <2>2, Windows DEF Detectors, Book
    <2>. QED BY <1>2, <2>1, <2>3 DEF Outbox
<1>. QED BY <1>1, <1>2

\* What the book says of the outbox is what alternation says of the message.
LEMMA OwedIsOpposite ==
    ASSUME NEW t \in Tolds, NEW msg \in Messages
    PROVE  (Owed(t) <=> msg = "recovery") <=> (t.acked <=> msg # t.msg)
BY DEF Owed, Tolds

\* One report keeps the types and the book, and what it sends alternates.
LEMMA ReportBook ==
    ASSUME IInv, NEW k \in Kinds, NEW alarm \in BOOLEAN, NEW acked \in BOOLEAN,
           Report(k, alarm, acked)
    PROVE  /\ det' \in [Kinds -> Detectors]
           /\ told' \in [Kinds -> Tolds]
           /\ run' \in [Kinds -> Runs]
           /\ wire' \in Wires \cup {None}
           /\ Books'
           /\ Alternates
<1>. DEFINE d == Evaluate(Aged(det[k]), alarm)
            send == recipient # None /\ Waiting(d)
            new == IF send THEN Settle(d, acked) ELSE d
            t == IF send THEN [msg |-> Outbox(d), acked |-> acked] ELSE told[k]
<1>1. /\ det[k] \in Detectors /\ told[k] \in Tolds /\ Owed(told[k]) \in BOOLEAN
      /\ Book(det[k], Owed(told[k]))
    BY DEF IInv, TypeOK, Books, Owed
<1>2. d \in Detectors /\ Book(d, Owed(told[k]))
    BY <1>1, EvaluateBook
<1>3. Outbox(d) \in Messages /\ t \in Tolds
    BY <1>1 DEF Outbox, Tolds
<1>4. new \in Detectors /\ Book(new, Owed(t))
    <2>1. CASE send /\ acked
        <3>1. Owed(t) = d.pendingDown
            BY <2>1, <1>2 DEF Owed, Outbox, Detectors
        <3>. QED BY <2>1, <3>1, <1>1, <1>2, ConfirmBook DEF Settle
    <2>2. CASE send /\ ~acked
        <3>1. Owed(t) = Owed(told[k])
            <4>1. Owed(told[k]) <=> Outbox(d) = "recovery"
                BY <2>2, <1>1, <1>2, ConfirmBook
            <4>2. Owed(t) <=> Outbox(d) = "recovery"
                BY <2>2, <1>3 DEF Owed
            <4>. QED BY <4>1, <4>2, <1>1 DEF Owed
        <3>. QED BY <2>2, <3>1, <1>2 DEF Settle
    <2>3. CASE ~send
        BY <2>3, <1>1, <1>2
    <2>. QED BY <2>1, <2>2, <2>3
<1>5. det' = [det EXCEPT ![k] = new] /\ told' = [told EXCEPT ![k] = t]
    <2>1. det' = [det EXCEPT ![k] = new]
        BY DEF Report
    <2>2. told' = [told EXCEPT ![k] = t]
        BY DEF Report, IInv, TypeOK
    <2>. QED BY <2>1, <2>2
<1>6. det' \in [Kinds -> Detectors] /\ told' \in [Kinds -> Tolds] /\ Books'
    <2>. HIDE DEF new, t
    <2>. QED BY <1>3, <1>4, <1>5 DEF IInv, TypeOK, Books
<1>7. run' \in [Kinds -> Runs]
    BY OlderType, NotifyAssumption DEF Report, IInv, TypeOK, Runs
<1>8. wire' = IF send THEN [kind |-> k, msg |-> Outbox(d)] ELSE None
    BY DEF Report
<1>9. wire' \in Wires \cup {None}
    BY <1>3, <1>8 DEF Wires
<1>10. Alternates
    <2>1. SUFFICES ASSUME send PROVE told[k].acked <=> Outbox(d) # told[k].msg
        BY <1>8 DEF Alternates
    <2>2. Owed(told[k]) <=> Outbox(d) = "recovery"
        BY <2>1, <1>1, <1>2, ConfirmBook
    <2>. HIDE DEF d
    <2>. QED BY <2>2, <1>1, <1>3, OwedIsOpposite
<1>. QED BY <1>6, <1>7, <1>9, <1>10

-----------------------------------------------------------------------------
\* The invariant holds at the start.
LEMMA InitIInv == Init => IInv
<1>1. ASSUME Init PROVE TypeOK
    BY <1>1, FreshBook, Windows DEF Init, TypeOK
<1>2. ASSUME Init PROVE Books
    BY <1>2, FreshBook DEF Init, Books
<1>. QED BY <1>1, <1>2 DEF IInv

\* What every step of Next does to the types, the book and the messages.
LEMMA NextIInv ==
    ASSUME IInv, Next
    PROVE  IInv' /\ Alternates
<1>. USE NotifyAssumption DEF IInv
<1>1. ASSUME NEW moved \in BOOLEAN, NEW lag \in BOOLEAN, NEW low \in BOOLEAN,
             PollOK(moved, lag, low)
      PROVE  IInv' /\ wire' = None
    BY <1>1 DEF PollOK, TrackOK, TrackAPITS, TypeOK, Books, people
<1>2. ASSUME NEW acked \in BOOLEAN, DownReport(acked)
      PROVE  IInv' /\ Alternates
    <2>1. est' \in BOOLEAN /\ Report("down", est', acked)
        BY <1>2 DEF DownReport, MapDown
    <2>2. okAge' \in 0..(Undeclared + 1) /\ tsAge' \in 0..Undeclared
        BY <1>2, OlderType DEF DownReport, TypeOK
    <2>. HIDE DEF IInv
    <2>3. /\ det' \in [Kinds -> Detectors]
          /\ told' \in [Kinds -> Tolds]
          /\ run' \in [Kinds -> Runs]
          /\ wire' \in Wires \cup {None}
          /\ Books'
          /\ Alternates
        BY <2>1, ReportBook
    <2>4. TypeOK'
        BY <1>2, <2>1, <2>2, <2>3 DEF IInv, DownReport, TypeOK, people
    <2>. QED BY <2>3, <2>4 DEF IInv
<1>3. ASSUME NEW acked \in BOOLEAN, VoltReport(acked)
      PROVE  IInv' /\ Alternates
    <2>1. CASE est
        <3>1. Books'
            BY <2>1, <1>3, FreshBook DEF VoltReport, TypeOK, Books
        <3>2. TypeOK' /\ wire' = None
            <4>1. /\ det' = [det EXCEPT !["noVolt"] = Fresh]
                  /\ told' = [told EXCEPT !["noVolt"] = NothingTold]
                  /\ run' = [run EXCEPT !["noVolt"] = NoRun]
                BY <2>1, <1>3 DEF VoltReport
            <4>2. det' \in [Kinds -> Detectors]
                BY <4>1, FreshBook DEF TypeOK
            <4>3. told' \in [Kinds -> Tolds]
                BY <4>1, FreshBook DEF TypeOK
            <4>4. run' \in [Kinds -> Runs]
                BY <4>1, FreshBook DEF TypeOK
            <4>. QED BY <4>2, <4>3, <4>4, <2>1, <1>3 DEF VoltReport, TypeOK, track, people
        <3>. QED BY <3>1, <3>2 DEF Alternates
    <2>2. CASE ~est
        <3>1. Report("noVolt", lowVolt, acked) /\ lowVolt \in BOOLEAN
            BY <2>2, <1>3 DEF VoltReport, TypeOK
        <3>. HIDE DEF IInv
        <3>2. /\ det' \in [Kinds -> Detectors]
              /\ told' \in [Kinds -> Tolds]
              /\ run' \in [Kinds -> Runs]
              /\ wire' \in Wires \cup {None}
              /\ Books'
              /\ Alternates
            BY <3>1, ReportBook
        <3>3. TypeOK'
            BY <1>3, <3>2 DEF IInv, VoltReport, TypeOK, track, people
        <3>. QED BY <3>2, <3>3 DEF IInv
    <2>. QED BY <2>1, <2>2
<1>4. ASSUME NEW a \in Accounts, NEW ok \in BOOLEAN, Subscribe(a, ok)
      PROVE  IInv' /\ wire' = None
    BY <1>4 DEF Subscribe, SaveRecipient, TypeOK, Books, track
<1>5. ASSUME NEW a \in Accounts, NEW ok \in BOOLEAN, Unsubscribe(a, ok)
      PROVE  IInv' /\ wire' = None
    BY <1>5 DEF Unsubscribe, Ours, TypeOK, Books, track
<1>6. ASSUME Restart PROVE IInv' /\ wire' = None
    <2>1. TypeOK' /\ wire' = None
        <3>1. det' \in [Kinds -> Detectors] /\ told' \in [Kinds -> Tolds] /\ run' \in [Kinds -> Runs]
            BY <1>6, FreshBook DEF Restart
        <3>2. restarts' \in 0..MaxRestarts
            BY <1>6 DEF Restart, TypeOK
        <3>. QED BY <1>6, <3>1, <3>2, Windows DEF Restart, TypeOK
    <2>2. Books'
        BY <1>6, FreshBook DEF Restart, Books
    <2>. QED BY <2>1, <2>2
<1>. QED BY <1>1, <1>2, <1>3, <1>4, <1>5, <1>6 DEF Next, Alternates, Monitor, Subscriptions

-----------------------------------------------------------------------------
\* Types hold, and detectors and messenger keep the same book.
THEOREM Invariant == Spec => []IInv
<1>1. IInv /\ [Next]_vars => IInv'
    BY NextIInv DEF vars, track, people, IInv, TypeOK, Books
<1>. QED BY InitIInv, <1>1, PTL DEF Spec

\* The type invariant of the monitor and the subscriptions.
THEOREM TypeCorrect == Spec => []TypeOK
BY Invariant, PTL DEF IInv

\* An unacknowledged message is sent again, an acknowledged one is followed by
\* its opposite, and after a reset or a restart comes an alarm: for every
\* window and whatever is lost.
THEOREM AlertsAlternate == Spec => Alternation
<1>1. IInv /\ [Next]_vars => [Alternates]_vars
    BY NextIInv
<1>. QED BY Invariant, <1>1, PTL DEF Spec, Alternation, Alternates

-----------------------------------------------------------------------------
\* Neither memory nor the file names anybody whose leaving was recorded.
Parted == TypeOK /\ recipient \notin gone /\ saved \notin gone

\* Every step keeps it: who registers is no longer gone, who is recorded as
\* gone is in neither place.
LEMMA NextParted == ASSUME IInv, Parted, Next PROVE Parted'
<1>0. TypeOK' /\ TypeOK
    BY NextIInv DEF IInv
<1>1. ASSUME UNCHANGED people PROVE Parted'
    BY <1>0, <1>1 DEF Parted, people
<1>2. ASSUME NEW a \in Accounts, NEW ok \in BOOLEAN, Subscribe(a, ok)
      PROVE  Parted'
    BY <1>0, <1>2 DEF Subscribe, SaveRecipient, Parted
<1>3. ASSUME NEW a \in Accounts, NEW ok \in BOOLEAN, Unsubscribe(a, ok)
      PROVE  Parted'
    BY <1>0, <1>3, NotifyAssumption DEF Unsubscribe, Ours, Parted, TypeOK
<1>4. ASSUME Restart PROVE Parted'
    BY <1>0, <1>4 DEF Restart, Parted
<1>. QED
    BY <1>1, <1>2, <1>3, <1>4
    DEF Next, Monitor, Subscriptions, PollOK, TrackOK, DownReport, VoltReport

\* No alert goes to somebody whose leaving was recorded in the file, through
\* any restarts and failed writes.
THEOREM NobodyGoneIsTold == Spec => LeaverIsLeftAlone
<1>1. Init => Parted
    BY InitIInv, NotifyAssumption DEF Init, Parted, IInv
<1>2. IInv /\ Parted /\ [Next]_vars => Parted'
    BY NextParted DEF vars, track, people, Parted, TypeOK
<1>3. Spec => []Parted
    BY Invariant, <1>1, <1>2, PTL DEF Spec
<1>4. Parted /\ [Next]_vars => [wire' # None => recipient \notin gone]_vars
    BY DEF Parted
<1>. QED BY <1>3, <1>4, PTL DEF Spec, LeaverIsLeftAlone

-----------------------------------------------------------------------------
(* The hysteresis.  A detector that waits for nothing times an alarm or a    *)
(* return to normal no longer than the samples have agreed; what it has in   *)
(* the outbox freezes it, so only then may its ages be ahead of the samples. *)
Timed(d, r) ==
    /\ d.pendingDown => ~d.lastUp
    /\ ~Waiting(d) /\ d.lastDown /\ ~d.sentDown => r.alarm /\ d.downAge <= r.age
    /\ ~Waiting(d) /\ d.lastDown /\ d.lastUp => ~r.alarm /\ d.upAge <= r.age

AllTimed == \A k \in Kinds : Timed(det[k], run[k])

\* The run of samples with one more.
Sampled(r, alarm) ==
    [alarm |-> alarm, age |-> IF r.alarm = alarm THEN Older(r.age, Stable) ELSE 0]

\* Both clocks go on together, and both stop at the window.
LEMMA OlderTogether ==
    ASSUME NEW a \in 0..Stable, NEW b \in 0..Stable, a <= b
    PROVE  /\ Older(a, Stable) <= Older(b, Stable)
           /\ Older(a, Stable) >= Stable => Older(b, Stable) = Stable
BY NotifyAssumption DEF Older

LEMMA AgedFields ==
    ASSUME NEW d \in Detectors
    PROVE  /\ Aged(d) \in Detectors
           /\ Aged(d).downAge = Older(d.downAge, Stable)
           /\ Aged(d).upAge = Older(d.upAge, Stable)
           /\ Aged(d).lastDown = d.lastDown /\ Aged(d).lastUp = d.lastUp
           /\ Aged(d).sentDown = d.sentDown
           /\ Aged(d).pendingDown = d.pendingDown /\ Aged(d).pendingUp = d.pendingUp
BY OlderType, NotifyAssumption DEF Aged, Detectors

\* What the alarm branch of evaluate leaves in the detector.
LEMMA AlarmFields ==
    ASSUME NEW a \in Detectors, ~a.pendingDown, ~a.pendingUp
    PROVE  /\ ~Alarm(a).lastUp
           /\ ~Alarm(a).pendingUp
           /\ ~a.lastDown => Alarm(a).downAge = 0
           /\ a.lastDown => /\ Alarm(a).downAge = a.downAge
                            /\ Alarm(a).sentDown = a.sentDown
           /\ Alarm(a).pendingDown =>
                 ~Alarm(a).sentDown /\ Alarm(a).downAge >= Stable
<1>1. CASE a.lastDown
    <2>. DEFINE e == [a EXCEPT !.lastUp = FALSE,
                               !.upAge = IF a.lastUp THEN Stable ELSE a.upAge]
    <2>1. Alarm(a) = [e EXCEPT !.pendingDown = ~e.sentDown /\ e.downAge >= Stable]
        BY <1>1 DEF Alarm
    <2>. QED
        BY <1>1, <2>1 DEF Detectors
<1>2. CASE ~a.lastDown
    <2>. DEFINE b == [a EXCEPT !.lastDown = TRUE, !.downAge = 0, !.sentDown = FALSE]
                e == [b EXCEPT !.lastUp = FALSE,
                               !.upAge = IF a.lastUp THEN Stable ELSE b.upAge]
    <2>1. Alarm(a) = [e EXCEPT !.pendingDown = ~e.sentDown /\ e.downAge >= Stable]
        BY <1>2 DEF Alarm
    <2>. QED
        BY <1>2, <2>1 DEF Detectors
<1>. QED
    BY <1>1, <1>2

\* And the branch of the return to normal.
LEMMA CalmFields ==
    ASSUME NEW a \in Detectors, ~a.pendingDown, ~a.pendingUp
    PROVE  /\ ~Calm(a).pendingDown
           /\ Calm(a).sentDown = a.sentDown
           /\ Calm(a).lastDown <=> a.lastDown /\ a.sentDown
           /\ ~a.lastUp => Calm(a).upAge = 0
           /\ a.lastUp => Calm(a).upAge = a.upAge
           /\ Calm(a).pendingUp => Calm(a).lastDown /\ Calm(a).upAge >= Stable
<1>. DEFINE due == a.lastDown /\ a.sentDown
<1>1. CASE a.lastUp
    <2>. DEFINE e == [a EXCEPT !.lastDown = due,
                               !.downAge = IF due THEN a.downAge ELSE Stable]
    <2>1. Calm(a) = [e EXCEPT !.pendingUp = e.lastDown /\ e.upAge >= Stable]
        BY <1>1 DEF Calm
    <2>. QED
        BY <1>1, <2>1 DEF Detectors
<1>2. CASE ~a.lastUp
    <2>. DEFINE b == [a EXCEPT !.lastUp = TRUE, !.upAge = 0]
                e == [b EXCEPT !.lastDown = due,
                               !.downAge = IF due THEN b.downAge ELSE Stable]
    <2>1. Calm(a) = [e EXCEPT !.pendingUp = e.lastDown /\ e.upAge >= Stable]
        BY <1>2 DEF Calm
    <2>. QED
        BY <1>2, <2>1 DEF Detectors
<1>. QED
    BY <1>1, <1>2

\* What evaluate puts into the outbox every sample of the last Stable ticks
\* agreed with, and what it goes on timing they agree with so far.
LEMMA EvaluateTimed ==
    ASSUME NEW d \in Detectors, NEW r \in Runs, NEW o \in BOOLEAN, Book(d, o),
           Timed(d, r),
           NEW alarm \in BOOLEAN
    PROVE  LET e == Evaluate(Aged(d), alarm)
           IN  /\ Timed(e, Sampled(r, alarm))
               /\ ~Waiting(d) /\ Waiting(e) =>
                    Sampled(r, alarm) = [alarm |-> e.pendingDown, age |-> Stable]
<1>. DEFINE a == Aged(d)
            e == Evaluate(a, alarm)
            n == Sampled(r, alarm)
<1>0. /\ a \in Detectors
      /\ a.downAge = Older(d.downAge, Stable) /\ a.upAge = Older(d.upAge, Stable)
      /\ a.lastDown = d.lastDown /\ a.lastUp = d.lastUp /\ a.sentDown = d.sentDown
      /\ a.pendingDown = d.pendingDown /\ a.pendingUp = d.pendingUp
    BY AgedFields
<1>1. /\ r.alarm \in BOOLEAN /\ r.age \in 0..Stable
      /\ d.downAge \in 0..Stable /\ d.upAge \in 0..Stable
      /\ Stable \in Nat /\ Stable > 0
    BY NotifyAssumption DEF Runs, Detectors
<1>2. /\ n = [alarm |-> alarm, age |-> n.age] /\ n.alarm = alarm
      /\ n.age \in 0..Stable
      /\ r.alarm = alarm => n.age = Older(r.age, Stable)
    BY <1>1, OlderType DEF Sampled
<1>3. e \in Detectors
    BY EvaluateBook
<1>. HIDE DEF a, e, n
<1>4. CASE Waiting(d)
    <2>1. e = a
        BY <1>0, <1>4 DEF Evaluate, Waiting, e
    <2>2. Timed(e, n)
        BY <1>0, <1>4, <2>1 DEF Timed, Waiting
    <2>. QED
        BY <1>4, <2>2 DEF e, a, n
<1>5. CASE ~Waiting(d) /\ alarm
    <2>1. e = Alarm(a) /\ ~a.pendingDown /\ ~a.pendingUp
        BY <1>0, <1>5 DEF Evaluate, Waiting, e
    <2>2. /\ ~e.lastUp /\ ~e.pendingUp
          /\ ~a.lastDown => e.downAge = 0
          /\ a.lastDown => e.downAge = a.downAge /\ e.sentDown = a.sentDown
          /\ e.pendingDown => ~e.sentDown /\ e.downAge >= Stable
        BY <1>0, <2>1, AlarmFields
    <2>3. ASSUME d.lastDown, ~d.sentDown
          PROVE  /\ e.downAge <= n.age
                 /\ e.downAge >= Stable => n.age = Stable
        <3>1. r.alarm = alarm /\ d.downAge <= r.age
            BY <1>1, <1>5, <2>3 DEF Timed
        <3>2. e.downAge = Older(d.downAge, Stable) /\ n.age = Older(r.age, Stable)
            BY <1>0, <1>2, <2>2, <2>3, <3>1
        <3>. QED
            BY <1>1, <3>1, <3>2, OlderTogether
    <2>4. Timed(e, n)
        <3>1. ~e.sentDown => e.downAge <= n.age
            BY <1>0, <1>1, <1>2, <2>2, <2>3
        <3>. QED
            BY <1>2, <1>5, <2>2, <3>1 DEF Timed
    <2>5. Waiting(e) => e.pendingDown = TRUE /\ n.age = Stable
        BY <1>0, <1>1, <1>3, <2>2, <2>3 DEF Waiting, Detectors
    <2>. QED
        BY <1>2, <1>5, <2>4, <2>5 DEF e, a, n
<1>6. CASE ~Waiting(d) /\ ~alarm
    <2>1. e = Calm(a) /\ ~a.pendingDown /\ ~a.pendingUp
        BY <1>0, <1>6 DEF Evaluate, Waiting, e
    <2>2. /\ ~e.pendingDown /\ e.sentDown = a.sentDown
          /\ e.lastDown <=> a.lastDown /\ a.sentDown
          /\ ~a.lastUp => e.upAge = 0
          /\ a.lastUp => e.upAge = a.upAge
          /\ e.pendingUp => e.lastDown /\ e.upAge >= Stable
        BY <1>0, <2>1, CalmFields
    <2>3. ASSUME d.lastDown, d.lastUp
          PROVE  /\ e.upAge <= n.age
                 /\ e.upAge >= Stable => n.age = Stable
        <3>1. r.alarm = alarm /\ d.upAge <= r.age
            BY <1>1, <1>6, <2>3 DEF Timed
        <3>2. e.upAge = Older(d.upAge, Stable) /\ n.age = Older(r.age, Stable)
            BY <1>0, <1>2, <2>2, <2>3, <3>1
        <3>. QED
            BY <1>1, <3>1, <3>2, OlderTogether
    <2>4. Timed(e, n)
        <3>1. e.lastDown => e.sentDown /\ e.upAge <= n.age
            BY <1>0, <1>1, <1>2, <2>2, <2>3
        <3>. QED
            BY <1>2, <1>6, <2>2, <3>1 DEF Timed
    <2>5. Waiting(e) => e.pendingDown = FALSE /\ n.age = Stable
        BY <1>0, <1>1, <1>3, <2>2, <2>3 DEF Waiting, Detectors
    <2>. QED
        BY <1>2, <1>6, <2>4, <2>5 DEF e, a, n
<1>. QED
    BY <1>4, <1>5, <1>6

\* An acknowledgement starts no clock that the samples have not.
LEMMA ConfirmTimed ==
    ASSUME NEW d \in Detectors, NEW r \in Runs, NEW o, Book(d, o), Waiting(d),
           Timed(d, r)
    PROVE  Timed(Confirm(d), r) /\ ~Waiting(Confirm(d))
<1>1. CASE d.pendingDown
    BY <1>1 DEF Confirm, Timed, Book, Waiting, Detectors
<1>2. CASE ~d.pendingDown
    BY <1>2 DEF Confirm, Fresh, Timed, Waiting
<1>. QED
    BY <1>1, <1>2

\* What a step puts into the outbox of detector k, or sends at once, agrees
\* with the samples of the whole window.
Earned(k) ==
    LET formed == /\ ~Waiting(det[k])
                  /\ \/ Waiting(det'[k])
                     \/ wire' # None /\ wire'.kind = k
        alarm  == IF Waiting(det'[k]) THEN det'[k].pendingDown ELSE wire'.msg = "alarm"
    IN  formed => run'[k] = [alarm |-> alarm, age |-> Stable]

LEMMA ReportTimed ==
    ASSUME IInv, AllTimed, NEW k \in Kinds, NEW alarm \in BOOLEAN,
           NEW acked \in BOOLEAN, Report(k, alarm, acked)
    PROVE  AllTimed' /\ \A i \in Kinds : Earned(i)
<1>. DEFINE d == Evaluate(Aged(det[k]), alarm)
            send == recipient # None /\ Waiting(d)
            new == IF send THEN Settle(d, acked) ELSE d
            n == Sampled(run[k], alarm)
<1>1. /\ det[k] \in Detectors /\ Owed(told[k]) \in BOOLEAN /\ Book(det[k], Owed(told[k]))
      /\ run[k] \in Runs /\ Timed(det[k], run[k])
    BY DEF IInv, TypeOK, Books, AllTimed, Owed
<1>2. d \in Detectors /\ Book(d, Owed(told[k]))
    BY <1>1, EvaluateBook
<1>3. /\ Timed(d, n)
      /\ ~Waiting(det[k]) /\ Waiting(d) => n = [alarm |-> d.pendingDown, age |-> Stable]
    BY <1>1, EvaluateTimed
<1>4. /\ det' = [det EXCEPT ![k] = new] /\ run' = [run EXCEPT ![k] = n]
      /\ wire' = IF send THEN [kind |-> k, msg |-> Outbox(d)] ELSE None
    BY DEF Report, Sampled
<1>5. /\ det'[k] = new /\ run'[k] = n
      /\ \A i \in Kinds \ {k} : det'[i] = det[i] /\ run'[i] = run[i]
    BY <1>4 DEF IInv, TypeOK
<1>6. n \in Runs
    BY <1>1, OlderType, NotifyAssumption DEF Runs, Sampled
<1>. HIDE DEF d, n
<1>7. CASE send /\ acked
    <2>1. det'[k] = Confirm(d)
        BY <1>5, <1>7 DEF Settle
    <2>2. Timed(det'[k], n) /\ ~Waiting(det'[k])
        BY <1>2, <1>3, <1>6, <1>7, <2>1, ConfirmTimed
    <2>3. wire'.msg = Outbox(d) /\ (Outbox(d) = "alarm") = d.pendingDown
        BY <1>2, <1>4, <1>7 DEF Outbox, Detectors
    <2>4. Earned(k)
        BY <1>3, <1>5, <1>7, <2>2, <2>3 DEF Earned
    <2>5. \A i \in Kinds \ {k} : Earned(i)
        BY <1>4, <1>5, <1>7 DEF Earned
    <2>. QED
        BY <1>5, <2>2, <2>4, <2>5 DEF AllTimed
<1>8. CASE ~(send /\ acked)
    <2>1. det'[k] = d
        BY <1>5, <1>8 DEF Settle
    <2>2. Earned(k)
        BY <1>3, <1>4, <1>5, <1>8, <2>1 DEF Earned
    <2>3. \A i \in Kinds \ {k} : Earned(i)
        BY <1>4, <1>5 DEF Earned
    <2>. QED
        BY <1>3, <1>5, <2>1, <2>2, <2>3 DEF AllTimed
<1>. QED
    BY <1>7, <1>8

LEMMA FreshTimed == Timed(Fresh, NoRun) /\ ~Waiting(Fresh)
BY DEF Timed, Fresh, Waiting

LEMMA NextTimed ==
    ASSUME IInv, AllTimed, Next
    PROVE  AllTimed' /\ \A k \in Kinds : Earned(k)
<1>1. ASSUME UNCHANGED <<det, run>>, wire' = None
      PROVE  AllTimed' /\ \A k \in Kinds : Earned(k)
    BY <1>1 DEF AllTimed, Earned
<1>2. ASSUME NEW acked \in BOOLEAN, DownReport(acked)
      PROVE  AllTimed' /\ \A k \in Kinds : Earned(k)
    <2>1. PICK down \in BOOLEAN : Report("down", down, acked)
        BY <1>2 DEF DownReport, MapDown
    <2>. QED
        BY <2>1, ReportTimed
<1>3. ASSUME NEW acked \in BOOLEAN, VoltReport(acked)
      PROVE  AllTimed' /\ \A k \in Kinds : Earned(k)
    <2>1. CASE est
        <3>1. /\ det' = [det EXCEPT !["noVolt"] = Fresh]
              /\ run' = [run EXCEPT !["noVolt"] = NoRun] /\ wire' = None
            BY <1>3, <2>1 DEF VoltReport
        <3>2. /\ det'["noVolt"] = Fresh /\ run'["noVolt"] = NoRun
              /\ det'["down"] = det["down"] /\ run'["down"] = run["down"]
            BY <3>1 DEF IInv, TypeOK
        <3>. QED
            BY <3>1, <3>2, FreshTimed DEF AllTimed, Earned
    <2>2. CASE ~est
        <3>1. Report("noVolt", lowVolt, acked) /\ lowVolt \in BOOLEAN
            BY <1>3, <2>2 DEF VoltReport, IInv, TypeOK
        <3>. QED
            BY <3>1, ReportTimed
    <2>. QED
        BY <2>1, <2>2
<1>4. ASSUME Restart PROVE AllTimed' /\ \A k \in Kinds : Earned(k)
    <2>1. /\ \A k \in Kinds : det'[k] = Fresh /\ run'[k] = NoRun
          /\ wire' = None
        BY <1>4 DEF Restart
    <2>. QED
        BY <2>1, FreshTimed DEF AllTimed, Earned
<1>5. ASSUME NEW moved \in BOOLEAN, NEW lag \in BOOLEAN, NEW low \in BOOLEAN,
             PollOK(moved, lag, low)
      PROVE  UNCHANGED <<det, run>> /\ wire' = None
    BY <1>5 DEF PollOK
<1>6. ASSUME Subscriptions PROVE UNCHANGED <<det, run>> /\ wire' = None
    BY <1>6 DEF Subscriptions, Subscribe, Unsubscribe
<1>. QED
    BY <1>1, <1>2, <1>3, <1>4, <1>5, <1>6 DEF Next, Monitor

\* No message is made of flapping: not for any window, outbox that waits, reset
\* or restart.
THEOREM HysteresisCorrect == Spec => Hysteresis
<1>1. Init => AllTimed
    BY FreshTimed DEF Init, AllTimed
<1>2. IInv /\ AllTimed /\ [Next]_vars => AllTimed'
    BY NextTimed DEF vars, AllTimed
<1>3. IInv /\ AllTimed /\ [Next]_vars =>
        [\A k \in Kinds :
          LET formed == /\ ~Waiting(det[k])
                        /\ \/ Waiting(det'[k])
                           \/ wire' # None /\ wire'.kind = k
              alarm  == IF Waiting(det'[k]) THEN det'[k].pendingDown ELSE wire'.msg = "alarm"
          IN  formed => run'[k] = [alarm |-> alarm, age |-> Stable]]_vars
    BY NextTimed DEF Earned
<1>. QED
    BY <1>1, <1>2, <1>3, Invariant, PTL DEF Spec, Hysteresis

=============================================================================
