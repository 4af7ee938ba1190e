---------------------------- MODULE PanelProofs ----------------------------
(***************************************************************************)
(* What the parts behind the panel keep, for any number of lamps, callers  *)
(* and requests, any keepalive, periods and TTL: first of the relay        *)
(* controller and of the chart requests each by itself, then of the        *)
(* decisions behind the lamps, then of the composition the runs check.     *)
(* Of the constants only RelayAssumption, NoneIsNoOrder and                *)
(* PanelAssumption are used.                                               *)
(***************************************************************************)
EXTENDS MCPanel, FiniteSetTheorems, TLAPS

-----------------------------------------------------------------------------
(* The relay controller: the types, and the two facts tick relies on when  *)
(* it decides from lastCmd and blinkOn whether a command has to be sent.   *)

\* An order is a lamp and a command, and None is neither.
LEMMA OrderFields ==
    ASSUME NEW i \in Lamps, NEW c \in Commands
    PROVE  [lamp |-> i, cmd |-> c] \in Orders
BY DEF Orders

\* tick computes a command, never "blink".
LEMMA TickCommandType ==
    ASSUME TypeOK, NEW i \in Lamps
    PROVE  TickCommand(i) \in Commands
<1>1. desired[i] \in States
    BY DEF TypeOK
<1>. QED
    BY <1>1 DEF TickCommand, Steady, States, Commands

\* The first state is well typed.
LEMMA RelayTypeInit == Init => TypeOK
<1>. SUFFICES ASSUME Init PROVE TypeOK
    OBVIOUS
<1>1. NLamps \in Nat /\ Keep \in Nat
    BY RelayAssumption
<1>. QED
    BY <1>1 DEF Init, TypeOK, Lamps, States, Commands

\* Every step of the relay controller keeps the types.
LEMMA RelayTypeStep == TypeOK /\ [Next]_vars => TypeOK'
<1>. SUFFICES ASSUME TypeOK, [Next]_vars PROVE TypeOK'
    OBVIOUS
<1>. USE RelayAssumption
<1>1. ASSUME NEW a \in Callers, NEW i \in Lamps, NEW st \in States, Apply(a, i, st)
      PROVE  TypeOK'
    <2>1. CASE st # "blink" /\ st # lastCmd[i]
        <3>1. st \in Commands
            BY <2>1 DEF States
        <3>2. [lamp |-> i, cmd |-> st] \in Orders
            BY <3>1, OrderFields
        <3>3. desired' \in [Lamps -> States] /\ blinkOn' \in [Lamps -> BOOLEAN]
            BY <1>1 DEF Apply, TypeOK
        <3>4. lastCmd' \in [Lamps -> Commands \cup {None}]
            BY <1>1, <2>1, <3>1 DEF Apply, Note, TypeOK
        <3>5. callHolds' \in [Callers -> Orders \cup {None}]
            BY <1>1, <2>1, <3>2 DEF Apply, TypeOK
        <3>6. age' \in 0..Keep
            BY <1>1, <2>1 DEF Apply, Note
        <3>. QED
            BY <1>1, <3>3, <3>4, <3>5, <3>6 DEF Apply, TypeOK
    <2>2. CASE ~(st # "blink" /\ st # lastCmd[i])
        BY <1>1, <2>2 DEF Apply, TypeOK
    <2>. QED
        BY <2>1, <2>2
<1>2. ASSUME TickStart PROVE TypeOK'
    <2>1. cursor' \in 0..(NLamps + 1) /\ age' \in 0..Keep
        BY <1>2 DEF TickStart, TypeOK
    <2>. QED
        BY <1>2, <2>1 DEF TickStart, TypeOK
<1>3. ASSUME TickScan PROVE TypeOK'
    <2>1. CASE cursor' = 0 /\ UNCHANGED <<blinkOn, lastCmd, age, tickHolds>>
        BY <1>3, <2>1 DEF TickScan, TypeOK
    <2>2. ASSUME NEW i \in Lamps,
                 blinkOn' = IF Steady(i) THEN blinkOn
                            ELSE [blinkOn EXCEPT ![i] = ~blinkOn[i]],
                 Note(i, TickCommand(i)),
                 tickHolds' = [lamp |-> i, cmd |-> TickCommand(i)],
                 cursor' = i + 1
          PROVE  TypeOK'
        <3>1. TickCommand(i) \in Commands
            BY TickCommandType
        <3>2. tickHolds' \in Orders
            BY <2>2, <3>1, OrderFields
        <3>3. lastCmd' \in [Lamps -> Commands \cup {None}]
            BY <2>2, <3>1 DEF Note, TypeOK
        <3>4. blinkOn' \in [Lamps -> BOOLEAN]
            BY <2>2 DEF TypeOK
        <3>5. cursor' \in 0..(NLamps + 1) /\ age' \in 0..Keep
            BY <2>2 DEF Note, Lamps
        <3>. QED
            BY <1>3, <3>2, <3>3, <3>4, <3>5 DEF TickScan, TypeOK
    <2>. QED
        BY <1>3, <2>1, <2>2 DEF TickScan
<1>4. ASSUME NEW o \in Orders, NEW ok \in BOOLEAN, Send(o, ok)
      PROVE  relay' \in [Lamps -> Commands]
    BY <1>4 DEF Send, TypeOK, Orders
<1>5. ASSUME NEW ok \in BOOLEAN, TickSend(ok) PROVE TypeOK'
    <2>1. tickHolds \in Orders
        BY <1>5 DEF TickSend, TypeOK
    <2>2. relay' \in [Lamps -> Commands]
        BY <1>4, <1>5, <2>1 DEF TickSend
    <2>. QED
        BY <1>5, <2>2 DEF TickSend, TypeOK
<1>6. ASSUME NEW a \in Callers, NEW ok \in BOOLEAN, CallerSend(a, ok)
      PROVE  TypeOK'
    <2>1. callHolds[a] \in Orders
        BY <1>6 DEF CallerSend, TypeOK
    <2>2. relay' \in [Lamps -> Commands]
        BY <1>4, <1>6, <2>1 DEF CallerSend
    <2>. QED
        BY <1>6, <2>2 DEF CallerSend, TypeOK
<1>7. CASE UNCHANGED vars
    BY <1>7 DEF vars, TypeOK
<1>. QED
    BY <1>1, <1>2, <1>3, <1>5, <1>6, <1>7 DEF Next, Tick

\* The variables keep their types in every behaviour of the controller.
THEOREM RelayTypeCorrect == Spec => []TypeOK
    BY RelayTypeInit, RelayTypeStep, PTL DEF Spec

-----------------------------------------------------------------------------
\* What tick decides from: the remembered command of a steady lamp and the
\* phase of a blinking one.
Remembered == LastCmdTracksDesired /\ BlinkPhase

LEMMA RememberedStep ==
    TypeOK /\ Remembered /\ [Next]_vars => Remembered'
<1>. SUFFICES ASSUME TypeOK, LastCmdTracksDesired, BlinkPhase, [Next]_vars,
                     NEW j \in Lamps
              PROVE  /\ Steady(j)' => lastCmd'[j] \in {None, desired'[j]}
                     /\ ~Steady(j)' /\ blinkOn'[j] => lastCmd'[j] = "on"
    BY DEF Remembered, LastCmdTracksDesired, BlinkPhase
<1>0. /\ Steady(j) => lastCmd[j] \in {None, desired[j]}
      /\ ~Steady(j) /\ blinkOn[j] => lastCmd[j] = "on"
    BY DEF LastCmdTracksDesired, BlinkPhase
<1>1. ASSUME NEW a \in Callers, NEW i \in Lamps, NEW st \in States, Apply(a, i, st)
      PROVE  /\ Steady(j)' => lastCmd'[j] \in {None, desired'[j]}
             /\ ~Steady(j)' /\ blinkOn'[j] => lastCmd'[j] = "on"
    <2>1. CASE i = j
        <3>1. desired'[j] = st /\ blinkOn'[j] = FALSE
            BY <1>1, <2>1 DEF Apply, TypeOK
        <3>2. st # "blink" => lastCmd'[j] = st
            BY <1>1, <2>1 DEF Apply, Note, TypeOK
        <3>. QED
            BY <3>1, <3>2 DEF Steady
    <2>2. CASE i # j
        <3>1. /\ desired'[j] = desired[j] /\ blinkOn'[j] = blinkOn[j]
              /\ lastCmd'[j] = lastCmd[j]
            BY <1>1, <2>2 DEF Apply, Note, TypeOK
        <3>. QED
            BY <1>0, <3>1 DEF Steady
    <2>. QED
        BY <2>1, <2>2
<1>2. CASE TickScan
    <2>1. CASE UNCHANGED <<blinkOn, lastCmd>>
        BY <1>0, <1>2, <2>1 DEF TickScan, Steady
    <2>2. ASSUME NEW i \in Lamps,
                 blinkOn' = IF Steady(i) THEN blinkOn
                            ELSE [blinkOn EXCEPT ![i] = ~blinkOn[i]],
                 Note(i, TickCommand(i))
          PROVE  /\ Steady(j)' => lastCmd'[j] \in {None, desired'[j]}
                 /\ ~Steady(j)' /\ blinkOn'[j] => lastCmd'[j] = "on"
        <3>1. desired' = desired
            BY <1>2 DEF TickScan
        <3>2. CASE i = j
            <4>1. lastCmd'[j] = TickCommand(j)
                BY <2>2, <3>2 DEF Note, TypeOK
            <4>2. CASE Steady(j)
                BY <3>1, <4>1, <4>2 DEF TickCommand, Steady
            <4>3. CASE ~Steady(j)
                <5>1. blinkOn'[j] = ~blinkOn[j]
                    BY <2>2, <3>2, <4>3 DEF TypeOK
                <5>2. lastCmd'[j] = IF blinkOn[j] THEN "off" ELSE "on"
                    BY <4>1, <4>3 DEF TickCommand
                <5>. QED
                    BY <3>1, <4>3, <5>1, <5>2 DEF Steady
            <4>. QED
                BY <4>2, <4>3
        <3>3. CASE i # j
            <4>1. blinkOn'[j] = blinkOn[j] /\ lastCmd'[j] = lastCmd[j]
                BY <2>2, <3>3 DEF Note, TypeOK
            <4>. QED
                BY <1>0, <3>1, <4>1 DEF Steady
        <3>. QED
            BY <3>2, <3>3
    <2>. QED
        BY <1>2, <2>1, <2>2 DEF TickScan
<1>3. CASE UNCHANGED <<desired, blinkOn, lastCmd>>
    BY <1>0, <1>3 DEF Steady
<1>4. ASSUME NEW a \in Callers, NEW ok \in BOOLEAN, CallerSend(a, ok)
      PROVE  UNCHANGED <<desired, blinkOn, lastCmd>>
    BY <1>4 DEF CallerSend
<1>5. TickStart => UNCHANGED <<desired, blinkOn, lastCmd>>
    BY DEF TickStart
<1>6. \A ok \in BOOLEAN : TickSend(ok) => UNCHANGED <<desired, blinkOn, lastCmd>>
    BY DEF TickSend
<1>. QED
    BY <1>1, <1>2, <1>3, <1>4, <1>5, <1>6 DEF Next, Tick, vars

LEMMA RememberedInit == Init => Remembered
BY DEF Init, Remembered, LastCmdTracksDesired, BlinkPhase, Steady

\* What is remembered of a lamp agrees with what is desired of it, for any
\* number of lamps and of goroutines that call applyLamp.
THEOREM RelayMemoryAgrees == Spec => []MemoryAgrees
<1>1. Remembered => MemoryAgrees
    BY DEF Remembered, MemoryAgrees
<1>. QED
    BY <1>1, RelayTypeCorrect, RememberedInit, RememberedStep, PTL DEF Spec

-----------------------------------------------------------------------------
(* The requests of the charts: what one is answered with is of its period  *)
(* and young, and a period is read once while no read lasts for TTL.       *)

LEMMA ChartsAssumed == C!LoadRangeAssumption
    BY PanelAssumption

ChartTypes ==
    /\ now \in C!Time
    /\ pc \in [Requests -> C!Stages]
    /\ period \in [Requests -> Periods]
    /\ came \in [Requests -> C!Time] /\ began \in [Requests -> C!Time]
    /\ leader \in [Requests -> Requests \cup {None}]
    /\ source \in [Requests -> Requests \cup {None}]
    /\ flight \subseteq Requests
    /\ outlived \in BOOLEAN

\* The number of entries.
Bounded == IsFiniteSet(flight) /\ Cardinality(flight) <= FlightMax

\* A request may be answered with l's read: it is of the period and, with
\* what l still has to do, will not change.
Serves(l, r) ==
    /\ l \in Requests
    /\ pc[l] \notin {"new", "waiting"}
    /\ period[l] = period[r]
    /\ came[r] - began[l] < TTL

\* An entry belongs to a read under way or dead; a reader began no earlier
\* than it came; who waits, and who has been answered, has such a read.
Served ==
    /\ \A l \in flight : pc[l] \in {"leading", "panicked"}
    /\ \A r \in Requests :
          /\ pc[r] \in {"leading", "alone"} => came[r] <= began[r]
          /\ pc[r] = "waiting" => Serves(leader[r], r)
          /\ pc[r] = "answered" => Serves(source[r], r)

\* A period has one entry; its reader has it, unless reads last for TTL.
Single ==
    /\ \A r, q \in flight : period[r] = period[q] => r = q
    /\ ~outlived => \A r \in Requests : pc[r] = "leading" => r \in flight

ChartInv == ChartTypes /\ Bounded /\ Served /\ Single

LEMMA ChartCardinality == \A S : C!Cardinality(S) = Cardinality(S)
    BY DEF C!Cardinality, Cardinality

LEMMA ChartInit == C!Init => ChartInv
<1>. USE ChartsAssumed DEF C!LoadRangeAssumption
<1>. SUFFICES ASSUME C!Init PROVE ChartInv
    OBVIOUS
<1>1. ChartTypes
    <2>1. 0 \in C!Time
        BY ChartsAssumed DEF C!Time
    <2>2. \A S, v : v \in S => [r \in Requests |-> v] \in [Requests -> S]
        OBVIOUS
    <2>3. /\ pc \in [Requests -> C!Stages]
          /\ came \in [Requests -> C!Time] /\ began \in [Requests -> C!Time]
          /\ leader \in [Requests -> Requests \cup {None}]
          /\ source \in [Requests -> Requests \cup {None}]
        BY <2>1, <2>2 DEF C!Init, C!Stages
    <2>. QED
        BY <2>1, <2>3 DEF C!Init, ChartTypes
<1>2. Bounded
    BY FS_EmptySet, ChartsAssumed DEF C!Init, Bounded
<1>. QED
    BY <1>1, <1>2 DEF C!Init, Served, Single, ChartInv

LEMMA TypesStep == ChartTypes /\ [C!Next]_(C!vars) => ChartTypes'
<1>. USE ChartsAssumed DEF C!LoadRangeAssumption
<1>. SUFFICES ASSUME ChartTypes, [C!Next]_(C!vars) PROVE ChartTypes'
    OBVIOUS
<1>. USE ChartsAssumed DEF ChartTypes, C!Time, C!Stages
<1>1. CASE UNCHANGED C!vars
    BY <1>1 DEF C!vars
<1>2. CASE C!Tick
    BY <1>2 DEF C!Tick
<1>3. ASSUME NEW r \in Requests, C!Come(r) PROVE ChartTypes'
    <2>1. PICK p \in Periods : C!Come(r)!(p)
        BY <1>3 DEF C!Come
    <2>2. /\ pc' \in [Requests -> C!Stages] /\ began' \in [Requests -> C!Time]
          /\ leader' \in [Requests -> Requests \cup {None}]
          /\ flight' \subseteq Requests
        BY <2>1 DEF C!Reads
    <2>3. /\ now' \in C!Time /\ period' \in [Requests -> Periods]
          /\ came' \in [Requests -> C!Time]
          /\ source' \in [Requests -> Requests \cup {None}]
        BY <2>1
    <2>4. outlived' \in BOOLEAN
        BY <2>1
    <2>. QED
        BY <2>2, <2>3, <2>4
<1>4. ASSUME NEW r \in Requests, C!Finish(r) PROVE ChartTypes'
    BY <1>4 DEF C!Finish, C!Answer
<1>5. ASSUME NEW r \in Requests, C!FinishAlone(r) PROVE ChartTypes'
    BY <1>5 DEF C!FinishAlone, C!Answer
<1>6. ASSUME NEW r \in Requests, C!Panic(r) PROVE ChartTypes'
    BY <1>6 DEF C!Panic
<1>7. ASSUME NEW r \in Requests, C!TakeAnswer(r) PROVE ChartTypes'
    BY <1>7 DEF C!TakeAnswer, C!Answer
<1>8. ASSUME NEW r \in Requests, C!ReadItself(r) PROVE ChartTypes'
    BY <1>8 DEF C!ReadItself, C!Reads
<1>. QED
    BY <1>1, <1>2, <1>3, <1>4, <1>5, <1>6, <1>7, <1>8 DEF C!Next, C!Handles

LEMMA BoundedStep == ChartInv /\ [C!Next]_(C!vars) => Bounded'
<1>. USE ChartsAssumed DEF C!LoadRangeAssumption
<1>. SUFFICES ASSUME ChartInv, [C!Next]_(C!vars) PROVE Bounded'
    OBVIOUS
<1>1. ASSUME NEW S \in SUBSET flight
      PROVE  IsFiniteSet(S) /\ Cardinality(S) \in Nat
             /\ Cardinality(S) <= FlightMax
    <2>1. Cardinality(flight) \in Nat /\ Cardinality(S) \in Nat
          /\ Cardinality(S) <= Cardinality(flight) /\ IsFiniteSet(S)
        BY FS_Subset, FS_CardinalityType DEF ChartInv, Bounded
    <2>. QED
        BY <2>1, ChartsAssumed DEF ChartInv, Bounded
<1>2. CASE flight' \subseteq flight
    BY <1>1, <1>2 DEF Bounded
<1>3. ASSUME NEW r \in Requests, C!Come(r) PROVE Bounded'
    <2>1. PICK p \in Periods : C!Come(r)!(p)
        BY <1>3 DEF C!Come
    <2>. DEFINE kept == {l \in flight : ~C!Old(l)}
    <2>0. C!Cardinality(kept) = Cardinality(kept)
        BY ChartCardinality
    <2>2. CASE flight' = kept
        BY <2>2, <1>2
    <2>3. CASE flight' = kept \cup {r} /\ Cardinality(kept) < FlightMax
        <3>1. IsFiniteSet(kept) /\ Cardinality(kept) \in Nat
            BY <1>1
        <3>2. /\ IsFiniteSet(kept \cup {r})
              /\ Cardinality(kept \cup {r}) \in {Cardinality(kept), Cardinality(kept) + 1}
            BY <3>1, FS_AddElement
        <3>. QED
            BY <2>3, <3>1, <3>2, ChartsAssumed DEF Bounded
    <2>. QED
        BY <2>0, <2>1, <2>2, <2>3
<1>4. ASSUME NEW r \in Requests, ~C!Come(r), C!Handles(r) PROVE flight' \subseteq flight
    BY <1>4 DEF C!Handles, C!Finish, C!FinishAlone, C!Panic, C!TakeAnswer, C!ReadItself
<1>5. CASE C!Tick \/ UNCHANGED C!vars
    BY <1>5, <1>2 DEF C!Tick, C!vars
<1>. QED
    BY <1>2, <1>3, <1>4, <1>5 DEF C!Next

LEMMA ServedStep == ChartInv /\ [C!Next]_(C!vars) => Served'
<1>. USE ChartsAssumed DEF C!LoadRangeAssumption
<1>. SUFFICES ASSUME ChartInv, [C!Next]_(C!vars) PROVE Served'
    OBVIOUS
<1>0. ChartTypes /\ ChartTypes' /\ Served
    BY TypesStep DEF ChartInv
<1>. USE ChartsAssumed DEF ChartTypes, C!Time
<1>1. CASE C!Tick \/ UNCHANGED C!vars
    BY <1>0, <1>1 DEF C!Tick, C!vars, Served, Serves
<1>2. ASSUME NEW q \in Requests, C!Come(q) PROVE Served'
    <2>1. PICK p \in Periods : C!Come(q)!(p)
        BY <1>2 DEF C!Come
    <2>2. \A r \in Requests \ {q} : /\ pc'[r] = pc[r] /\ began'[r] = began[r]
                                    /\ period'[r] = period[r] /\ came'[r] = came[r]
        BY <1>0, <2>1 DEF C!Reads
    <2>3. pc[q] = "new" /\ q \notin flight /\ period'[q] = p /\ came'[q] = now
        BY <1>0, <2>1 DEF Served
    <2>4. ASSUME NEW r \in Requests \ {q}
          PROVE  /\ pc'[r] \in {"leading", "alone"} => came'[r] <= began'[r]
                 /\ pc'[r] = "waiting" => Serves(leader[r], r)'
                 /\ pc'[r] = "answered" => Serves(source[r], r)'
        <3>1. leader'[r] = leader[r] /\ source' = source
            BY <1>0, <2>1
        <3>. QED
            BY <1>0, <2>2, <2>3, <3>1 DEF Served, Serves
    <2>5. CASE \E l \in {l \in flight : ~C!Old(l)} :
                  /\ C!Key(period[l]) = C!Key(p)
                  /\ pc' = [pc EXCEPT ![q] = "waiting"]
                  /\ leader' = [leader EXCEPT ![q] = l]
                  /\ flight' = {o \in flight : ~C!Old(o)}
                  /\ UNCHANGED began
        <3>1. PICK l \in flight :
                  /\ ~C!Old(l) /\ C!Key(period[l]) = C!Key(p)
                  /\ pc' = [pc EXCEPT ![q] = "waiting"]
                  /\ leader' = [leader EXCEPT ![q] = l]
                  /\ flight' = {o \in flight : ~C!Old(o)}
            BY <2>5
        <3>2. l \in Requests /\ l # q /\ pc[l] \in {"leading", "panicked"}
            BY <1>0, <2>3, <3>1 DEF Served
        <3>3. now - began[l] < TTL /\ period[l] = p
            BY <1>0, <3>1, <3>2 DEF C!Old, C!Key
        <3>4. Serves(l, q)'
            BY <1>0, <2>2, <2>3, <3>2, <3>3 DEF Serves
        <3>5. pc'[q] = "waiting" /\ leader'[q] = l
            BY <1>0, <3>1
        <3>6. Serves(leader[q], q)'
            BY <3>4, <3>5
        <3>7. \A o \in flight' : pc'[o] \in {"leading", "panicked"}
            BY <1>0, <2>2, <2>3, <3>1 DEF Served
        <3>. QED
            BY <2>4, <3>5, <3>6, <3>7 DEF Served
    <2>6. CASE /\ pc' = [pc EXCEPT ![q] = "alone"] /\ began' = [began EXCEPT ![q] = now]
               /\ flight' = {l \in flight : ~C!Old(l)}
        <3>1. pc'[q] = "alone" /\ began'[q] = now /\ came'[q] <= began'[q]
            BY <1>0, <2>3, <2>6
        <3>2. \A o \in flight' : pc'[o] \in {"leading", "panicked"}
            BY <1>0, <2>2, <2>3, <2>6 DEF Served
        <3>. QED
            BY <2>4, <3>1, <3>2 DEF Served
    <2>7. CASE /\ pc' = [pc EXCEPT ![q] = "leading"] /\ began' = [began EXCEPT ![q] = now]
               /\ flight' = {l \in flight : ~C!Old(l)} \cup {q}
        <3>1. pc'[q] = "leading" /\ began'[q] = now /\ came'[q] <= began'[q]
            BY <1>0, <2>3, <2>7
        <3>2. \A o \in flight' : pc'[o] \in {"leading", "panicked"}
            BY <1>0, <2>2, <2>3, <2>7, <3>1 DEF Served
        <3>. QED
            BY <2>4, <3>1, <3>2 DEF Served
    <2>. QED
        BY <2>1, <2>5, <2>6, <2>7 DEF C!Reads
<1>3. ASSUME NEW q \in Requests, C!Finish(q) \/ C!FinishAlone(q) PROVE Served'
    <2>1. /\ pc[q] \in {"leading", "alone"}
          /\ pc' = [pc EXCEPT ![q] = "answered"] /\ source' = [source EXCEPT ![q] = q]
          /\ UNCHANGED <<period, came, began, leader>>
          /\ \A l \in flight' : l \in flight /\ l # q
        BY <1>0, <1>3 DEF C!Finish, C!FinishAlone, C!Answer, C!Key, Served
    <2>2. Serves(q, q)'
        BY <1>0, <2>1 DEF Served, Serves
    <2>. QED
        BY <1>0, <2>1, <2>2 DEF Served, Serves
<1>4. ASSUME NEW q \in Requests, C!Panic(q) PROVE Served'
    BY <1>0, <1>4 DEF C!Panic, Served, Serves
<1>5. ASSUME NEW q \in Requests, C!TakeAnswer(q) PROVE Served'
    BY <1>0, <1>5 DEF C!TakeAnswer, C!Answer, Served, Serves
<1>6. ASSUME NEW q \in Requests, C!ReadItself(q) PROVE Served'
    <2>1. pc[q] = "waiting" /\ pc'[q] = "alone" /\ began'[q] = now /\ came'[q] <= now
        BY <1>0, <1>6 DEF C!ReadItself, C!Reads, C!GivesUp
    <2>. QED
        BY <1>0, <1>6, <2>1 DEF C!ReadItself, C!Reads, Served, Serves
<1>. QED
    BY <1>1, <1>2, <1>3, <1>4, <1>5, <1>6 DEF C!Next, C!Handles

LEMMA SingleStep == ChartInv /\ [C!Next]_(C!vars) => Single'
<1>. USE ChartsAssumed DEF C!LoadRangeAssumption
<1>. SUFFICES ASSUME ChartInv, [C!Next]_(C!vars) PROVE Single'
    OBVIOUS
<1>0. ChartTypes /\ ChartTypes' /\ Served /\ Single
    BY TypesStep DEF ChartInv
<1>. USE DEF ChartTypes
<1>1. CASE C!Tick \/ UNCHANGED C!vars
    BY <1>0, <1>1 DEF C!Tick, C!vars, Single
<1>2. ASSUME NEW q \in Requests, C!Come(q) PROVE Single'
    <2>1. PICK p \in Periods : C!Come(q)!(p)
        BY <1>2 DEF C!Come
    <2>. DEFINE kept == {l \in flight : ~C!Old(l)}
    <2>2. q \notin flight /\ period'[q] = p
          /\ \A r \in Requests \ {q} : period'[r] = period[r] /\ pc'[r] = pc[r]
        BY <1>0, <2>1 DEF Served, C!Reads
    <2>3. ~outlived' => ~outlived /\ kept = flight
        BY <1>0, <2>1 DEF C!Old
    <2>4. \/ flight' = kept /\ pc'[q] # "leading"
          \/ /\ flight' = kept \cup {q}
             /\ \A l \in kept : C!Key(period[l]) # C!Key(p)
        BY <1>0, <2>1 DEF C!Reads
    <2>5. \A r, s \in flight' : period'[r] = period'[s] => r = s
        BY <1>0, <2>2, <2>4 DEF Single, C!Key
    <2>6. ~outlived' => \A r \in Requests : pc'[r] = "leading" => r \in flight'
        BY <1>0, <2>2, <2>3, <2>4 DEF Single
    <2>. QED
        BY <2>5, <2>6 DEF Single
<1>3. ASSUME NEW q \in Requests, C!Finish(q) PROVE Single'
    BY <1>0, <1>3 DEF C!Finish, C!Answer, Single, C!Key
<1>4. ASSUME NEW q \in Requests,
             C!FinishAlone(q) \/ C!Panic(q) \/ C!TakeAnswer(q) \/ C!ReadItself(q)
      PROVE  Single'
    BY <1>0, <1>4
       DEF C!FinishAlone, C!Panic, C!TakeAnswer, C!ReadItself, C!Answer, C!Reads, Single
<1>. QED
    BY <1>1, <1>2, <1>3, <1>4 DEF C!Next, C!Handles

\* The inductive invariant holds.
THEOREM ChartInductive == C!Spec => []ChartInv
<1>1. ChartInv /\ [C!Next]_(C!vars) => ChartInv'
    BY TypesStep, BoundedStep, ServedStep, SingleStep DEF ChartInv
<1>2. C!Init => ChartInv
    BY ChartInit
<1>. QED
    BY <1>1, <1>2, PTL DEF C!Spec

\* The requests keep their types, and the structure its bound.
THEOREM ChartTypeCorrect == C!Spec => []C!TypeOK
<1>1. ChartInv => C!TypeOK
    BY ChartCardinality DEF ChartInv, ChartTypes, Bounded, C!TypeOK
<1>. QED
    BY <1>1, ChartInductive, PTL

LEMMA ChartAnswers == ChartInv => C!AnswersServe
<1>1. ChartInv => C!AnswerIsOwn
    BY DEF ChartInv, Served, Serves, C!AnswerIsOwn
<1>2. ChartInv => C!AnswerIsYoung
    BY DEF ChartInv, Served, Serves, C!AnswerIsYoung
<1>3. ChartInv => C!OneReadAtATime
    BY DEF ChartInv, Single, C!OneReadAtATime
<1>. QED
    BY <1>1, <1>2, <1>3 DEF C!AnswersServe

\* A request is answered with a read of its own period that began less than
\* TTL before it came, and one leader reads a period while no read lasts TTL.
THEOREM ChartAnswersServe == C!Spec => []C!AnswersServe
    BY ChartAnswers, ChartInductive, PTL

-----------------------------------------------------------------------------
(* The decisions behind the lamps.                                         *)

\* A controller decides on a state of a lamp, or to ask the meter.
LEMMA DecisionTypes ==
    /\ \A m \in I!MeterViews : I!RedLampDecision(m) \in I!States
    /\ \A v \in I!MapViews : I!MapDecision(v) \in I!States
    /\ \A m \in I!MeterViews : I!MeterDecision(m) \in I!States
<1>1. ASSUME NEW m \in I!MeterViews
      PROVE  I!RedLampDecision(m) \in I!States /\ I!MeterDecision(m) \in I!States
    <2>1. m.power \in {"gone", "export", "import", "none"}
        BY DEF I!MeterViews
    <2>. QED
        BY <2>1 DEF I!RedLampDecision, I!MeterDecision, I!States
<1>. QED
    BY <1>1 DEF I!MapDecision, I!States

LEMMA IndicatorInit == I!Init => I!TypeOK
    BY DEF I!Init, I!TypeOK, I!States, I!Lamps

LEMMA IndicatorStep == I!TypeOK /\ [I!Next]_(I!vars) => I!TypeOK'
<1>. SUFFICES ASSUME I!TypeOK, [I!Next]_(I!vars) PROVE I!TypeOK'
    OBVIOUS
<1>. USE DEF I!TypeOK
<1>1. CASE I!DecideRed
    BY <1>1, DecisionTypes DEF I!DecideRed
<1>2. CASE I!ReadMap
    BY <1>2, DecisionTypes DEF I!ReadMap
<1>3. CASE I!ReadMeter
    BY <1>3, DecisionTypes DEF I!ReadMeter
<1>4. ASSUME NEW l \in I!Lamps, I!ApplyDecision(l) PROVE I!TypeOK'
    BY <1>4 DEF I!ApplyDecision
<1>5. CASE I!Override
    BY <1>5 DEF I!Override
<1>6. CASE I!SnapshotChanges
    BY <1>6 DEF I!SnapshotChanges
<1>7. CASE UNCHANGED I!vars
    BY <1>7 DEF I!vars
<1>. QED
    BY <1>1, <1>2, <1>3, <1>4, <1>5, <1>6, <1>7 DEF I!Next, I!Controllers

\* The decisions and the states they lead to keep their types.
THEOREM IndicatorTypeCorrect == I!Spec => []I!TypeOK
    BY IndicatorInit, IndicatorStep, PTL DEF I!Spec

-----------------------------------------------------------------------------
(* The composition.  A step of it is a step of one part, a stutter of the  *)
(* others, so the invariant of each part holds of it.                      *)

LEMMA PanelParts ==
    /\ PanelInit => Init /\ I!Init /\ C!Init
    /\ [PanelNext]_panelVars => [Next]_vars /\ [I!Next]_(I!vars) /\ [C!Next]_(C!vars)
<1>1. PanelInit => Init /\ I!Init /\ C!Init
    BY DEF PanelInit
<1>2. UNCHANGED relayVars => UNCHANGED vars
    BY DEF relayVars, vars
<1>3. UNCHANGED indicatorVars => UNCHANGED I!vars
    BY DEF indicatorVars, I!vars
<1>4. UNCHANGED chartVars => UNCHANGED C!vars
    BY DEF chartVars, C!vars
<1>5. UNCHANGED panelVars =>
          UNCHANGED relayVars /\ UNCHANGED indicatorVars /\ UNCHANGED chartVars
    BY DEF panelVars
<1>. QED
    BY <1>1, <1>2, <1>3, <1>4, <1>5
       DEF PanelNext, RelayAlone, IndicatorAlone, ChartsNext, ChartsAlone, ChartsAtRest

\* Of the composition the safety part: what every behaviour of it satisfies.
PanelSafety == PanelInit /\ [][PanelNext]_panelVars

LEMMA PanelIsSafe == PanelSpec => PanelSafety
    BY PTL DEF PanelSpec, PanelSafety

LEMMA PanelInductive ==
    PanelSafety => [](TypeOK /\ Remembered /\ I!TypeOK /\ ChartInv)
<1>1. PanelInit => TypeOK /\ Remembered /\ I!TypeOK /\ ChartInv
    BY PanelParts, ChartsAssumed, RelayTypeInit, RememberedInit, IndicatorInit, ChartInit
<1>2. TypeOK /\ Remembered /\ I!TypeOK /\ ChartInv /\ [PanelNext]_panelVars
      => (TypeOK /\ Remembered /\ I!TypeOK /\ ChartInv)'
    <2>1. ChartInv /\ [C!Next]_(C!vars) => ChartInv'
        BY ChartsAssumed, TypesStep, BoundedStep, ServedStep, SingleStep DEF ChartInv
    <2>. QED
        BY <2>1, PanelParts, RelayTypeStep, RememberedStep, IndicatorStep
<1>. QED
    BY <1>1, <1>2, PTL DEF PanelSafety

\* The three parts keep their types in every behaviour of the composition,
\* for any number of lamps, callers and requests.
THEOREM TypesOKCorrect == PanelSpec => []TypesOK
<1>1. TypeOK /\ Remembered /\ I!TypeOK /\ ChartInv => TypesOK
    BY ChartCardinality DEF ChartInv, ChartTypes, Bounded, TypesOK, C!TypeOK
<1>. QED
    BY <1>1, PanelInductive, PanelIsSafe, PTL

\* What is remembered of a lamp agrees with what is desired of it, beside the
\* other parts, for any number of lamps and of goroutines that call applyLamp.
THEOREM MemoryAgreesCorrect == PanelSpec => []MemoryAgrees
<1>1. Remembered => MemoryAgrees
    BY DEF Remembered, MemoryAgrees
<1>. QED
    BY <1>1, PanelInductive, PanelIsSafe, PTL

\* A request of the composition is answered with a young read of its own
\* period, and one leader reads a period while no read lasts for TTL
\* (loadRange), for any number of requests and any periods.
THEOREM AnswersServeCorrect == PanelSpec => []AnswersServe
<1>1. ChartInv => C!AnswersServe
    BY ChartAnswers
<1>2. AnswersServe <=> C!AnswersServe
    BY DEF AnswersServe
<1>. QED
    BY <1>1, <1>2, PanelInductive, PanelIsSafe, PTL
=============================================================================
