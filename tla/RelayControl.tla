---------------------------- MODULE RelayControl ----------------------------
(***************************************************************************)
(* The owner of the SR-201 relay that drives the indicator lamps.          *)
(*                                                                         *)
(* Callers (the two lamp controllers, the HTTP handler) set the desired    *)
(* state of a lamp; a background loop ticks every half blink period,       *)
(* toggles blinking lamps and repeats steady ones after the keepalive      *)
(* interval.  State changes are made under c.mu, the UDP datagram is sent  *)
(* after c.mu is released, and datagrams get lost.  The time since         *)
(* lastSent is counted in ticks up to Keep.                                *)
(***************************************************************************)
EXTENDS Integers

CONSTANTS
    NLamps,    \* the lamps are 1..NLamps, in the order of cfg.Lamps
    Callers,   \* goroutines that call SetLamp
    Keep,      \* the keepalive interval, in ticks
    None       \* no command

ASSUME RelayAssumption ==
    /\ NLamps \in Nat \ {0}
    /\ Keep \in Nat \ {0}
    /\ None \notin {"on", "off"}

Lamps    == 1..NLamps
Commands == {"on", "off"}
States   == Commands \cup {"blink"}
Orders   == [lamp : Lamps, cmd : Commands]

ASSUME NoneIsNoOrder == None \notin Orders

VARIABLES
    desired,   \* relayController.desired
    blinkOn,   \* relayController.blinkOn
    lastCmd,   \* relayController.lastCmd, None until the first command
    age,       \* ticks since relayController.lastSent, at most Keep
    cursor,    \* 0, or the lamp the tick in progress looks at next
    tickHolds, \* the order the tick has released c.mu to send, or None
    callHolds, \* the same for each caller
    relay      \* the contacts of the SR-201

vars == <<desired, blinkOn, lastCmd, age, cursor, tickHolds, callHolds, relay>>

Steady(i) == desired[i] # "blink"

-----------------------------------------------------------------------------
\* Faulty variant: only the first command of a lamp is noted.
NoteFirst(i, cmd) ==
    age' = 0 /\ lastCmd' = [lastCmd EXCEPT ![i] = IF @ = None THEN cmd ELSE @]

\* What applyLamp and tick note under c.mu of a command about to be sent.
Note(i, cmd) == age' = 0 /\ lastCmd' = [lastCmd EXCEPT ![i] = cmd]

\* applyLamp up to the unlock.  A call that changes nothing returns early.
Apply(a, i, st) ==
    /\ callHolds[a] = None
    /\ desired[i] # st
    /\ desired' = [desired EXCEPT ![i] = st]
    /\ blinkOn' = [blinkOn EXCEPT ![i] = FALSE]
    /\ IF st # "blink" /\ st # lastCmd[i]
       THEN /\ Note(i, st)
            /\ callHolds' = [callHolds EXCEPT ![a] = [lamp |-> i, cmd |-> st]]
       ELSE UNCHANGED <<lastCmd, age, callHolds>>
    /\ UNCHANGED <<cursor, tickHolds, relay>>

\* runRelayControl: the ticker fires.
TickStart ==
    /\ cursor = 0
    /\ cursor' = 1
    /\ age' = IF age < Keep THEN age + 1 ELSE age
    /\ UNCHANGED <<desired, blinkOn, lastCmd, tickHolds, callHolds, relay>>

\* Faulty variants: a blinking lamp's state is sent as it is; its phases are
\* swapped; it is always lit.
RawCommand(i) == desired[i]

SwappedCommand(i) == IF Steady(i) THEN desired[i]
                     ELSE IF blinkOn[i] THEN "on" ELSE "off"

LitCommand(i) == IF Steady(i) THEN desired[i] ELSE "on"

\* The command tick computes for lamp i, and whether it sends it.
TickCommand(i) == IF Steady(i) THEN desired[i]
                  ELSE IF blinkOn[i] THEN "off" ELSE "on"

\* Faulty variant: no keepalive.
SendsChanges(i) == ~Steady(i) \/ TickCommand(i) # lastCmd[i]

TickSends(i) == \/ ~Steady(i)
                \/ TickCommand(i) # lastCmd[i]
                \/ age >= Keep

\* tick, from taking c.mu to releasing it: the lamps that need no command
\* are passed over, the next that does is noted as sent.
TickScan ==
    /\ cursor # 0 /\ tickHolds = None
    /\ \/ /\ \A i \in Lamps : i >= cursor => ~TickSends(i)
          /\ cursor' = 0
          /\ UNCHANGED <<blinkOn, lastCmd, age, tickHolds>>
       \/ \E i \in Lamps :
            /\ i >= cursor /\ TickSends(i)
            /\ \A j \in Lamps : j >= cursor /\ j < i => ~TickSends(j)
            /\ blinkOn' = IF Steady(i) THEN blinkOn
                          ELSE [blinkOn EXCEPT ![i] = ~blinkOn[i]]
            /\ Note(i, TickCommand(i))
            /\ tickHolds' = [lamp |-> i, cmd |-> TickCommand(i)]
            /\ cursor' = i + 1
    /\ UNCHANGED <<desired, callHolds, relay>>

\* send: one UDP datagram, which reaches the relay or does not (a dial that
\* fails sends none).
Send(order, arrives) ==
    relay' = IF arrives THEN [relay EXCEPT ![order.lamp] = order.cmd] ELSE relay

TickSend(arrives) ==
    /\ tickHolds # None
    /\ Send(tickHolds, arrives)
    /\ tickHolds' = None
    /\ UNCHANGED <<desired, blinkOn, lastCmd, age, cursor, callHolds>>

CallerSend(a, arrives) ==
    /\ callHolds[a] # None
    /\ Send(callHolds[a], arrives)
    /\ callHolds' = [callHolds EXCEPT ![a] = None]
    /\ UNCHANGED <<desired, blinkOn, lastCmd, age, cursor, tickHolds>>

-----------------------------------------------------------------------------
Init ==
    /\ desired = [i \in Lamps |-> "off"]
    /\ blinkOn = [i \in Lamps |-> FALSE]
    /\ lastCmd = [i \in Lamps |-> None]
    /\ age = Keep              \* lastSent is the zero time
    /\ cursor = 0
    /\ tickHolds = None
    /\ callHolds = [a \in Callers |-> None]
    /\ relay \in [Lamps -> Commands]

Tick == TickStart \/ TickScan \/ \E ok \in BOOLEAN : TickSend(ok)

Next ==
    \/ Tick
    \/ \E a \in Callers :
        \/ \E i \in Lamps, st \in States : Apply(a, i, st)
        \/ \E ok \in BOOLEAN : CallerSend(a, ok)

Spec == Init /\ [][Next]_vars

\* The order o reaches the relay.
Arrival(o) ==
    \/ tickHolds = o /\ TickSend(TRUE)
    \/ \E a \in Callers : callHolds[a] = o /\ CallerSend(a, TRUE)

\* The ticker and every goroutine that left c.mu with an order go on; of the
\* datagrams that repeat one order again and again, some arrive.
FairSpec ==
    /\ Spec
    /\ WF_vars(Tick)
    /\ \A a \in Callers : WF_vars(\E ok \in BOOLEAN : CallerSend(a, ok))
    /\ \A o \in Orders : SF_vars(Arrival(o))

-----------------------------------------------------------------------------
TypeOK ==
    /\ desired \in [Lamps -> States]
    /\ blinkOn \in [Lamps -> BOOLEAN]
    /\ lastCmd \in [Lamps -> Commands \cup {None}]
    /\ age \in 0..Keep
    /\ cursor \in 0..(NLamps + 1)
    /\ tickHolds \in Orders \cup {None}
    /\ callHolds \in [Callers -> Orders \cup {None}]
    /\ relay \in [Lamps -> Commands]

\* What the code remembers of a steady lamp is its own command, or nothing:
\* no order in which the tick and the callers take c.mu leaves a steady lamp
\* remembered with the opposite command, which tick would then never repair
\* before the keepalive.
LastCmdTracksDesired ==
    \A i \in Lamps : Steady(i) => lastCmd[i] \in {None, desired[i]}

\* The phase of a blinking lamp is the command remembered for it, so the
\* lamp keeps its rhythm whoever switched it to blinking and whenever (after
\* the first toggle).
BlinkPhase ==
    \A i \in Lamps : ~Steady(i) /\ blinkOn[i] => lastCmd[i] = "on"

\* What the controller remembers of a lamp agrees with what is desired of it,
\* in every interleaving of the tick and the callers.
MemoryAgrees == LastCmdTracksDesired /\ BlinkPhase

\* A lamp whose desired state has become steady shows it in the end and
\* keeps it, although datagrams are lost (comment of runRelayControl on the
\* keepalive).
Repaired(i) ==
    \A st \in Commands : <>[](desired[i] = st) => <>[](relay[i] = st)

Quiet == \A i \in Lamps : \E st \in Commands : <>[](desired[i] = st)

\* Once no lamp blinks and nobody switches one any more, of several lamps the
\* first in the configuration comes to show its desired state and keeps it.
FirstRepaired == Quiet => Repaired(1)

\* A lamp left blinking goes on switching the relay.
BlinkShows ==
    \A i \in Lamps : <>[](desired[i] = "blink") =>
        []<>(relay[i] = "on") /\ []<>(relay[i] = "off")

\* Both: the lamps follow what is asked of them, through lost and overtaken
\* datagrams (comment of runRelayControl).
LampsFollow == FirstRepaired /\ BlinkShows
=============================================================================
