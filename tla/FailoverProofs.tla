--------------------------- MODULE FailoverProofs ---------------------------
(***************************************************************************)
(* Proofs about Failover for any number of loops, any intervals and any    *)
(* history of the devices.                                                 *)
(***************************************************************************)
EXTENDS Failover, TLAPS

-----------------------------------------------------------------------------
(* Types.                                                                  *)

LEMMA ReturnTypes ==
    ASSUME TypeOK, NEW p \in Loops, Return(p)
    PROVE  /\ pc' \in [Loops -> {"idle", "list", "choose", "raw", "book"}]
           /\ view' \in [Loops -> [fallback : BOOLEAN, probing : BOOLEAN,
                                   broken : BOOLEAN]]
           /\ found' \in [Loops -> SUBSET Handles]
           /\ hand' \in [Loops -> Handles \cup {None}]
           /\ ok' \in [Loops -> BOOLEAN]
           /\ age' \in [Loops -> 0..Slow]
    BY DEF TypeOK, Return, Goto, Blind

LEMMA BeginTypes == ASSUME TypeOK, NEW p \in Loops, Begin(p) PROVE TypeOK'
<1>1. backoff' \in 0..Backoff \cup {None}
    BY DEF TypeOK, Begin
<1>2. InBackoff \in BOOLEAN
    BY DEF InBackoff
<1>3. view' \in [Loops -> [fallback : BOOLEAN, probing : BOOLEAN, broken : BOOLEAN]]
    BY <1>2 DEF TypeOK, Begin
<1>4. pc' \in [Loops -> {"idle", "list", "choose", "raw", "book"}]
    BY DEF TypeOK, Begin, Goto
<1>5. /\ hand' \in [Loops -> Handles \cup {None}]
      /\ age' \in [Loops -> 0..Slow]
      /\ overlapped' \in BOOLEAN
    BY FailoverAssumption DEF TypeOK, Begin
<1> QED
    BY <1>1, <1>3, <1>4, <1>5 DEF TypeOK, Begin, server

LEMMA ListTypes ==
    ASSUME TypeOK, NEW p \in Loops, ListAnswers(p) PROVE TypeOK'
<1>1. ASSUME NEW d \in listed
      PROVE  [dev |-> d, gen |-> gens[d]] \in Handles
    <2>1. d \in Serials /\ gens[d] \in 0..(MaxChanges - changes)
        BY <1>1 DEF TypeOK
    <2>2. gens[d] \in 0..MaxChanges
        BY <2>1, FailoverAssumption DEF TypeOK
    <2> QED
        BY <2>1, <2>2 DEF Handles
<1>2. {[dev |-> d, gen |-> gens[d]] : d \in listed} \in SUBSET Handles
    BY <1>1
<1>3. found' \in [Loops -> SUBSET Handles]
    BY <1>2 DEF TypeOK, ListAnswers
<1>4. pc' \in [Loops -> {"idle", "list", "choose", "raw", "book"}]
    BY DEF TypeOK, ListAnswers, Goto
<1> QED
    BY <1>3, <1>4 DEF TypeOK, ListAnswers, server, shared

LEMMA ChooseTypes ==
    ASSUME TypeOK, NEW p \in Loops, ChooseNone(p) \/ Choose(p) PROVE TypeOK'
<1>1. age[p] \in 0..Slow
    BY DEF TypeOK
<1>2. CASE ChooseNone(p)
    <2>1. Return(p)
        BY <1>2 DEF ChooseNone
    <2> QED
        BY <1>1, <1>2, <2>1, ReturnTypes DEF TypeOK, ChooseNone, server
<1>3. CASE Choose(p)
    <2>1. PICK h \in Candidates(p) :
             /\ haveMap' = TRUE /\ handle' = h
             /\ probingPrimary' = IsProbe(p, h)
             /\ activeFallback' = (IsProbe(p, h) \/ h.dev = "fallback")
             /\ listAge' = age[p]
             /\ hand' = [hand EXCEPT ![p] = h]
             /\ view' = [view EXCEPT ![p] = [fallback |-> activeFallback',
                                             probing |-> probingPrimary',
                                             broken |-> view[p].broken]]
        BY <1>3 DEF Choose
    <2>2. h \in Handles
        BY <2>1 DEF Candidates, TypeOK
    <2>3. IsProbe(p, h) \in BOOLEAN
        BY DEF IsProbe, TypeOK
    <2>4. activeFallback' \in BOOLEAN /\ probingPrimary' \in BOOLEAN
        BY <2>1, <2>3
    <2>5. view' \in [Loops -> [fallback : BOOLEAN, probing : BOOLEAN,
                               broken : BOOLEAN]]
        BY <2>1, <2>4 DEF TypeOK
    <2>6. hand' \in [Loops -> Handles \cup {None}]
        BY <2>1, <2>2 DEF TypeOK
    <2>7. pc' \in [Loops -> {"idle", "list", "choose", "raw", "book"}]
        BY <1>3 DEF Choose, Goto, TypeOK
    <2>8. /\ haveMap' \in BOOLEAN /\ handle' \in Handles \cup {None}
          /\ listAge' \in 0..Slow
        BY <1>1, <2>1, <2>2
    <2> QED
        BY <1>3, <2>4, <2>5, <2>6, <2>7, <2>8 DEF TypeOK, Choose, server
<1> QED
    BY <1>2, <1>3

LEMMA RawTypes == ASSUME TypeOK, NEW p \in Loops, Raw(p) PROVE TypeOK'
<1>1. ok' \in [Loops -> BOOLEAN]
    BY DEF TypeOK, Raw
<1>2. pc' \in [Loops -> {"idle", "list", "choose", "raw", "book"}]
    BY DEF TypeOK, Raw, Goto
<1> QED
    BY <1>1, <1>2 DEF TypeOK, Raw, server, shared

LEMMA BookTypes == ASSUME TypeOK, NEW p \in Loops, Book(p) PROVE TypeOK'
<1>1. Return(p) /\ UNCHANGED <<server, overlapped>>
    BY DEF Book
<1>2. /\ haveMap' \in BOOLEAN /\ handle' \in Handles \cup {None}
      /\ activeFallback' \in BOOLEAN /\ probingPrimary' \in BOOLEAN
      /\ listAge' \in 0..Recheck \/ listAge' \in 0..Slow
      /\ primaryFail' \in 0..FailMax /\ backoff' \in 0..Backoff \cup {None}
    <2>1. UNCHANGED shared \/ PrimaryAnswers \/ LoseFallback \/ PrimaryFails
        BY DEF Book, OfFallback, TypeOK
    <2>2. CASE UNCHANGED shared
        BY <2>2 DEF TypeOK, shared
    <2>3. CASE PrimaryAnswers
        <3>1. primaryFail' \in 0..FailMax
            BY <2>3, FailoverAssumption DEF PrimaryAnswers
        <3>2. /\ backoff' \in 0..Backoff \cup {None}
              /\ activeFallback' \in BOOLEAN /\ probingPrimary' \in BOOLEAN
            BY <2>3 DEF PrimaryAnswers
        <3> QED
            BY <2>3, <3>1, <3>2 DEF TypeOK, PrimaryAnswers
    <2>4. CASE LoseFallback
        BY <2>4 DEF TypeOK, LoseFallback
    <2>5. CASE PrimaryFails
        <3>1. primaryFail' \in 0..FailMax
            BY <2>5, FailoverAssumption DEF TypeOK, PrimaryFails
        <3>2. backoff' \in 0..Backoff \cup {None}
            BY <2>5, FailoverAssumption DEF TypeOK, PrimaryFails
        <3>3. listAge' \in 0..Recheck \/ listAge' \in 0..Slow
            BY <2>5, FailoverAssumption DEF TypeOK, PrimaryFails
        <3>4. haveMap' \in BOOLEAN /\ probingPrimary' \in BOOLEAN
            BY <2>5 DEF PrimaryFails
        <3> QED
            BY <2>5, <3>1, <3>2, <3>3, <3>4 DEF TypeOK, PrimaryFails
    <2> QED
        BY <2>1, <2>2, <2>3, <2>4, <2>5
<1> QED
    BY <1>1, <1>2, ReturnTypes DEF TypeOK, server

LEMMA DeviceTypes == ASSUME TypeOK, Devices PROVE TypeOK'
<1>1. PICK d \in Serials : Unplug(d) \/ Plug(d) \/ Turn(d)
    BY DEF Devices
<1>2. changes \in 1..MaxChanges /\ changes' = changes - 1
    BY <1>1, FailoverAssumption DEF Unplug, Plug, Turn, Change, TypeOK
<1>3. gens' \in [Serials -> 0..(MaxChanges - changes')]
    <2>1. CASE Plug(d)
        <3>1. gens[d] + 1 \in 0..(MaxChanges - changes')
            BY <1>2, FailoverAssumption DEF TypeOK
        <3>2. ASSUME NEW e \in Serials PROVE gens[e] \in 0..(MaxChanges - changes')
            BY <1>2, <3>2, FailoverAssumption DEF TypeOK
        <3> QED
            BY <2>1, <3>1, <3>2 DEF TypeOK, Plug
    <2>2. CASE Unplug(d) \/ Turn(d)
        <3>1. gens' = gens
            BY <2>2 DEF Unplug, Turn
        <3>2. ASSUME NEW e \in Serials PROVE gens[e] \in 0..(MaxChanges - changes')
            BY <1>2, <3>2, FailoverAssumption DEF TypeOK
        <3> QED
            BY <3>1, <3>2 DEF TypeOK
    <2> QED
        BY <1>1, <2>1, <2>2
<1>4. listed' \subseteq Serials /\ healthy' \subseteq Serials
    BY <1>1 DEF Unplug, Plug, Turn, TypeOK
<1>5. changes' \in 0..MaxChanges
    BY <1>2, FailoverAssumption
<1> QED
    BY <1>3, <1>4, <1>5 DEF TypeOK, Devices, shared, local

LEMMA TickTypes == ASSUME TypeOK, Tick PROVE TypeOK'
<1>1. listAge' \in 0..Recheck \/ listAge' \in 0..Slow
    BY FailoverAssumption DEF TypeOK, Tick
<1>2. backoff' \in 0..Backoff \cup {None}
    BY FailoverAssumption, NoneIsNothing DEF TypeOK, Tick, InBackoff
<1>3. age' \in [Loops -> 0..Slow]
    BY FailoverAssumption DEF TypeOK, Tick
<1> QED
    BY <1>1, <1>2, <1>3 DEF TypeOK, Tick, server

LEMMA InitTypes == Init => TypeOK
<1> SUFFICES ASSUME Init PROVE TypeOK
    OBVIOUS
<1>1. /\ listAge \in 0..Recheck /\ primaryFail \in 0..FailMax
      /\ changes \in 0..MaxChanges
    BY FailoverAssumption DEF Init
<1>2. gens \in [Serials -> 0..(MaxChanges - changes)]
    BY FailoverAssumption DEF Init
<1>3. /\ view \in [Loops -> [fallback : BOOLEAN, probing : BOOLEAN,
                             broken : BOOLEAN]]
      /\ age \in [Loops -> 0..Slow]
    BY FailoverAssumption DEF Init, Blind
<1>4. /\ pc \in [Loops -> {"idle", "list", "choose", "raw", "book"}]
      /\ found \in [Loops -> SUBSET Handles]
      /\ hand \in [Loops -> Handles \cup {None}]
      /\ ok \in [Loops -> BOOLEAN]
    BY DEF Init
<1>5. /\ listed \subseteq Serials /\ healthy \subseteq Serials
      /\ haveMap \in BOOLEAN /\ handle \in Handles \cup {None}
      /\ activeFallback \in BOOLEAN /\ probingPrimary \in BOOLEAN
      /\ backoff \in 0..Backoff \cup {None}
      /\ overlapped \in BOOLEAN
    BY DEF Init
<1> QED
    BY <1>1, <1>2, <1>3, <1>4, <1>5 DEF TypeOK

LEMMA NextTypes == TypeOK /\ [Next]_vars => TypeOK'
<1> SUFFICES ASSUME TypeOK, [Next]_vars PROVE TypeOK'
    OBVIOUS
<1>1. ASSUME NEW p \in Loops, Fetch(p) PROVE TypeOK'
    <2>1. CASE ListFails(p)
        <3>1. Return(p) /\ UNCHANGED <<server, shared, overlapped>>
            BY <2>1 DEF ListFails
        <3> QED
            BY <3>1, ReturnTypes DEF TypeOK, server, shared
    <2> QED
        BY <1>1, <2>1, BeginTypes, ListTypes, ChooseTypes, RawTypes, BookTypes
           DEF Fetch
<1>2. CASE UNCHANGED vars
    BY <1>2 DEF TypeOK, vars, server, shared, local
<1> QED
    BY <1>1, <1>2, DeviceTypes, TickTypes DEF Next

\* Every variable keeps its type, the server's generations below the number
\* of changes made, for any number of loops and devices.
THEOREM TypeCorrect == Spec => []TypeOK
    BY InitTypes, NextTypes, PTL DEF Spec

-----------------------------------------------------------------------------
(* The flags and the device.                                               *)

Busy(p) == pc[p] # "idle"

Alone == ~overlapped => \A p, q \in Loops : Busy(p) /\ Busy(q) => p = q

\* What a lone fetch saw is still so, and the device it asks is the one in
\* the shared state.
ViewIsCurrent ==
    ~overlapped => \A p \in Loops : Busy(p) =>
        /\ view[p].fallback = activeFallback
        /\ view[p].probing = probingPrimary
        /\ pc[p] \in {"raw", "book"} => haveMap /\ hand[p] = handle

HandleKnown == haveMap => handle \in Handles

FlagsInv == TypeOK /\ Alone /\ ViewIsCurrent /\ HandleKnown /\ FlagsTellDevice

\* A step that ends a lone fetch leaves no fetch under way.
LEMMA NobodyLeft ==
    ASSUME FlagsInv, ~overlapped, NEW p \in Loops, Busy(p), Return(p)
    PROVE  \A q \in Loops : ~Busy(q)'
<1>1. \A q \in Loops : q # p => ~Busy(q)
    BY DEF FlagsInv, Alone
<1>2. pc' = [pc EXCEPT ![p] = "idle"] /\ pc \in [Loops -> {"idle", "list", "choose", "raw", "book"}]
    BY DEF FlagsInv, TypeOK, Return, Goto
<1> QED
    BY <1>1, <1>2 DEF Busy

LEMMA BeginFlags ==
    ASSUME FlagsInv, NEW p \in Loops, Begin(p)
    PROVE  (Alone /\ ViewIsCurrent /\ HandleKnown /\ FlagsTellDevice)'
<1>1. HandleKnown'
    BY DEF FlagsInv, HandleKnown, Begin
<1>2. FlagsTellDevice'
    BY DEF FlagsInv, FlagsTellDevice, Begin
<1>3. ASSUME ~overlapped'
      PROVE  /\ ~overlapped
             /\ \A q \in Loops : q # p => ~Busy(q)
             /\ \A q \in Loops : q # p => ~Busy(q)'
    <2>1. ~overlapped /\ \A q \in Loops \ {p} : pc[q] = "idle"
        BY <1>3 DEF Begin
    <2>2. \A q \in Loops : q # p => pc'[q] = pc[q]
        BY DEF FlagsInv, TypeOK, Begin, Goto
    <2> QED
        BY <2>1, <2>2 DEF Busy
<1>4. Alone'
    BY <1>3 DEF Alone
<1>5. ViewIsCurrent'
    <2> SUFFICES ASSUME ~overlapped', NEW q \in Loops, Busy(q)'
                 PROVE  /\ view'[q].fallback = activeFallback'
                        /\ view'[q].probing = probingPrimary'
                        /\ pc'[q] \in {"raw", "book"} => haveMap' /\ hand'[q] = handle'
        BY DEF ViewIsCurrent
    <2>1. q = p
        BY <1>3
    <2>2. /\ view'[p] = [fallback |-> activeFallback, probing |-> probingPrimary,
                         broken |-> InBackoff]
          /\ hand'[p] = handle
          /\ pc'[p] = IF NeedsResolve THEN "list" ELSE "raw"
        BY DEF FlagsInv, TypeOK, Begin, Goto
    <2>3. ~NeedsResolve => haveMap
        BY DEF NeedsResolve
    <2>4. UNCHANGED <<haveMap, handle, activeFallback, probingPrimary>>
        BY DEF Begin
    <2> QED
        BY <2>1, <2>2, <2>3, <2>4
<1> QED
    BY <1>1, <1>2, <1>4, <1>5

\* A fetch goes one step on and changes nothing that is shared.
LEMMA ReadFlags ==
    ASSUME FlagsInv, NEW p \in Loops, ListAnswers(p) \/ Raw(p)
    PROVE  (Alone /\ ViewIsCurrent /\ HandleKnown /\ FlagsTellDevice)'
<1>1. UNCHANGED <<haveMap, handle, activeFallback, probingPrimary, view, hand,
                  overlapped>>
    BY DEF ListAnswers, Raw, shared
<1>2. /\ \A q \in Loops : Busy(q)' <=> Busy(q)
      /\ \A q \in Loops : pc'[q] \in {"raw", "book"} => pc[q] \in {"raw", "book"}
    BY DEF FlagsInv, TypeOK, ListAnswers, Raw, Goto, Busy
<1>3. Alone'
    BY <1>1, <1>2 DEF FlagsInv, Alone
<1>4. ViewIsCurrent'
    BY <1>1, <1>2 DEF FlagsInv, ViewIsCurrent
<1>5. HandleKnown' /\ FlagsTellDevice'
    BY <1>1 DEF FlagsInv, HandleKnown, FlagsTellDevice
<1> QED
    BY <1>3, <1>4, <1>5

LEMMA ChooseFlags ==
    ASSUME FlagsInv, NEW p \in Loops, Choose(p)
    PROVE  (Alone /\ ViewIsCurrent /\ HandleKnown /\ FlagsTellDevice)'
<1>1. PICK h \in Candidates(p) :
         /\ haveMap' = TRUE /\ handle' = h
         /\ probingPrimary' = IsProbe(p, h)
         /\ activeFallback' = (IsProbe(p, h) \/ h.dev = "fallback")
         /\ hand' = [hand EXCEPT ![p] = h]
         /\ view' = [view EXCEPT ![p] = [fallback |-> activeFallback',
                                         probing |-> probingPrimary',
                                         broken |-> view[p].broken]]
    BY DEF Choose
<1>2. h \in Handles
    BY <1>1 DEF Candidates, FlagsInv, TypeOK
<1>3. overlapped' = overlapped /\ pc' = [pc EXCEPT ![p] = "raw"] /\ pc[p] = "choose"
    BY DEF Choose, Goto
<1>4. \A q \in Loops : Busy(q)' <=> Busy(q)
    BY <1>3 DEF FlagsInv, TypeOK, Busy
<1>5. Alone'
    BY <1>3, <1>4 DEF FlagsInv, Alone
<1>6. ViewIsCurrent'
    <2> SUFFICES ASSUME ~overlapped', NEW q \in Loops, Busy(q)'
                 PROVE  /\ view'[q].fallback = activeFallback'
                        /\ view'[q].probing = probingPrimary'
                        /\ pc'[q] \in {"raw", "book"} => haveMap' /\ hand'[q] = handle'
        BY DEF ViewIsCurrent
    <2>1. q = p
        BY <1>3, <1>4 DEF FlagsInv, Alone, Busy
    <2>2. /\ view'[p].fallback = activeFallback'
          /\ view'[p].probing = probingPrimary'
          /\ hand'[p] = h
        BY <1>1 DEF FlagsInv, TypeOK
    <2> QED
        BY <1>1, <2>1, <2>2
<1>7. HandleKnown'
    BY <1>1, <1>2 DEF HandleKnown
<1>8. FlagsTellDevice'
    BY <1>1 DEF FlagsTellDevice, IsProbe
<1> QED
    BY <1>5, <1>6, <1>7, <1>8

LEMMA EndFlags ==
    ASSUME FlagsInv, NEW p \in Loops, ListFails(p) \/ ChooseNone(p) \/ Book(p)
    PROVE  (Alone /\ ViewIsCurrent /\ HandleKnown /\ FlagsTellDevice)'
<1>1. Return(p) /\ overlapped' = overlapped /\ Busy(p)
    BY DEF ListFails, ChooseNone, Book, Busy
<1>2. ~overlapped' => \A q \in Loops : ~Busy(q)'
    BY <1>1, NobodyLeft
<1>3. Alone' /\ ViewIsCurrent'
    BY <1>2 DEF Alone, ViewIsCurrent
<1>4. HandleKnown' /\ FlagsTellDevice'
    <2>1. CASE ListFails(p)
        BY <2>1, <1>1 DEF ListFails, shared, FlagsInv, HandleKnown, FlagsTellDevice
    <2>2. CASE ChooseNone(p)
        BY <2>2 DEF ChooseNone, HandleKnown, FlagsTellDevice
    <2>3. CASE Book(p)
        <3>1. \/ UNCHANGED shared
              \/ PrimaryAnswers /\ ~OfFallback(p)
              \/ LoseFallback \/ PrimaryFails
            BY <2>3 DEF Book, OfFallback, FlagsInv, TypeOK
        <3>2. CASE UNCHANGED shared
            BY <3>2, <1>1 DEF shared, FlagsInv, HandleKnown, FlagsTellDevice
        <3>3. CASE PrimaryAnswers /\ ~OfFallback(p)
            <4>1. ~overlapped => ~(activeFallback /\ ~probingPrimary)
                BY <1>1, <3>3 DEF FlagsInv, ViewIsCurrent, OfFallback
            <4>2. ~overlapped /\ haveMap => handle.dev # "fallback"
                BY <4>1 DEF FlagsInv, FlagsTellDevice
            <4> QED
                BY <1>1, <3>3, <4>2 DEF PrimaryAnswers, FlagsInv, HandleKnown,
                                        FlagsTellDevice
        <3>4. CASE LoseFallback \/ PrimaryFails
            BY <3>4 DEF LoseFallback, PrimaryFails, HandleKnown, FlagsTellDevice
        <3> QED
            BY <3>1, <3>2, <3>3, <3>4
    <2> QED
        BY <2>1, <2>2, <2>3
<1> QED
    BY <1>3, <1>4

LEMMA QuietFlags ==
    ASSUME FlagsInv, Devices \/ Tick \/ UNCHANGED vars
    PROVE  (Alone /\ ViewIsCurrent /\ HandleKnown /\ FlagsTellDevice)'
<1>1. UNCHANGED <<haveMap, handle, activeFallback, probingPrimary, pc, view,
                  hand, overlapped>>
    BY DEF Devices, Tick, vars, shared, local
<1> QED
    BY <1>1 DEF FlagsInv, Alone, ViewIsCurrent, HandleKnown, FlagsTellDevice, Busy

LEMMA FlagsInvariant == Spec => []FlagsInv
<1>1. Init => FlagsInv
    <2> SUFFICES ASSUME Init PROVE Alone /\ ViewIsCurrent /\ HandleKnown
                                   /\ FlagsTellDevice /\ TypeOK
        BY DEF FlagsInv
    <2>1. TypeOK
        BY InitTypes
    <2>2. ~haveMap /\ \A p \in Loops : ~Busy(p)
        BY DEF Init, Busy
    <2> QED
        BY <2>1, <2>2 DEF Alone, ViewIsCurrent, HandleKnown, FlagsTellDevice
<1>2. FlagsInv /\ [Next]_vars => FlagsInv'
    <2> SUFFICES ASSUME FlagsInv, [Next]_vars PROVE FlagsInv'
        OBVIOUS
    <2>1. TypeOK'
        BY NextTypes DEF FlagsInv
    <2>2. ASSUME NEW p \in Loops, Fetch(p)
          PROVE  (Alone /\ ViewIsCurrent /\ HandleKnown /\ FlagsTellDevice)'
        BY <2>2, BeginFlags, ReadFlags, ChooseFlags, EndFlags DEF Fetch
    <2> QED
        BY <2>1, <2>2, QuietFlags DEF FlagsInv, Next
<1> QED
    BY <1>1, <1>2, PTL DEF Spec

\* As long as no two fetches have overlapped, the flags tell which device is
\* being read, whatever the devices and the server do.
THEOREM FlagsCorrect == Spec => []FlagsTellDevice
<1>1. FlagsInv => FlagsTellDevice
    BY DEF FlagsInv
<1> QED
    BY <1>1, FlagsInvariant, PTL

\* As long as no two fetches have overlapped, a fallback is given up only for
\* a primary whose payload came and decoded, or because it was lost.
THEOREM ReturnCorrect == Spec => ReturnAfterSuccess
<1> DEFINE Step == activeFallback /\ ~activeFallback' /\ haveMap' /\ ~overlapped'
               => \E p \in Loops : pc[p] = "book" /\ ok[p] /\ hand[p].dev = "primary"
<1>1. FlagsInv /\ [Next]_vars => Step
    <2> SUFFICES ASSUME FlagsInv, [Next]_vars, activeFallback, ~activeFallback',
                        haveMap', ~overlapped'
                 PROVE  \E p \in Loops : pc[p] = "book" /\ ok[p] /\ hand[p].dev = "primary"
        OBVIOUS
    <2>1. PICK p \in Loops : Choose(p) \/ Book(p)
        <3>1. ASSUME NEW q \in Loops, Begin(q) \/ ListAnswers(q) \/ ListFails(q) \/ Raw(q)
              PROVE  FALSE
            BY <3>1 DEF Begin, ListAnswers, ListFails, Raw, shared
        <3>2. ASSUME NEW q \in Loops, ChooseNone(q) PROVE FALSE
            BY <3>2 DEF ChooseNone
        <3>3. ASSUME Devices \/ Tick \/ UNCHANGED vars PROVE FALSE
            BY <3>3 DEF Devices, Tick, vars, shared
        <3> QED
            BY <3>1, <3>2, <3>3 DEF Next, Fetch
    <2>2. ~overlapped
        BY <2>1 DEF Choose, Book
    <2>3. CASE Choose(p)
        <3>1. view[p].fallback
            BY <2>2, <2>3 DEF FlagsInv, ViewIsCurrent, Busy, Choose
        <3>2. PICK h \in Candidates(p) :
                 activeFallback' = (IsProbe(p, h) \/ h.dev = "fallback")
            BY <2>3 DEF Choose
        <3>3. h.dev = "primary" \/ h.dev = "fallback"
            BY <3>2 DEF Candidates
        <3> QED
            BY <3>1, <3>2, <3>3 DEF IsProbe
    <2>4. CASE Book(p)
        <3>1. ok[p] /\ ~OfFallback(p)
            BY <2>4 DEF Book, shared, LoseFallback, PrimaryFails, OfFallback,
                        FlagsInv, TypeOK
        <3>2. PrimaryAnswers
            BY <2>4, <3>1 DEF Book
        <3>3. haveMap
            BY <3>2 DEF PrimaryAnswers
        <3>4. hand[p] = handle /\ handle.dev # "fallback"
            BY <2>2, <2>4, <3>1, <3>3 DEF FlagsInv, ViewIsCurrent, FlagsTellDevice,
                                          Busy, Book, OfFallback
        <3>5. handle.dev \in AllSerials
            BY <3>3, FailoverAssumption DEF FlagsInv, HandleKnown, Handles
        <3> QED
            BY <2>4, <3>1, <3>4, <3>5 DEF Book, AllSerials
    <2> QED
        BY <2>1, <2>3, <2>4
<1>2. FlagsInv /\ [Next]_vars => [Step]_vars
    BY <1>1
<1> QED
    BY <1>2, FlagsInvariant, PTL DEF Spec, ReturnAfterSuccess
=============================================================================
