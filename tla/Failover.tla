------------------------------ MODULE Failover ------------------------------
(***************************************************************************)
(* Which inverter the client of the "Malina26" API reads: the primary, or  *)
(* a fallback while the primary is missing or fails.                       *)
(*                                                                         *)
(* Two loops (telemetry, errors) share one malina26Source.  A fetch looks  *)
(* at the shared state under s.mu, releases it to read the list of devices *)
(* and the payload, and books what it learned under s.mu again, by what it *)
(* saw at its beginning.  Devices come and go, a device that comes back    *)
(* has a new generation, and a payload may be refused or not decode.       *)
(***************************************************************************)
EXTENDS Integers

CONSTANTS
    Loops,       \* the goroutines that call fetchMapRaw
    Serials,     \* the serials configured, of AllSerials
    Recheck,     \* malina26ListRecheck, in ticks
    Backoff,     \* malina26PrimaryBackoff, in ticks
    FailMax,     \* malina26PrimaryFailMax
    Slow,        \* BOUND: ticks from one fetch of a loop to its next
    MaxChanges,  \* BOUND: changes of the devices
    None         \* no device, no back-off

AllSerials == {"primary", "fallback"}

ASSUME FailoverAssumption ==
    /\ Serials \subseteq AllSerials /\ "primary" \in Serials
    /\ Recheck \in Nat /\ Backoff \in Nat \ {0} /\ FailMax \in Nat \ {0}
    /\ Slow \in Nat /\ MaxChanges \in Nat

\* id and gen of an entry of the list
Handles == [dev : Serials, gen : 0..MaxChanges]

ASSUME NoneIsNothing == None \notin Handles /\ None \notin Int

VARIABLES
    listed,          \* the devices the server lists
    healthy,         \* the devices whose payload arrives and decodes
    gens,            \* their generations
    changes,         \* changes left
    haveMap,         \* malina26Source.haveMap
    handle,          \* malina26Source.mapID, mapGen
    activeFallback,  \* malina26Source.activeFallback
    probingPrimary,  \* malina26Source.probingPrimary
    listAge,         \* ticks since lastListCheck, at most Recheck
    primaryFail,     \* malina26Source.primaryFail, at most FailMax
    backoff,         \* primaryBroken: ticks until then, None when zero
    pc,              \* where each loop is in its fetch
    view,            \* what it saw: [fallback, probing, broken]
    found,           \* the list it read
    hand,            \* the device it asks
    ok,              \* whether the payload came and decoded
    age,             \* ticks since its last fetch began
    overlapped       \* history: two fetches have overlapped

server == <<listed, healthy, gens, changes>>
shared == <<haveMap, handle, activeFallback, probingPrimary, listAge,
            primaryFail, backoff>>
local  == <<view, found, hand, ok, age>>
vars   == <<server, shared, pc, local, overlapped>>

Blind == [fallback |-> FALSE, probing |-> FALSE, broken |-> FALSE]

Goto(p, where) == pc' = [pc EXCEPT ![p] = where]

\* The fetch returns: what it knew is forgotten.
Return(p) ==
    /\ Goto(p, "idle")
    /\ view' = [view EXCEPT ![p] = Blind]
    /\ found' = [found EXCEPT ![p] = {}]
    /\ hand' = [hand EXCEPT ![p] = None]
    /\ ok' = [ok EXCEPT ![p] = FALSE]
    /\ UNCHANGED age

-----------------------------------------------------------------------------
(* One fetch.                                                              *)

\* Faulty variant: the end of the back-off is not looked at.
EverBroken == backoff # None

InBackoff == backoff # None /\ backoff # 0

\* Primary in back-off, no fallback: the list is not asked for yet, and the
\* fetch returns at once.
Resting == ~haveMap /\ InBackoff /\ ~probingPrimary /\ listAge < Recheck

\* Faulty variant: with a fallback the list is never read again.
ResolvesOnLoss == ~haveMap \/ backoff = 0

NeedsResolve == \/ ~haveMap
                \/ activeFallback /\ ~probingPrimary /\ listAge >= Recheck
                \/ backoff = 0

\* fetchMapRaw, first critical section.  A back-off that is over is cleared
\* by the loop that sees it first.
Begin(p) ==
    /\ pc[p] = "idle" /\ ~Resting
    /\ Goto(p, IF NeedsResolve THEN "list" ELSE "raw")
    /\ view' = [view EXCEPT ![p] = [fallback |-> activeFallback,
                                    probing |-> probingPrimary,
                                    broken |-> InBackoff]]
    /\ hand' = [hand EXCEPT ![p] = handle]
    /\ backoff' = IF backoff = 0 THEN None ELSE backoff
    /\ age' = [age EXCEPT ![p] = 0]
    /\ overlapped' = (overlapped \/ \E q \in Loops \ {p} : pc[q] # "idle")
    /\ UNCHANGED <<server, haveMap, handle, activeFallback, probingPrimary,
                   listAge, primaryFail, found, ok>>

ListAnswers(p) ==
    /\ pc[p] = "list"
    /\ Goto(p, "choose")
    /\ found' = [found EXCEPT ![p] = {[dev |-> d, gen |-> gens[d]] : d \in listed}]
    /\ UNCHANGED <<server, shared, view, hand, ok, age, overlapped>>

ListFails(p) ==
    /\ pc[p] = "list"
    /\ Return(p)
    /\ UNCHANGED <<server, shared, overlapped>>

\* Faulty variant: the back-off is not looked at.
PrimaryFirst(p) ==
    {h \in found[p] : \/ h.dev = "primary"
                      \/ \A g \in found[p] : g.dev # "primary"}

\* The entry chosen: the primary unless it was in back-off, else the
\* fallback.
Candidates(p) ==
    {h \in found[p] :
        \/ h.dev = "primary" /\ ~view[p].broken
        \/ /\ h.dev = "fallback"
           /\ view[p].broken \/ \A g \in found[p] : g.dev # "primary"}

\* Faulty variants: the fallback is left before the primary has answered; the
\* fallback found again counts as a probe too.
NeverProbe(p, h) == view[p].fallback /\ h = None

ProbesEither(p, h) == view[p].fallback /\ h # None

\* The primary found while a fallback is active is only probed.
IsProbe(p, h) == view[p].fallback /\ h.dev = "primary"

\* fetchMapRaw, second critical section.  lastListCheck becomes the time at
\* which this fetch began.
ChooseNone(p) ==
    /\ pc[p] = "choose" /\ Candidates(p) = {}
    /\ haveMap' = FALSE /\ activeFallback' = FALSE /\ probingPrimary' = FALSE
    /\ listAge' = age[p]
    /\ Return(p)
    /\ UNCHANGED <<server, handle, primaryFail, backoff, overlapped>>

Choose(p) ==
    /\ pc[p] = "choose"
    /\ \E h \in Candidates(p) :
          /\ haveMap' = TRUE /\ handle' = h
          /\ probingPrimary' = IsProbe(p, h)
          /\ activeFallback' = (IsProbe(p, h) \/ h.dev = "fallback")
          /\ listAge' = age[p]
          /\ hand' = [hand EXCEPT ![p] = h]
          /\ view' = [view EXCEPT ![p] = [fallback |-> activeFallback',
                                          probing |-> probingPrimary',
                                          broken |-> view[p].broken]]
    /\ Goto(p, "raw")
    /\ UNCHANGED <<server, primaryFail, backoff, found, ok, age, overlapped>>

\* /api/map/raw: 404 unless the generation is still the device's.
Raw(p) ==
    /\ pc[p] = "raw"
    /\ Goto(p, "book")
    /\ ok' = [ok EXCEPT ![p] = /\ hand[p].dev \in listed \cap healthy
                               /\ hand[p].gen = gens[hand[p].dev]]
    /\ UNCHANGED <<server, shared, view, found, hand, age, overlapped>>

\* What was asked, by what the fetch saw: the fallback, or else the primary.
OfFallback(p) == view[p].fallback /\ ~view[p].probing

\* resetActive
LoseFallback ==
    /\ haveMap' = FALSE /\ activeFallback' = FALSE /\ probingPrimary' = FALSE
    /\ UNCHANGED <<handle, listAge, primaryFail, backoff>>

\* markPrimaryFailure: the second in a row begins the back-off and lets the
\* list be read at once.
PrimaryFails ==
    /\ primaryFail' = IF primaryFail < FailMax THEN primaryFail + 1 ELSE primaryFail
    /\ haveMap' = FALSE /\ probingPrimary' = FALSE
    /\ IF primaryFail' >= FailMax
       THEN backoff' = Backoff /\ listAge' = Recheck
       ELSE UNCHANGED <<backoff, listAge>>
    /\ UNCHANGED <<handle, activeFallback>>

\* markPrimarySuccess
PrimaryAnswers ==
    /\ primaryFail' = 0 /\ backoff' = None
    /\ activeFallback' = FALSE /\ probingPrimary' = FALSE
    /\ UNCHANGED <<haveMap, handle, listAge>>

\* failActive, or the end of fetchMAP and mapErrCells.
Book(p) ==
    /\ pc[p] = "book"
    /\ CASE ok[p] /\ OfFallback(p)   -> UNCHANGED shared
         [] ok[p] /\ ~OfFallback(p)  -> PrimaryAnswers
         [] ~ok[p] /\ OfFallback(p)  -> LoseFallback
         [] ~ok[p] /\ ~OfFallback(p) -> PrimaryFails
    /\ Return(p)
    /\ UNCHANGED <<server, overlapped>>

-----------------------------------------------------------------------------
(* The devices and the clock.                                              *)

Change == changes > 0 /\ changes' = changes - 1

Unplug(d) ==
    /\ Change /\ d \in listed
    /\ listed' = listed \ {d}
    /\ UNCHANGED <<healthy, gens>>

\* Plugged in, for the first time or again: a new generation.
Plug(d) ==
    /\ Change
    /\ listed' = listed \cup {d}
    /\ gens' = [gens EXCEPT ![d] = @ + 1]
    /\ UNCHANGED healthy

Turn(d) ==
    /\ Change
    /\ healthy' = IF d \in healthy THEN healthy \ {d} ELSE healthy \cup {d}
    /\ UNCHANGED <<listed, gens>>

Devices ==
    /\ \E d \in Serials : Unplug(d) \/ Plug(d) \/ Turn(d)
    /\ UNCHANGED <<shared, pc, local, overlapped>>

\* A loop that fetches in vain, or has still time for its next fetch.
MayWait(p) == (Resting /\ pc[p] = "idle") \/ age[p] < Slow

\* Time passes no faster than the loops fetch.
Tick ==
    /\ \A p \in Loops : MayWait(p)
    /\ listAge' = IF listAge < Recheck THEN listAge + 1 ELSE listAge
    /\ backoff' = IF InBackoff THEN backoff - 1 ELSE backoff
    /\ age' = [p \in Loops |-> IF age[p] < Slow THEN age[p] + 1 ELSE age[p]]
    /\ UNCHANGED <<server, haveMap, handle, activeFallback, probingPrimary,
                   primaryFail, pc, view, found, hand, ok, overlapped>>

-----------------------------------------------------------------------------
Init ==
    /\ listed \in SUBSET Serials /\ healthy \in SUBSET Serials
    /\ gens = [d \in Serials |-> 0] /\ changes = MaxChanges
    /\ haveMap = FALSE /\ handle = None
    /\ activeFallback = FALSE /\ probingPrimary = FALSE
    /\ listAge = Recheck /\ primaryFail = 0 /\ backoff = None
    /\ pc = [p \in Loops |-> "idle"]
    /\ view = [p \in Loops |-> Blind] /\ found = [p \in Loops |-> {}]
    /\ hand = [p \in Loops |-> None] /\ ok = [p \in Loops |-> FALSE]
    /\ age = [p \in Loops |-> 0]
    /\ overlapped = FALSE

Fetch(p) == \/ Begin(p) \/ ListAnswers(p) \/ ListFails(p)
            \/ ChooseNone(p) \/ Choose(p) \/ Raw(p) \/ Book(p)

Next == (\E p \in Loops : Fetch(p)) \/ Devices \/ Tick

Spec == Init /\ [][Next]_vars

\* Time passes and both loops run.
FairSpec ==
    /\ Spec
    /\ WF_vars(Tick)
    /\ \A p \in Loops : WF_vars(Fetch(p))

-----------------------------------------------------------------------------
TypeOK ==
    /\ listed \subseteq Serials /\ healthy \subseteq Serials
    /\ changes \in 0..MaxChanges
    /\ gens \in [Serials -> 0..(MaxChanges - changes)]
    /\ haveMap \in BOOLEAN /\ handle \in Handles \cup {None}
    /\ activeFallback \in BOOLEAN /\ probingPrimary \in BOOLEAN
    /\ listAge \in 0..Recheck \/ listAge \in 0..Slow
    /\ primaryFail \in 0..FailMax /\ backoff \in 0..Backoff \cup {None}
    /\ pc \in [Loops -> {"idle", "list", "choose", "raw", "book"}]
    /\ view \in [Loops -> [fallback : BOOLEAN, probing : BOOLEAN, broken : BOOLEAN]]
    /\ found \in [Loops -> SUBSET Handles]
    /\ hand \in [Loops -> Handles \cup {None}]
    /\ ok \in [Loops -> BOOLEAN]
    /\ age \in [Loops -> 0..Slow]
    /\ overlapped \in BOOLEAN

\* As long as no two fetches have overlapped, the flags tell which device is
\* being read: a failure is always booked on the device that failed, and the
\* list is read again while it is the fallback.
FlagsTellDevice ==
    ~overlapped /\ haveMap =>
        (handle.dev = "fallback" <=> activeFallback /\ ~probingPrimary)

\* "Return to the primary only after a successful raw" (section 8 of
\* rudiments-cleanup.md): a fallback is not left for a primary that has not
\* answered, unless the fallback was lost.
ReturnAfterSuccess ==
    [][activeFallback /\ ~activeFallback' /\ haveMap' /\ ~overlapped'
        => \E p \in Loops : pc[p] = "book" /\ ok[p] /\ hand[p].dev = "primary"]_vars

\* From some moment on the server answers with the list, and device d in it
\* with its payload.
Usable(d) ==
    /\ <>[](d \in listed \cap healthy)
    /\ <>[][\A p \in Loops : ~ListFails(p)]_vars

Served(p) == pc[p] = "book" /\ ok[p]

\* Whichever device can be read, a fetch succeeds again and again: no
\* interleaving of the two loops and no history of failures leaves the
\* service without data for ever.
DataGoOn ==
    \A d \in Serials : Usable(d) => []<>(\E p \in Loops : Served(p))

\* Once the primary works again it is read again and kept ("so as not to
\* stick to the fallback after the return of the primary", ibid.), as long as
\* no two fetches overlap.
PrimaryReturns ==
    Usable("primary") => <>[](haveMap => handle.dev = "primary")

PrimaryReturnsAlone == [](~overlapped) => PrimaryReturns

\* In the end a device that can be read is read, and the right one.
DeviceIsFound == DataGoOn /\ PrimaryReturnsAlone
=============================================================================
