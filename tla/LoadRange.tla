----------------------------- MODULE LoadRange -----------------------------
(***************************************************************************)
(* One read for the requests of one period (dashboardHandler.loadRange).   *)
(*                                                                         *)
(* The first request of a period registers an entry and reads; the others  *)
(* of the same period wait for its answer, but not longer than TTL, after  *)
(* which they read themselves.  An entry of age TTL is removed by whoever  *)
(* comes next, of whatever period.  Reads may hang, and a read may panic,  *)
(* which recoverMiddleware survives, leaving its entry behind.  What is    *)
(* read is abstracted to the moment at which the read began.               *)
(***************************************************************************)
EXTENDS Integers, FiniteSets

CONSTANTS
    Requests,   \* the requests of a behaviour
    Periods,    \* pairs <<from, to>>
    TTL,        \* loadRangeFlightTTL
    FlightMax,  \* loadRangeFlightMax
    MaxTime,    \* BOUND: the clock stops here
    None

Time == 0..MaxTime

LoadRangeAssumption ==
    /\ TTL \in Nat \ {0} /\ FlightMax \in Nat /\ MaxTime \in Nat
    /\ None \notin Requests /\ None \notin Int

VARIABLES
    now,
    pc,        \* "new", "waiting", "leading", "alone", "answered", "panicked"
    period,    \* what a request asks for
    came,      \* when it came
    began,     \* when its own read began
    leader,    \* whose entry it waits for
    source,    \* whose read it was answered with
    flight,    \* the entries: the requests that registered them
    outlived   \* history: a read has lasted, or been dead, for TTL when another came

vars == <<now, pc, period, came, began, leader, source, flight, outlived>>

\* Faulty variant: the end of the period is left out of the key.
KeyOfStart(p) == p[1]

\* Of the period; the moment of the request stays out of it.
Key(p) == p

\* Faulty variant: nobody removes an old entry.
NeverOld(l) == FALSE

\* Faulty variant: an entry is removed a tick too soon.
OldSoon(l) == now - began[l] >= TTL - 1

\* An entry as old as TTL, its read still under way or gone in a panic.
Old(l) == now - began[l] >= TTL

\* Faulty variant: a waiting request has no timer.
NeverGivesUp(r) == FALSE

GivesUp(r) == now - came[r] >= TTL

-----------------------------------------------------------------------------
Reads(r, how) ==
    /\ pc' = [pc EXCEPT ![r] = how]
    /\ began' = [began EXCEPT ![r] = now]

\* A request comes: the old entries go, then it waits for the entry of its
\* period, reads without one when there are too many, or registers its own.
Come(r) ==
    \E p \in Periods :
        LET kept == {l \in flight : ~Old(l)}
            same == {l \in kept : Key(period[l]) = Key(p)}
        IN  /\ pc[r] = "new"
            /\ now + TTL <= MaxTime
            /\ period' = [period EXCEPT ![r] = p]
            /\ came' = [came EXCEPT ![r] = now]
            /\ outlived' = (outlived \/ \E l \in flight : now - began[l] >= TTL)
            /\ \/ \E l \in same :
                     /\ pc' = [pc EXCEPT ![r] = "waiting"]
                     /\ leader' = [leader EXCEPT ![r] = l]
                     /\ flight' = kept
                     /\ UNCHANGED began
               \/ /\ same = {} /\ Cardinality(kept) >= FlightMax
                  /\ Reads(r, "alone")
                  /\ flight' = kept
                  /\ UNCHANGED leader
               \/ /\ same = {} /\ Cardinality(kept) < FlightMax
                  /\ Reads(r, "leading")
                  /\ flight' = kept \cup {r}
                  /\ UNCHANGED leader
            /\ UNCHANGED <<now, source>>

Answer(r, l) ==
    /\ pc' = [pc EXCEPT ![r] = "answered"]
    /\ source' = [source EXCEPT ![r] = l]

\* The read of a leader ends: the entry of its period is deleted, by key, and
\* the waiting requests are let go.
Finish(r) ==
    /\ pc[r] = "leading"
    /\ Answer(r, r)
    /\ flight' = {l \in flight : Key(period[l]) # Key(period[r])}
    /\ UNCHANGED <<now, period, came, began, leader, outlived>>

FinishAlone(r) ==
    /\ pc[r] = "alone"
    /\ Answer(r, r)
    /\ UNCHANGED <<now, period, came, began, leader, flight, outlived>>

\* The handler of a reading request dies: nothing is deleted, nobody let go.
Panic(r) ==
    /\ pc[r] \in {"leading", "alone"}
    /\ pc' = [pc EXCEPT ![r] = "panicked"]
    /\ UNCHANGED <<now, period, came, began, leader, source, flight, outlived>>

\* A waiting request is let go with the leader's answer ...
TakeAnswer(r) ==
    /\ pc[r] = "waiting" /\ pc[leader[r]] = "answered"
    /\ Answer(r, leader[r])
    /\ UNCHANGED <<now, period, came, began, leader, flight, outlived>>

\* ... or its time is up and it reads itself; with both it may do either.
ReadItself(r) ==
    /\ pc[r] = "waiting" /\ GivesUp(r)
    /\ Reads(r, "alone")
    /\ UNCHANGED <<now, period, came, leader, source, flight, outlived>>

Tick ==
    /\ now < MaxTime
    /\ now' = now + 1
    /\ UNCHANGED <<pc, period, came, began, leader, source, flight, outlived>>

Init ==
    /\ now = 0
    /\ pc = [r \in Requests |-> "new"]
    /\ period \in [Requests -> Periods]
    /\ \A r, q \in Requests : period[r] = period[q]
    /\ came = [r \in Requests |-> 0]
    /\ began = [r \in Requests |-> 0]
    /\ leader = [r \in Requests |-> None]
    /\ source = [r \in Requests |-> None]
    /\ flight = {}
    /\ outlived = FALSE

Handles(r) == Come(r) \/ Finish(r) \/ FinishAlone(r) \/ Panic(r)
              \/ TakeAnswer(r) \/ ReadItself(r)

Next == Tick \/ \E r \in Requests : Handles(r)

Spec == Init /\ [][Next]_vars

\* The clock goes on and a goroutine that can leave its select does; a read
\* may hang for ever.
FairSpec ==
    /\ Spec /\ WF_vars(Tick)
    /\ \A r \in Requests : WF_vars(TakeAnswer(r) \/ ReadItself(r))

-----------------------------------------------------------------------------
Stages == {"new", "waiting", "leading", "alone", "answered", "panicked"}

\* Types, and the bound of the structure.
TypeOK ==
    /\ now \in Time
    /\ pc \in [Requests -> Stages]
    /\ period \in [Requests -> Periods]
    /\ came \in [Requests -> Time] /\ began \in [Requests -> Time]
    /\ leader \in [Requests -> Requests \cup {None}]
    /\ source \in [Requests -> Requests \cup {None}]
    /\ flight \subseteq Requests
    /\ Cardinality(flight) <= FlightMax
    /\ outlived \in BOOLEAN

\* An answer is of the period that was asked for, and of a read that began
\* less than TTL before the request came, whoever made it and however long it
\* took: nothing is kept between requests (dashboard.go, loadRange).
AnswerIsOwn ==
    \A r \in Requests : pc[r] = "answered" =>
        period[source[r]] = period[r]

AnswerIsYoung ==
    \A r \in Requests : pc[r] = "answered" =>
        came[r] - began[source[r]] < TTL

\* As long as no read lasts for TTL, a period is read by one leader
\* at a time ("collapse into one read", loadRange).
OneReadAtATime ==
    ~outlived => \A r, q \in Requests :
        pc[r] = "leading" /\ pc[q] = "leading" /\ period[r] = period[q] => r = q

\* Sharing a read is not seen in the answers, and is worth it.
AnswersServe == AnswerIsOwn /\ AnswerIsYoung /\ OneReadAtATime

\* No request waits for ever, though the read it waits for hang or panic.
WaitsEnd == \A r \in Requests : pc[r] = "waiting" ~> pc[r] # "waiting"
=============================================================================
