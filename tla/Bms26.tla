-------------------------------- MODULE Bms26 --------------------------------
(***************************************************************************)
(* Batteries behind the Malina26 server: the poller with its back-offs,    *)
(* the five-minute buckets kept in memory only, and the averages table.    *)
(*                                                                         *)
(* One iteration of the loop first writes the buckets that are closed by   *)
(* the clock, then polls (which takes time), then adds what it has got to  *)
(* the buckets of a later moment.  A bucket is the number of its points:   *)
(* an average is whole exactly when no point is missing.  The clock        *)
(* counts polling periods; Len of them make a bucket.                      *)
(***************************************************************************)
EXTENDS Integers, FiniteSets, FiniteSetsExt

CONSTANTS
    Ids,         \* slots of the server, numbers
    Serials,
    SerialOf,    \* the serial each slot reports; two slots may share one
    Len,         \* polling periods in a bucket
    MaxTime,     \* bound: the clock
    BackoffMax,  \* bms26BackoffMax, in periods
    MaxRestarts, \* bound: restarts of the service
    None

Times   == 0..MaxTime
Bucket(t) == t \div Len       \* bms26BucketStart
Buckets == 0..Bucket(MaxTime)
Keys    == Serials \X Buckets
Windows == [bucket : Buckets, n : Nat \ {0}]  \* a window and its points

Bms26Assumption ==
    /\ Ids \subseteq Nat \ {0} /\ IsFiniteSet(Ids)
    /\ SerialOf \in [Ids -> Serials]
    /\ Len \in Nat \ {0} /\ MaxTime \in Nat /\ BackoffMax \in Nat \ {0}
    /\ MaxRestarts \in Nat
    /\ None \notin Windows

VARIABLES
    clock,
    phase,     \* the next part of the iteration: "flush", "poll" or "add"
    ticked,    \* when the iteration began
    snaps,     \* the snapshots of the poll: slot -> is it stale
    listRetry, \* bms26Poller.listRetryAt and listBackoff
    devFail,   \* bms26Poller.devFail
    open,      \* bms26Accumulator.buckets: serial -> bucket and points, or None
    pending,   \* bms26Accumulator.pending, as points of closed buckets
    averages,  \* bms26_averages_r: points behind the row, 0 without a row
    current,   \* redis sunreceiver:bms26:current: the slot shown for a serial
    added,     \* every point that was ever added
    lost,      \* points that went with a failed transaction or a stop
    restarts

poller == <<listRetry, devFail>>
acc    == <<open, pending>>
vars   == <<clock, phase, ticked, snaps, poller, acc, averages, current, added, lost, restarts>>

NoWait   == [until |-> 0, backoff |-> 0]
Empty    == [x \in {} |-> FALSE]
Nowhere  == [k \in Keys |-> 0]
Plus(f, g) == [k \in Keys |-> f[k] + g[k]]

-----------------------------------------------------------------------------
(* The poller.                                                             *)

\* bms26NextBackoff
NextBackoff(b) == IF b = 0 THEN 1 ELSE IF 2 * b > BackoffMax THEN BackoffMax ELSE 2 * b

Failed(w) == [until |-> clock + NextBackoff(w.backoff), backoff |-> NextBackoff(w.backoff)]

\* Faulty variant: a slot that answers keeps its back-off.
SlotKeepsWait(i, o) == IF o = "error" THEN Failed(devFail[i]) ELSE devFail[i]

\* The back-off of slot i after the outcome o of reading it.
SlotWait(i, o) == IF o = "error" THEN Failed(devFail[i]) ELSE NoWait

\* poll, when the list cannot be read.
PollListFails ==
    /\ phase = "poll" /\ clock >= listRetry.until
    /\ listRetry' = Failed(listRetry)
    /\ phase' = "flush"
    /\ UNCHANGED <<clock, ticked, snaps, devFail, acc, averages, current, added, lost, restarts>>

\* poll, while the list is in back-off.
PollWaits ==
    /\ phase = "poll" /\ clock < listRetry.until
    /\ phase' = "flush"
    /\ UNCHANGED <<clock, ticked, snaps, poller, acc, averages, current, added, lost, restarts>>

\* poll, when the list is read: every listed slot out of back-off answers with
\* a fresh or a stale contract, has gone (404 or a broken contract), or fails.
PollSlots(listed, outcome) ==
    LET asked == {i \in listed : clock >= devFail[i].until}
        got   == {i \in asked : outcome[i] \in {"fresh", "stale"}}
    IN  /\ phase = "poll" /\ clock >= listRetry.until
        /\ listRetry' = NoWait
        /\ devFail' = [i \in Ids |-> IF i \in asked THEN SlotWait(i, outcome[i]) ELSE devFail[i]]
        /\ snaps' = [i \in got |-> outcome[i] = "stale"]
        /\ phase' = IF got = {} THEN "flush" ELSE "add"
        /\ UNCHANGED <<clock, ticked, acc, averages, current, added, lost, restarts>>

-----------------------------------------------------------------------------
(* The accumulator.                                                        *)

\* The points of the bucket of serial s, if its start satisfies P.
Points(S) == [k \in Keys |-> IF k[1] \in S /\ open[k[1]].bucket = k[2] THEN open[k[1]].n ELSE 0]

\* Faulty variant: the bucket of the past window makes room for the new one.
AddReplaces(n) ==
    LET now == Bucket(clock)
        hit == {s \in Serials : n[s] > 0}
    IN  /\ open' = [s \in Serials |->
             IF s \notin hit THEN open[s]
             ELSE [bucket |-> now,
                   n |-> n[s] + IF open[s] # None /\ open[s].bucket = now THEN open[s].n ELSE 0]]
        /\ UNCHANGED pending

\* add, for n[s] points of each serial: a bucket of another window is moved
\* to pending first.
AddPoints(n) ==
    LET now == Bucket(clock)
        hit == {s \in Serials : n[s] > 0}
        out == {s \in hit : open[s] # None /\ open[s].bucket # now}
    IN  /\ open' = [s \in Serials |->
             IF s \notin hit THEN open[s]
             ELSE [bucket |-> now,
                   n |-> n[s] + IF open[s] # None /\ open[s].bucket = now THEN open[s].n ELSE 0]]
        /\ pending' = Plus(pending, Points(out))

\* Faulty variant: whichever slot was read last is shown.
ShownLast(s) == Max({i \in DOMAIN snaps : SerialOf[i] = s})

\* bms26SelectCurrent: the slot with the lowest id among the snapshots of s.
ShownSlot(s) == Min({i \in DOMAIN snaps : SerialOf[i] = s})

\* The rest of the iteration: fresh snapshots are added at the moment after
\* the poll, stale ones are only shown.
Add ==
    LET n == [s \in Serials |-> Cardinality({i \in DOMAIN snaps : SerialOf[i] = s /\ ~snaps[i]})]
    IN  /\ phase = "add"
        /\ phase' = "flush"
        /\ AddPoints(n)
        /\ added' = Plus(added, [k \in Keys |-> IF k[2] = Bucket(clock) THEN n[k[1]] ELSE 0])
        /\ current' = [s \in Serials |->
             IF \E i \in DOMAIN snaps : SerialOf[i] = s
             THEN [id |-> ShownSlot(s), stale |-> snaps[ShownSlot(s)]] ELSE current[s]]
        /\ snaps' = Empty
        /\ UNCHANGED <<clock, ticked, poller, averages, lost, restarts>>

\* Faulty variant: the bucket that is still open is taken, too.
OpenToo(b) == b <= Bucket(clock)

\* closed: the start is before the current window.
Closed(b) == b < Bucket(clock)

\* saveBms26ClosedBuckets: one transaction for all that is closed; a row that
\* exists is overwritten.  After three failures the points are gone.
Flush(ok) ==
    LET done == {s \in Serials : open[s] # None /\ Closed(open[s].bucket)}
        pts  == Plus(pending, Points(done))
    IN  /\ phase = "flush" /\ clock > ticked
        /\ phase' = "poll"
        /\ ticked' = clock
        /\ open' = [s \in Serials |-> IF s \in done THEN None ELSE open[s]]
        /\ pending' = Nowhere
        /\ IF ok THEN /\ averages' = [k \in Keys |-> IF pts[k] > 0 THEN pts[k] ELSE averages[k]]
                      /\ UNCHANGED lost
                 ELSE /\ lost' = Plus(lost, pts)
                      /\ UNCHANGED averages
        /\ UNCHANGED <<clock, snaps, poller, current, added, restarts>>

-----------------------------------------------------------------------------
\* Time passes, inside a poll as well as between two.
Tick == clock < MaxTime /\ clock' = clock + 1
        /\ UNCHANGED <<phase, ticked, snaps, poller, acc, averages, current, added, lost, restarts>>

\* A stop or a crash, and a start: open buckets are not written.
Restart ==
    /\ restarts < MaxRestarts
    /\ restarts' = restarts + 1
    /\ lost' = Plus(lost, Plus(pending, Points({s \in Serials : open[s] # None})))
    /\ open' = [s \in Serials |-> None] /\ pending' = Nowhere
    /\ phase' = "flush" /\ snaps' = Empty
    /\ listRetry' = NoWait /\ devFail' = [i \in Ids |-> NoWait]
    /\ UNCHANGED <<clock, ticked, averages, current, added>>

Init ==
    /\ clock = 0 /\ ticked = 0
    /\ phase = "flush" /\ snaps = Empty
    /\ listRetry = NoWait /\ devFail = [i \in Ids |-> NoWait]
    /\ open = [s \in Serials |-> None] /\ pending = Nowhere
    /\ averages = Nowhere /\ current = [s \in Serials |-> None]
    /\ added = Nowhere /\ lost = Nowhere /\ restarts = 0

Outcomes == {"fresh", "stale", "gone", "error"}

Next ==
    \/ \E ok \in BOOLEAN : Flush(ok)
    \/ PollListFails \/ PollWaits
    \/ \E listed \in SUBSET Ids : \E outcome \in [listed -> Outcomes] : PollSlots(listed, outcome)
    \/ Add
    \/ Tick
    \/ Restart

Spec == Init /\ [][Next]_vars

-----------------------------------------------------------------------------
Waits == [until : 0..(MaxTime + BackoffMax), backoff : 0..BackoffMax]

TypeOK ==
    /\ clock \in Times /\ ticked \in Times
    /\ phase \in {"flush", "poll", "add"}
    /\ DOMAIN snaps \subseteq Ids /\ \A i \in DOMAIN snaps : snaps[i] \in BOOLEAN
    /\ listRetry \in Waits /\ devFail \in [Ids -> Waits]
    /\ open \in [Serials -> Windows \cup {None}]
    /\ {pending, averages, added, lost} \subseteq [Keys -> Nat]
    /\ current \in [Serials -> [id : Ids, stale : BOOLEAN] \cup {None}]
    /\ restarts \in 0..MaxRestarts

(* Every point that was read is in exactly one place: its open bucket, a    *)
(* closed one, the row of its own window, or among those that a failed      *)
(* transaction or a stop took: a poll across the boundary of two windows    *)
(* splits no bucket and a row is never overwritten by a part of its points. *)
EveryPointOnce ==
    \A k \in Keys :
        added[k] = averages[k] + pending[k] + lost[k] + Points({s \in Serials : open[s] # None})[k]

(* A row is written once, after its window: the table never shows an        *)
(* average that changes later, through slow polls and restarts.             *)
RowsAreFinal ==
    \A k \in Keys : averages'[k] # averages[k] => averages[k] = 0 /\ k[2] < Bucket(clock)

(* A failing slot or list is asked again after the longest back-off at      *)
(* most, and one whose snapshot is in hand starts its back-offs anew.       *)
BackoffEnds ==
    /\ \A w \in {listRetry} \cup {devFail[i] : i \in Ids} : w.until <= clock + BackoffMax
    /\ \A i \in DOMAIN snaps : devFail[i] = NoWait

(* Of two slots with one serial the lower one that answered is shown, and   *)
(* what the page shows as fresh has gone into the averages, too.            *)
ShownIsMeasured ==
    current' # current =>
        \A i \in DOMAIN snaps :
            LET s == SerialOf[i] IN
            /\ current'[s].id <= i
            /\ ~current'[s].stale => added'[<<s, Bucket(clock)>>] > added[<<s, Bucket(clock)>>]

(* From the answer of a slot to the row: nothing is lost unseen, counted    *)
(* twice, shown and not averaged, or waited for too long.                   *)
PointsBecomeRows ==
    [][EveryPointOnce' /\ BackoffEnds' /\ RowsAreFinal /\ ShownIsMeasured]_vars
=============================================================================
