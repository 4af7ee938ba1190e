--------------------------- MODULE HistoryProofs ----------------------------
(***************************************************************************)
(* What the history keeps on its way to the tables and back: first what a  *)
(* restoration keeps for any number of instances on one Redis, any stored  *)
(* devices and any faults; then what the rows of averages keep for any     *)
(* devices, loads, lengths of a bucket and lost points; then of the two    *)
(* together, as the run checks them.                                       *)
(*                                                                         *)
(* OneRestorer is not inductive: it says nothing of the lock.  OwnsLock    *)
(* says that, until a lock has expired under its owner, whoever restores   *)
(* is the one the lock names.  CompleteIsTrue says nothing of the phase in *)
(* progress: Fetched says that what was queried is saved, still queued, or *)
(* among what the result does not count.                                   *)
(*                                                                         *)
(* OwnValues and RestoredIsSame say nothing of the points rows are         *)
(* averaged from.  RowsInv does: a point is what was measured, or the row  *)
(* at the start of a bucket that was put back; rows are rounded, and only  *)
(* of buckets that are over, so nothing measured joins what was put back.  *)
(***************************************************************************)
EXTENDS MCHistory, FiniteSetTheorems, WellFoundedInduction, TLAPS

-----------------------------------------------------------------------------
(* Types.                                                                  *)

LEMMA InjectType ==
    ASSUME NEW kind, NEW happens \in BOOLEAN, faults \in 0..MaxFaults,
           Inject(kind, happens)
    PROVE  faults' \in 0..MaxFaults
BY RestoreAssumption DEF Inject

\* A process outside the phases of a restoration has nothing queued.
LEMMA QueueEmpty ==
    ASSUME TypeOK, NEW p \in Procs, pc[p] \notin Restoring
    PROVE  queue[p] = {}
<1>1. queue[p] \subseteq Stored \cap {pc[p]} /\ Stored \subseteq Devices
    BY RestoreAssumption DEF TypeOK, Of, Restoring
<1>2. pc[p] \in Phases \ Restoring
    BY DEF TypeOK
<1>3. pc[p] \notin Devices
    BY <1>2 DEF Phases, Restoring, Devices, Swallowed
<1>. QED
    BY <1>1, <1>3

LEMMA TypeInit == Init => TypeOK
<1>. SUFFICES ASSUME Init PROVE TypeOK
    OBVIOUS
<1>1. pc \in [Procs -> Phases] /\ \A p \in Procs : queue[p] \subseteq Of(pc[p])
    BY DEF Init, Phases
<1>2. faults \in 0..MaxFaults
    BY RestoreAssumption DEF Init
<1>3. empty \in [Procs -> BOOLEAN] /\ queue \in [Procs -> SUBSET Stored]
    BY DEF Init
<1>4. /\ queried \in [Procs -> BOOLEAN] /\ complete \in [Procs -> BOOLEAN]
      /\ dropped \in [Procs -> SUBSET Stored]
    BY DEF Init
<1>. QED
    BY <1>1, <1>2, <1>3, <1>4 DEF Init, TypeOK

\* A step that moves one process between phases in which nothing is queued.
LEMMA MoveType ==
    ASSUME TypeOK, NEW p \in Procs, NEW phase \in Phases, Goto(p, phase),
           UNCHANGED queue, queue[p] = {}
    PROVE  pc' \in [Procs -> Phases] /\ \A q \in Procs : queue'[q] \subseteq Of(pc'[q])
BY DEF TypeOK, Goto

LEMMA TypeDecide ==
    ASSUME TypeOK, NEW p \in Procs, Decide(p)
    PROVE  TypeOK'
<1>0. pc[p] \in {"down", "empty?", "marker?", "present?", "lock"}
    BY DEF Decide, Start, CheckEmpty, CheckMarker, CheckPresent, TakeLock
<1>1. queue[p] = {}
    BY <1>0, QueueEmpty DEF Restoring
<1>2. PICK phase \in Phases : Goto(p, phase)
    BY DEF Decide, Start, CheckEmpty, CheckMarker, CheckPresent, TakeLock, Phases,
           Restoring
<1>3. UNCHANGED <<history, live, marker, queue, queried, dropped, overdue>>
    BY DEF Decide, Start, CheckEmpty, CheckMarker, CheckPresent, TakeLock, redis, mine
<1>4. pc' \in [Procs -> Phases] /\ \A q \in Procs : queue'[q] \subseteq Of(pc'[q])
    BY <1>1, <1>2, <1>3, MoveType
<1>5. faults' \in 0..MaxFaults
    BY InjectType DEF TypeOK, Decide, Start, CheckEmpty, CheckMarker, CheckPresent,
       TakeLock
<1>6. lock' \in Procs \cup {None} /\ complete' \in [Procs -> BOOLEAN]
    BY DEF TypeOK, Decide, Start, CheckEmpty, CheckMarker, CheckPresent, TakeLock,
           redis, mine
<1>7. empty' \in [Procs -> BOOLEAN]
    BY DEF TypeOK, Decide, Start, CheckEmpty, CheckMarker, CheckPresent, TakeLock,
           redis, mine
<1>. QED
    BY <1>3, <1>4, <1>5, <1>6, <1>7 DEF TypeOK

LEMMA TypeRestored ==
    ASSUME TypeOK, NEW p \in Procs, Restored(p)
    PROVE  TypeOK'
<1>1. CASE Query(p)
    <2>1. faults' \in 0..MaxFaults
        <3>1. \/ faults > 0 /\ faults' = faults - 1
              \/ UNCHANGED faults
            BY <1>1 DEF Query
        <3>2. faults \in 0..MaxFaults /\ MaxFaults \in Nat
            BY RestoreAssumption DEF TypeOK
        <3>. QED
            BY <3>1, <3>2
    <2>2. PICK fails \in BOOLEAN, lost \in SUBSET Swallowed :
            /\ queue' = [queue EXCEPT ![p] = IF fails THEN {}
                                             ELSE (Stored \cap Of(pc[p])) \ lost]
            /\ complete' = [complete EXCEPT ![p] = Result(p, fails)]
            /\ dropped' = [dropped EXCEPT ![p] = @ \cup (Stored \cap lost)]
        BY <1>1 DEF Query
    <2>3. complete' \in [Procs -> BOOLEAN] /\ dropped' \in [Procs -> SUBSET Stored]
        BY <2>2 DEF TypeOK, Result
    <2>4. queue' \in [Procs -> SUBSET Stored]
        BY <2>2 DEF TypeOK
    <2>5. \A q \in Procs : queue'[q] \subseteq Of(pc[q])
        BY <2>2 DEF TypeOK
    <2>6. queried' \in [Procs -> BOOLEAN]
        BY <1>1 DEF Query, TypeOK
    <2>7. UNCHANGED <<redis, pc, empty, overdue>>
        BY <1>1 DEF Query
    <2>. QED
        BY <2>1, <2>3, <2>4, <2>5, <2>6, <2>7 DEF TypeOK, redis
<1>2. CASE SavePoint(p)
    <2>1. PICK d \in queue[p], fails \in BOOLEAN :
            /\ Inject("save", fails)
            /\ history' = IF fails THEN history ELSE history \cup {d}
            /\ queue' = [queue EXCEPT ![p] = @ \ {d}]
            /\ dropped' = [dropped EXCEPT ![p] = IF fails THEN @ \cup {d} ELSE @]
        BY <1>2 DEF SavePoint
    <2>2. d \in Stored
        BY DEF TypeOK
    <2>3. faults' \in 0..MaxFaults
        BY <2>1, InjectType DEF TypeOK
    <2>4. dropped' \in [Procs -> SUBSET Stored]
        BY <2>1, <2>2 DEF TypeOK
    <2>. QED
        BY <1>2, <2>1, <2>2, <2>3, <2>4 DEF SavePoint, TypeOK
<1>3. CASE NextPhase(p)
    <2>1. queue[p] = {}
        BY <1>3 DEF NextPhase, Drained
    <2>2. PICK phase \in Phases : Goto(p, phase)
        BY <1>3 DEF NextPhase, Phases, Restoring
    <2>3. pc' \in [Procs -> Phases] /\ \A q \in Procs : queue'[q] \subseteq Of(pc'[q])
        BY <1>3, <2>1, <2>2, MoveType DEF NextPhase
    <2>. QED
        BY <1>3, <2>3 DEF NextPhase, TypeOK, redis
<1>4. CASE Unlock(p) \/ Mark(p)
    <2>1. queue[p] = {}
        BY <1>4, QueueEmpty DEF Unlock, Mark, Restoring
    <2>2. PICK phase \in Phases : Goto(p, phase)
        BY <1>4 DEF Unlock, Mark, Phases
    <2>3. pc' \in [Procs -> Phases] /\ \A q \in Procs : queue'[q] \subseteq Of(pc'[q])
        BY <1>4, <2>1, <2>2, MoveType DEF Unlock, Mark, mine
    <2>4. faults' \in 0..MaxFaults
        BY <1>4, InjectType DEF Unlock, Mark, TypeOK
    <2>5. /\ lock' \in Procs \cup {None} /\ marker' \in BOOLEAN
          /\ dropped' \in [Procs -> SUBSET Stored]
        BY <1>4 DEF Unlock, Mark, TypeOK, mine
    <2>. QED
        BY <1>4, <2>3, <2>4, <2>5 DEF Unlock, Mark, TypeOK, mine
<1>. QED
    BY <1>1, <1>2, <1>3, <1>4 DEF Restored

LEMMA TypeStep == TypeOK /\ [Next]_vars => TypeOK'
<1>. SUFFICES ASSUME TypeOK, [Next]_vars PROVE TypeOK'
    OBVIOUS
<1>1. ASSUME NEW p \in Procs, Decide(p) PROVE TypeOK'
    BY <1>1, TypeDecide
<1>2. ASSUME NEW p \in Procs, Restored(p) PROVE TypeOK'
    BY <1>2, TypeRestored
<1>3. ASSUME NEW p \in Procs, SaveLive(p) PROVE TypeOK'
    BY <1>3 DEF SaveLive, TypeOK, mine
<1>4. ASSUME NEW p \in Procs, Quit(p) PROVE TypeOK'
    <2>1. queue[p] = {}
        BY <1>4, QueueEmpty DEF Quit, Restoring
    <2>2. pc' \in [Procs -> Phases] /\ \A q \in Procs : queue'[q] \subseteq Of(pc'[q])
        BY <1>4, <2>1, MoveType DEF Quit, Phases, mine
    <2>. QED
        BY <1>4, <2>2 DEF Quit, TypeOK, mine, redis
<1>5. ASSUME NEW p \in Procs, Crash(p) PROVE TypeOK'
    <2>1. faults' \in 0..MaxFaults
        BY <1>5, InjectType DEF Crash, TypeOK
    <2>. QED
        BY <1>5, <2>1 DEF Crash, Goto, TypeOK, redis, Phases
<1>6. CASE Expire
    <2>1. faults' \in 0..MaxFaults
        BY <1>6, RestoreAssumption DEF Expire, Inject, TypeOK
    <2>. QED
        BY <1>6, <2>1 DEF Expire, TypeOK, HoldsLock
<1>7. CASE UNCHANGED vars
    BY <1>7 DEF vars, TypeOK
<1>. QED
    BY <1>1, <1>2, <1>3, <1>4, <1>5, <1>6, <1>7 DEF Next

\* Every instance, the lock and the marker keep their types, for any number
\* of instances and whatever fails.
THEOREM TypeCorrect == Spec => []TypeOK
    BY TypeInit, TypeStep, PTL DEF Spec

-----------------------------------------------------------------------------
(* One restorer.                                                           *)

\* Until a lock has expired under its owner, who restores is whom it names.
OwnsLock == ~overdue => \A p \in Procs : HoldsLock(p) => lock = p

\* Which phases begin and end the holding of the lock: SETNX and the deletion.
LEMMA HoldersStep ==
    ASSUME TypeOK, NEW p \in Procs, NEW q \in Procs, q # p,
           Decide(p) \/ Restored(p) \/ SaveLive(p) \/ Quit(p) \/ Crash(p)
    PROVE  pc'[q] = pc[q] /\ overdue' = overdue
BY DEF TypeOK, Decide, Start, CheckEmpty, CheckMarker, CheckPresent, TakeLock, Restored,
       Query, SavePoint, NextPhase, Unlock, Mark, SaveLive, Quit, Crash, Goto, mine

LEMMA OwnsLockStep == TypeOK /\ OwnsLock /\ [Next]_vars => OwnsLock'
<1>. SUFFICES ASSUME TypeOK, OwnsLock, [Next]_vars, ~overdue', NEW q \in Procs, HoldsLock(q)'
              PROVE  lock' = q
    BY DEF OwnsLock
<1>0. None \notin Procs
    BY RestoreAssumption
<1>1. ASSUME NEW p \in Procs, Decide(p) PROVE lock' = q
    <2>1. CASE TakeLock(p) /\ lock' # lock
        <3>1. lock = None /\ lock' = p /\ ~overdue
            BY <2>1 DEF TakeLock, Wins
        <3>2. q # p => HoldsLock(q)
            BY <1>1, HoldersStep DEF HoldsLock
        <3>. QED
            BY <1>0, <3>1, <3>2 DEF OwnsLock
    <2>2. CASE UNCHANGED lock
        <3>1. ~overdue
            BY <1>1 DEF Decide, Start, CheckEmpty, CheckMarker, CheckPresent, TakeLock, mine
        <3>2. q # p => HoldsLock(q)
            BY <1>1, HoldersStep DEF HoldsLock
        <3>3. q = p => lock' = q
            BY <1>0, <1>1, <2>2 DEF Decide, Start, CheckEmpty, CheckMarker, CheckPresent,
               TakeLock, Goto, TypeOK, HoldsLock, Restoring, Wins
        <3>. QED
            BY <2>2, <3>1, <3>2, <3>3 DEF OwnsLock
    <2>. QED
        BY <1>1, <2>1, <2>2 DEF Decide, Start, CheckEmpty, CheckMarker, CheckPresent, redis
<1>2. ASSUME NEW p \in Procs, Restored(p) PROVE lock' = q
    <2>1. ~overdue
        BY <1>2 DEF Restored, Query, SavePoint, NextPhase, Unlock, Mark, mine
    <2>2. HoldsLock(q)
        BY <1>2, HoldersStep DEF HoldsLock, Restored, Query, SavePoint, NextPhase, Unlock,
           Mark, Goto, TypeOK, Restoring
    <2>3. CASE Unlock(p)
        <3>1. HoldsLock(p) /\ q # p
            BY <2>3 DEF Unlock, HoldsLock, Goto, TypeOK, Restoring
        <3>. QED
            BY <2>1, <2>2, <3>1 DEF OwnsLock
    <2>4. CASE ~Unlock(p)
        <3>1. lock' = lock
            BY <1>2, <2>4 DEF Restored, Query, SavePoint, NextPhase, Mark, redis
        <3>. QED
            BY <2>1, <2>2, <3>1 DEF OwnsLock
    <2>. QED
        BY <2>3, <2>4
<1>3. ASSUME NEW p \in Procs, SaveLive(p) \/ Quit(p) \/ Crash(p) PROVE lock' = q
    <2>1. ~overdue /\ lock' = lock
        <3>1. overdue' = overdue /\ lock' = lock
            BY <1>3 DEF SaveLive, Quit, Crash, redis, mine
        <3>. QED
            BY <3>1
    <2>2. HoldsLock(q)
        BY <1>3, HoldersStep DEF HoldsLock, SaveLive, Quit, Crash, Goto, TypeOK, Restoring
    <2>. QED
        BY <2>1, <2>2 DEF OwnsLock
<1>4. CASE Expire
    <2>1. ~overdue /\ ~HoldsLock(lock)
        BY <1>4 DEF Expire
    <2>2. HoldsLock(q)
        BY <1>4 DEF Expire, HoldsLock
    <2>. QED
        BY <2>1, <2>2 DEF OwnsLock
<1>5. CASE UNCHANGED vars
    BY <1>5 DEF vars, OwnsLock, HoldsLock
<1>. QED
    BY <1>1, <1>2, <1>3, <1>4, <1>5 DEF Next

LEMMA OwnsLockInit == Init => OwnsLock
BY DEF Init, OwnsLock, HoldsLock, Restoring

\* Through crashes, the locks they leave behind and their expiry, two
\* instances never restore at once, unless one outlives its lock.
THEOREM OneRestorerCorrect == Spec => []OneRestorer
<1>1. OwnsLock => OneRestorer
    BY DEF OwnsLock, OneRestorer
<1>. QED
    BY <1>1, OwnsLockInit, OwnsLockStep, TypeCorrect, PTL DEF Spec

-----------------------------------------------------------------------------
(* What a restoration believes.                                            *)

\* Outside a restoration no query is noted as done.
Unqueried == \A p \in Procs : pc[p] \notin Restoring => ~queried[p]

\* In the phase in progress, what was queried is in Redis, still queued, or
\* dropped.
Fetched ==
    \A p \in Procs : pc[p] \in Restoring /\ queried[p] /\ complete[p]
        => Stored \cap Of(pc[p]) \subseteq history \cup queue[p] \cup dropped[p]

Believed == Unqueried /\ Fetched /\ CompleteIsTrue

LEMMA BelievedInit == Init => Believed
BY DEF Init, Believed, Unqueried, Fetched, CompleteIsTrue, Restoring

\* Nothing takes points out of Redis, and another instance's restoration only
\* adds to them.
LEMMA HistoryGrows == TypeOK /\ [Next]_vars => history \subseteq history'
BY DEF Next, Decide, Start, CheckEmpty, CheckMarker, CheckPresent, TakeLock, Restored,
       Query, SavePoint, NextPhase, Unlock, Mark, SaveLive, Quit, Crash, Expire, vars, redis

\* What p does leaves what the others hold and believe alone.
LEMMA OthersBelieve ==
    ASSUME TypeOK, Believed, [Next]_vars, NEW q \in Procs,
           pc'[q] = pc[q], queue'[q] = queue[q], queried'[q] = queried[q],
           complete'[q] = complete[q], dropped'[q] = dropped[q]
    PROVE  /\ pc'[q] \notin Restoring => ~queried'[q]
           /\ pc'[q] \in Restoring /\ queried'[q] /\ complete'[q]
                => Stored \cap Of(pc'[q]) \subseteq history' \cup queue'[q] \cup dropped'[q]
           /\ pc'[q] \in Restoring \cup {"unlock", "mark"} /\ complete'[q]
                => Stored \cap Behind(pc'[q]) \subseteq history' \cup dropped'[q]
BY HistoryGrows DEF Believed, Unqueried, Fetched, CompleteIsTrue

LEMMA BelievedDecide ==
    ASSUME TypeOK, Believed, [Next]_vars, NEW p \in Procs, Decide(p)
    PROVE  Believed'
<1>1. UNCHANGED <<queue, queried, history, dropped>>
    BY DEF Decide, Start, CheckEmpty, CheckMarker, CheckPresent, TakeLock, redis, mine
<1>2. \A q \in Procs : q # p => pc'[q] = pc[q] /\ complete'[q] = complete[q]
    BY DEF TypeOK, Decide, Start, CheckEmpty, CheckMarker, CheckPresent, TakeLock, Goto, mine
<1>3. /\ pc[p] \notin Restoring
      /\ pc'[p] \in {"averages", "empty?", "marker?", "present?", "lock", "run"}
    BY DEF TypeOK, Decide, Start, CheckEmpty, CheckMarker, CheckPresent, TakeLock, Goto,
       Restoring
<1>4. ~queried'[p]
    BY <1>1, <1>3 DEF Believed, Unqueried
<1>5. pc'[p] \in Restoring \cup {"unlock", "mark"} => Behind(pc'[p]) = {}
    BY <1>3 DEF Restoring, Behind
<1>. QED
    BY <1>1, <1>2, <1>4, <1>5, OthersBelieve DEF Believed, Unqueried, Fetched, CompleteIsTrue

LEMMA BelievedQuery ==
    ASSUME TypeOK, Believed, [Next]_vars, NEW p \in Procs, Query(p)
    PROVE  Believed'
<1>1. PICK fails \in BOOLEAN, lost \in SUBSET Swallowed :
        /\ pc[p] \in Restoring
        /\ queue' = [queue EXCEPT ![p] = IF fails THEN {}
                                         ELSE (Stored \cap Of(pc[p])) \ lost]
        /\ complete' = [complete EXCEPT ![p] = Result(p, fails)]
        /\ dropped' = [dropped EXCEPT ![p] = @ \cup (Stored \cap lost)]
        /\ queried' = [queried EXCEPT ![p] = TRUE]
    BY DEF Query
<1>2. UNCHANGED <<history, pc>>
    BY DEF Query, redis
<1>3. /\ complete'[p] => complete[p] /\ queue'[p] = (Stored \cap Of(pc[p])) \ lost
      /\ dropped'[p] = dropped[p] \cup (Stored \cap lost)
    BY <1>1 DEF TypeOK, Result
<1>4. \A q \in Procs : q # p => /\ queue'[q] = queue[q] /\ complete'[q] = complete[q]
                                /\ queried'[q] = queried[q] /\ dropped'[q] = dropped[q]
    BY <1>1 DEF TypeOK
<1>. QED
    BY <1>1, <1>2, <1>3, <1>4, OthersBelieve DEF Believed, Unqueried, Fetched, CompleteIsTrue

LEMMA BelievedSave ==
    ASSUME TypeOK, Believed, [Next]_vars, NEW p \in Procs, SavePoint(p)
    PROVE  Believed'
<1>1. PICK d \in queue[p], fails \in BOOLEAN :
        /\ history' = IF fails THEN history ELSE history \cup {d}
        /\ queue' = [queue EXCEPT ![p] = @ \ {d}]
        /\ dropped' = [dropped EXCEPT ![p] = IF fails THEN @ \cup {d} ELSE @]
    BY DEF SavePoint
<1>2. UNCHANGED <<pc, complete, queried>>
    BY DEF SavePoint
<1>3. /\ history \cup queue[p] \cup dropped[p] \subseteq history' \cup queue'[p] \cup dropped'[p]
      /\ history \cup dropped[p] \subseteq history' \cup dropped'[p]
    BY <1>1 DEF TypeOK
<1>4. \A q \in Procs : q # p => queue'[q] = queue[q] /\ dropped'[q] = dropped[q]
    BY <1>1 DEF TypeOK
<1>. QED
    BY <1>1, <1>2, <1>3, <1>4, OthersBelieve DEF Believed, Unqueried, Fetched, CompleteIsTrue

\* A phase ends with everything it queried saved, which is what the next one
\* has behind it.
LEMMA BelievedNextPhase ==
    ASSUME TypeOK, Believed, [Next]_vars, NEW p \in Procs, NextPhase(p)
    PROVE  Believed'
<1>1. UNCHANGED <<history, queue, complete, dropped>>
    BY DEF NextPhase, redis
<1>2. pc[p] \in Restoring /\ queried[p] /\ queue[p] = {}
    BY DEF NextPhase, Drained
<1>3. complete[p] => Stored \cap (Behind(pc[p]) \cup Of(pc[p])) \subseteq history \cup dropped[p]
    BY <1>2 DEF Believed, Fetched, CompleteIsTrue
<1>4. /\ Behind(pc'[p]) \subseteq Behind(pc[p]) \cup Of(pc[p])
      /\ pc'[p] \in Phases
    <2>1. CASE pc[p] = "averages" /\ pc'[p] = "bms26"
        BY <2>1 DEF Behind, Phases, Restoring
    <2>2. CASE pc[p] = "bms26" /\ pc'[p] = "dts017m"
        BY <2>2 DEF Behind, Of, Phases, Restoring
    <2>3. CASE pc[p] = "dts017m" /\ pc'[p] = "unlock"
        BY <2>3 DEF Behind, Of, Phases, Devices
    <2>. QED
        BY <1>2, <2>1, <2>2, <2>3 DEF NextPhase, Goto, TypeOK, Restoring
<1>5. ~queried'[p]
    BY DEF NextPhase, TypeOK
<1>6. \A q \in Procs : q # p => pc'[q] = pc[q] /\ queried'[q] = queried[q]
    BY DEF NextPhase, Goto, TypeOK
<1>. QED
    BY <1>1, <1>3, <1>4, <1>5, <1>6, OthersBelieve
       DEF Believed, Unqueried, Fetched, CompleteIsTrue

LEMMA BelievedEnd ==
    ASSUME TypeOK, Believed, [Next]_vars, NEW p \in Procs,
           Unlock(p) \/ Mark(p) \/ SaveLive(p) \/ Quit(p) \/ Crash(p)
    PROVE  Believed'
<1>1. UNCHANGED <<history, complete>>
    BY DEF Unlock, Mark, SaveLive, Quit, Crash, redis, mine
<1>2. \A q \in Procs : q # p => /\ pc'[q] = pc[q] /\ queried'[q] = queried[q]
                                /\ queue'[q] = queue[q] /\ dropped'[q] = dropped[q]
    BY DEF Unlock, Mark, SaveLive, Quit, Crash, Goto, mine, TypeOK
<1>3. \/ pc[p] = "unlock" /\ pc'[p] = "mark"
      \/ pc'[p] \in {"run", "down"}
    BY DEF Unlock, Mark, SaveLive, Quit, Crash, Goto, TypeOK
<1>4. ~queried'[p]
    <2>1. CASE Crash(p)
        BY <2>1 DEF Crash, TypeOK
    <2>2. CASE ~Crash(p)
        <3>1. queried' = queried /\ pc[p] \notin Restoring
            BY <2>2 DEF Unlock, Mark, SaveLive, Quit, mine, Restoring
        <3>. QED
            BY <3>1 DEF Believed, Unqueried
    <2>. QED
        BY <2>1, <2>2
<1>5. pc'[p] \in Restoring \cup {"unlock", "mark"} /\ complete'[p]
        => Stored \cap Behind(pc'[p]) \subseteq history' \cup dropped'[p]
    <2>1. CASE pc[p] = "unlock" /\ pc'[p] = "mark"
        <3>1. dropped' = dropped
            BY <2>1 DEF Unlock, Mark, SaveLive, Quit, Crash, Goto, TypeOK, mine
        <3>. QED
            BY <1>1, <2>1, <3>1 DEF Believed, CompleteIsTrue, Behind, Restoring
    <2>2. CASE pc'[p] \in {"run", "down"}
        BY <2>2 DEF Restoring
    <2>. QED
        BY <1>3, <2>1, <2>2
<1>. QED
    BY <1>1, <1>2, <1>4, <1>5, OthersBelieve DEF Believed, Unqueried, Fetched, CompleteIsTrue

LEMMA BelievedStep == TypeOK /\ Believed /\ [Next]_vars => Believed'
<1>. SUFFICES ASSUME TypeOK, Believed, [Next]_vars PROVE Believed'
    OBVIOUS
<1>1. ASSUME NEW p \in Procs, Decide(p) PROVE Believed'
    BY <1>1, BelievedDecide
<1>2. ASSUME NEW p \in Procs, Restored(p) PROVE Believed'
    BY <1>2, BelievedQuery, BelievedSave, BelievedNextPhase, BelievedEnd DEF Restored
<1>3. ASSUME NEW p \in Procs, SaveLive(p) \/ Quit(p) \/ Crash(p) PROVE Believed'
    BY <1>3, BelievedEnd
<1>4. CASE Expire \/ UNCHANGED vars
    <2>1. UNCHANGED <<history, pc, queue, queried, complete, dropped>>
        BY <1>4 DEF Expire, vars
    <2>. QED
        BY <2>1 DEF Believed, Unqueried, Fetched, CompleteIsTrue
<1>. QED
    BY <1>1, <1>2, <1>3, <1>4 DEF Next

LEMMA BelievedCorrect == Spec => [](TypeOK /\ Believed)
    BY TypeInit, TypeStep, BelievedInit, BelievedStep, PTL DEF Spec

\* A restoration that calls itself complete has put back everything its phases
\* have passed, however many others crashed or failed meanwhile, except what
\* the failures it does not count cost itself; and two never restore at once.
THEOREM RestorationHoldsCorrect == Spec => []RestorationHolds
<1>1. TypeOK /\ Believed => CompleteIsTrue
    BY DEF Believed
<1>. QED
    BY <1>1, BelievedCorrect, OneRestorerCorrect, PTL DEF RestorationHolds

\* Whoever removes the marker of an incomplete restoration leaves a Redis with
\* everything PostgreSQL stores, except what its uncounted failures cost it.
THEOREM MarkerRemovedWhenWholeCorrect == Spec => MarkerRemovedWhenWhole
<1>. DEFINE Whole == \E p \in Procs : pc[p] = "mark" /\ Stored \subseteq history \cup dropped[p]
<1>1. TypeOK /\ Believed /\ [Next]_vars => [marker /\ ~marker' => Whole]_vars
    <2>. SUFFICES ASSUME TypeOK, Believed, [Next]_vars, marker, ~marker'
                  PROVE  Whole
        OBVIOUS
    <2>1. PICK p \in Procs : Mark(p)
        <3>1. ~UNCHANGED marker
            OBVIOUS
        <3>. QED
            BY <3>1 DEF Next, vars, Decide, Start, CheckEmpty, CheckMarker, CheckPresent,
               TakeLock, Restored, Query, SavePoint, NextPhase, Unlock, SaveLive, Quit,
               Crash, Expire, redis
    <2>2. pc[p] = "mark" /\ complete[p]
        BY <2>1 DEF Mark
    <2>3. Stored \cap Devices \subseteq history \cup dropped[p]
        BY <2>2 DEF Believed, CompleteIsTrue, Behind
    <2>. QED
        BY <2>2, <2>3, RestoreAssumption
<1>. QED
    BY <1>1, BelievedCorrect, PTL DEF Spec, MarkerRemovedWhenWhole

-----------------------------------------------------------------------------
(* Numbers: division, rounding.                                            *)

\* Division and its remainder.
LEMMA DivBounds ==
    ASSUME NEW a \in Nat, NEW b \in Nat \ {0}
    PROVE  /\ a \div b \in Nat
           /\ b * (a \div b) <= a
           /\ a < b * (a \div b) + b
BY SMT

LEMMA DivIs ==
    ASSUME NEW q \in Nat, NEW r \in Nat, NEW b \in Nat \ {0}, r < b
    PROVE  (b * q + r) \div b = q /\ (b * q + r) % b = r
BY SMT

LEMMA ModZero ==
    ASSUME NEW a \in Nat, NEW b \in Nat \ {0}
    PROVE  a % b \in Nat /\ a = b * (a \div b) + (a % b)
BY SMT

\* Multiplication keeps the order.
LEMMA MulMono ==
    ASSUME NEW a \in Nat, NEW b \in Nat, NEW n \in Nat, a <= b
    PROVE  a * n <= b * n /\ a * n \in Nat
BY SMT

\* Division keeps the order, also of fractions brought to one denominator.
LEMMA DivMono ==
    ASSUME NEW a \in Nat, NEW b \in Nat \ {0}, NEW c \in Nat, NEW n \in Nat \ {0}
    PROVE  /\ a * n <= c => a \div b <= c \div (b * n)
           /\ c <= a * n => c \div (b * n) <= a \div b
<1>. DEFINE q == a \div b
            d == b * n
            w == c \div d
<1>0. d \in Nat \ {0}
    OBVIOUS
<1>. HIDE DEF d
<1>1. q \in Nat /\ b * q <= a /\ a < b * q + b
    BY DivBounds
<1>2. w \in Nat /\ d * w <= c /\ c < d * w + d
    BY <1>0, DivBounds
<1>. HIDE DEF q, w
<1>3. /\ (b * q) * n = d * q /\ (b * q + b) * n = d * q + d
      /\ d * q \in Nat /\ d * w \in Nat
    BY <1>0, <1>1, <1>2 DEF d
<1>4. ASSUME a * n <= c, w + 1 <= q PROVE FALSE
    <2>1. (b * q) * n <= a * n /\ a * n \in Nat
        BY <1>1, MulMono
    <2>2. (w + 1) * d <= q * d
        BY <1>0, <1>1, <1>2, <1>4, MulMono
    <2>3. (w + 1) * d = d * w + d /\ q * d = d * q
        BY <1>0, <1>1, <1>2
    <2>4. d * w + d <= d * q
        BY <2>2, <2>3
    <2>5. d * q <= c
        BY <1>3, <1>4, <2>1
    <2>. QED
        BY <1>0, <1>2, <1>3, <2>4, <2>5
<1>5. ASSUME c <= a * n, q + 1 <= w PROVE FALSE
    <2>1. a + 1 <= b * q + b
        BY <1>1
    <2>2. (a + 1) * n <= (b * q + b) * n
        BY <1>1, <2>1, MulMono
    <2>3. (a + 1) * n = a * n + n /\ a * n \in Nat
        OBVIOUS
    <2>4. (q + 1) * d <= w * d
        BY <1>0, <1>1, <1>2, <1>5, MulMono
    <2>5. (q + 1) * d = d * q + d /\ w * d = d * w
        BY <1>0, <1>1, <1>2
    <2>6. d * q + d <= d * w
        BY <2>4, <2>5
    <2>7. a * n + n <= d * q + d
        BY <1>3, <2>2, <2>3
    <2>. QED
        BY <1>0, <1>2, <1>3, <1>5, <2>3, <2>6, <2>7
<1>6. a * n <= c => q <= w
    BY <1>1, <1>2, <1>4
<1>7. c <= a * n => w <= q
    BY <1>1, <1>2, <1>5
<1>. QED
    BY <1>6, <1>7 DEF q, w, d

\* Rounding keeps the order: a rounded mean lies between the rounded values.
LEMMA RoundMono ==
    ASSUME NEW sum \in Nat, NEW n \in Nat \ {0}, NEW unit \in Nat \ {0},
           NEW lo \in Nat, NEW hi \in Nat, lo * n <= sum, sum <= hi * n
    PROVE  /\ R!RoundTo(lo, 1, unit) <= R!RoundTo(sum, n, unit)
           /\ R!RoundTo(sum, n, unit) <= R!RoundTo(hi, 1, unit)
<1>. DEFINE b == 2 * unit
            c == 2 * sum + n * unit
            l == 2 * lo + unit
            h == 2 * hi + unit
<1>1. /\ b \in Nat \ {0} /\ c \in Nat /\ l \in Nat /\ h \in Nat
      /\ l = 2 * lo + 1 * unit /\ h = 2 * hi + 1 * unit /\ b = 2 * 1 * unit
    OBVIOUS
<1>2. l * n <= c /\ c <= h * n /\ b * n = 2 * n * unit
    <2>1. l * n = 2 * (lo * n) + n * unit /\ h * n = 2 * (hi * n) + n * unit
        OBVIOUS
    <2>2. lo * n \in Nat /\ hi * n \in Nat /\ n * unit \in Nat
        OBVIOUS
    <2>. QED
        BY <2>1, <2>2
<1>. HIDE DEF b, c, l, h
<1>3. l \div b <= c \div (b * n) /\ c \div (b * n) <= h \div b
    BY <1>1, <1>2, DivMono
<1>4. l \div b \in Nat /\ h \div b \in Nat
    BY <1>1, DivBounds
<1>5. b * n \in Nat \ {0}
    BY <1>1
<1>6. c \div (b * n) \in Nat
    BY <1>1, <1>5, DivBounds
<1>. DEFINE x == l \div b
            y == c \div (b * n)
            z == h \div b
<1>. HIDE DEF x, y, z
<1>7. x * unit <= y * unit /\ y * unit <= z * unit
    BY <1>3, <1>4, <1>6, MulMono DEF x, y, z
<1>8. /\ R!RoundTo(lo, 1, unit) = x * unit /\ R!RoundTo(hi, 1, unit) = z * unit
      /\ R!RoundTo(sum, n, unit) = y * unit
    BY <1>1, <1>2 DEF R!RoundTo, x, y, z, c, l, h
<1>. QED
    BY <1>7, <1>8

\* What is rounded already stays what it is.
LEMMA RoundAgain ==
    ASSUME NEW v \in Nat, NEW unit \in Nat \ {0}, v % unit = 0
    PROVE  R!RoundTo(v, 1, unit) = v
<1>1. v \div unit \in Nat /\ v = unit * (v \div unit)
    BY ModZero, DivBounds
<1>. DEFINE q == v \div unit
<1>. HIDE DEF q
<1>2. 2 * v + 1 * unit = (2 * 1 * unit) * q + unit /\ 2 * 1 * unit \in Nat \ {0} /\ unit < 2 * 1 * unit
    BY <1>1 DEF q
<1>3. (2 * v + 1 * unit) \div (2 * 1 * unit) = q
    <2>. DEFINE b == 2 * 1 * unit
    <2>1. b \in Nat \ {0} /\ unit < b /\ 2 * v + 1 * unit = b * q + unit /\ q \in Nat
        BY <1>1, <1>2 DEF q
    <2>. HIDE DEF b
    <2>2. (b * q + unit) \div b = q
        BY <2>1, DivIs
    <2>. QED
        BY <2>1, <2>2 DEF b
<1>. QED
    BY <1>1, <1>3 DEF R!RoundTo, q

\* What is rounded is a multiple of the unit.
LEMMA RoundMultiple ==
    ASSUME NEW sum \in Nat, NEW n \in Nat \ {0}, NEW unit \in Nat \ {0}
    PROVE  R!RoundTo(sum, n, unit) \in Nat /\ R!RoundTo(sum, n, unit) % unit = 0
<1>. DEFINE q == (2 * sum + n * unit) \div (2 * n * unit)
<1>1. 2 * n * unit \in Nat \ {0} /\ 2 * sum + n * unit \in Nat
    OBVIOUS
<1>2. q \in Nat
    BY <1>1, DivBounds
<1>. HIDE DEF q
<1>3. q * unit = unit * q + 0 /\ q * unit \in Nat
    BY <1>2
<1>4. (unit * q + 0) % unit = 0
    BY <1>2, DivIs
<1>. QED
    BY <1>3, <1>4 DEF R!RoundTo, q

-----------------------------------------------------------------------------
(* Sums.  The fold over a set is defined by a recursion; that there is a   *)
(* function as the recursion wants it, and what its values are, follows    *)
(* for every finite set from a least counterexample.                       *)

\* A set of numbers that is not empty has a least one.
LEMMA LeastExists ==
    ASSUME NEW S \in SUBSET Nat, S # {}
    PROVE  \E x \in S : \A y \in S : x <= y
<1>. DEFINE R0 == OpToRel(<, Nat)
<1>1. \A x, y \in Nat : <<y, x>> \in R0 <=> y < x
    BY DEF OpToRel
<1>2. IsWellFoundedOn(R0, Nat)
    BY NatLessThanWellFounded
<1>. HIDE DEF R0
<1>3. PICK x \in S : \A y \in S : ~(<<y, x>> \in R0)
    BY <1>2, WFMin
<1>4. \A y \in S : x <= y
    <2>1. \A y \in S : ~(y < x)
        BY <1>1, <1>3, Zenon
    <2>. QED
        BY <2>1
<1>. QED
    BY <1>4

\* What is taken out of a set first.
First(s) == CHOOSE x \in s : TRUE

\* g sums every subset of S as the fold does, one point after the other.
IsFold(g, r, tag, S) ==
    g = [s \in SUBSET S |->
            IF s = {} THEN 0 ELSE r[First(s)[1]][First(s)[2]][tag] + g[s \ {First(s)}]]

\* The fold is defined: there is a function as its recursion wants it.
LEMMA FoldExists ==
    ASSUME NEW r, NEW tag, NEW S, IsFiniteSet(S)
    PROVE  \E g : IsFold(g, r, tag, S)
<1>. DEFINE D(n) == {s \in SUBSET S : Cardinality(s) <= n}
            w(s) == r[First(s)[1]][First(s)[2]][tag]
            Is(g, n) == g = [s \in D(n) |-> IF s = {} THEN 0 ELSE w(s) + g[s \ {First(s)}]]
            Bad == {n \in Nat : ~\E g : Is(g, n)}
<1>1. \A s \in SUBSET S : IsFiniteSet(s) /\ Cardinality(s) \in Nat
    BY FS_Subset, FS_CardinalityType
<1>2. \A s \in SUBSET S : s # {} => First(s) \in s
    BY DEF First
<1>3. \A s \in SUBSET S : s # {} =>
         s \ {First(s)} \in SUBSET S /\ Cardinality(s \ {First(s)}) = Cardinality(s) - 1
    BY <1>1, <1>2, FS_RemoveElement
<1>4. \A s \in SUBSET S : Cardinality(s) = 0 <=> s = {}
    BY <1>1, FS_EmptySet
<1>. HIDE DEF w
<1>5. \E g : Is(g, 0)
    <2>. DEFINE g == [s \in D(0) |-> 0]
    <2>1. \A s \in D(0) : s = {}
        BY <1>1, <1>4
    <2>2. Is(g, 0)
        BY <2>1
    <2>. QED
        BY <2>2
<1>6. ASSUME NEW n \in Nat, n > 0, \E g : Is(g, n - 1)
      PROVE  \E g : Is(g, n)
    <2>1. PICK h : Is(h, n - 1)
        BY <1>6
    <2>. DEFINE g == [s \in D(n) |-> IF s = {} THEN 0 ELSE w(s) + h[s \ {First(s)}]]
    <2>2. D(n - 1) \subseteq D(n)
        BY <1>1
    <2>3. \A s \in D(n - 1) : g[s] = h[s]
        BY <2>1, <2>2
    <2>4. \A s \in D(n) : s # {} => s \ {First(s)} \in D(n - 1)
        BY <1>1, <1>3
    <2>5. Is(g, n)
        BY <2>3, <2>4
    <2>. QED
        BY <2>5
<1>7. Bad = {}
    <2>. HIDE DEF Is
    <2>1. SUFFICES ASSUME Bad # {} PROVE FALSE
        OBVIOUS
    <2>2. PICK m \in Bad : \A y \in Bad : m <= y
        BY <2>1, LeastExists
    <2>3. m \in Nat /\ m # 0
        BY <1>5
    <2>4. m - 1 \in Nat /\ m - 1 \notin Bad
        BY <2>2, <2>3
    <2>. QED
        BY <1>6, <2>3, <2>4
<1>8. \E g : Is(g, Cardinality(S))
    <2>. HIDE DEF Is
    <2>. QED
        BY <1>1, <1>7
<1>9. D(Cardinality(S)) = SUBSET S
    BY <1>1, FS_Subset
<1>. QED
    BY <1>8, <1>9 DEF w, IsFold

\* A sum is what the recursion of the fold says.
LEMMA SumIs ==
    ASSUME NEW tag, NEW S, IsFiniteSet(S)
    PROVE  \E g : IsFold(g, points, tag, S) /\ R!SumOf(S, tag) = g[S]
<1>. DEFINE F == CHOOSE g : IsFold(g, points, tag, S)
<1>1. IsFold(F, points, tag, S)
    BY FoldExists
<1>2. R!SumOf(S, tag) = F[S]
    BY DEF R!SumOf, R!MapThenSumSet, R!MapThenFoldSet, First, IsFold
<1>. QED
    BY <1>1, <1>2

\* What the points of a set sum up to, as g has it, lies between as many times
\* the least and the greatest.
Between(g, r, tag, s) ==
    /\ g[s] \in Nat
    /\ \E p, q \in s : /\ r[p[1]][p[2]][tag] * Cardinality(s) <= g[s]
                       /\ g[s] <= r[q[1]][q[2]][tag] * Cardinality(s)

LEMMA SumBounds ==
    ASSUME NEW tag, NEW S, IsFiniteSet(S), S # {},
           \A p \in S : points[p[1]][p[2]][tag] \in Nat
    PROVE  /\ R!SumOf(S, tag) \in Nat
           /\ \E p, q \in S : /\ points[p[1]][p[2]][tag] * Cardinality(S) <= R!SumOf(S, tag)
                              /\ R!SumOf(S, tag) <= points[q[1]][q[2]][tag] * Cardinality(S)
<1>. DEFINE w(p) == points[p[1]][p[2]][tag]
<1>1. PICK g : IsFold(g, points, tag, S) /\ R!SumOf(S, tag) = g[S]
    BY SumIs
<1>2. g[{}] = 0
    BY <1>1 DEF IsFold
<1>3. \A s \in SUBSET S : s # {} => First(s) \in s /\ g[s] = w(First(s)) + g[s \ {First(s)}]
    BY <1>1 DEF IsFold, First
<1>4. \A s \in SUBSET S : IsFiniteSet(s) /\ Cardinality(s) \in Nat
    BY FS_Subset, FS_CardinalityType
<1>5. \A s \in SUBSET S : s # {} => Cardinality(s) # 0
    BY <1>4, FS_EmptySet
<1>6. \A s \in SUBSET S : s # {} => Cardinality(s \ {First(s)}) = Cardinality(s) - 1
    BY <1>3, <1>4, FS_RemoveElement
<1>7. ASSUME NEW s \in SUBSET S, s # {},
             s \ {First(s)} # {} => Between(g, points, tag, s \ {First(s)})
      PROVE  Between(g, points, tag, s)
    <2>. DEFINE x == First(s)
                rest == s \ {x}
                n == Cardinality(s)
    <2>1. x \in s /\ g[s] = w(x) + g[rest] /\ w(x) \in Nat
        BY <1>3, <1>7
    <2>2. n \in Nat /\ n > 0 /\ Cardinality(rest) = n - 1
        BY <1>4, <1>5, <1>6, <1>7
    <2>3. CASE rest = {}
        <3>1. n = 1
            BY <1>4, <2>2, <2>3, FS_EmptySet
        <3>2. g[rest] = 0
            BY <1>2, <2>3
        <3>. HIDE DEF w, x, n, rest
        <3>3. g[s] = w(x) /\ w(x) * n = w(x)
            BY <2>1, <3>1, <3>2
        <3>4. g[s] \in Nat /\ w(x) * n <= g[s] /\ g[s] <= w(x) * n
            BY <2>1, <3>3
        <3>. QED
            BY <2>1, <3>4 DEF Between, w, n
    <2>4. CASE rest # {}
        <3>1. PICK a \in rest, b \in rest : /\ g[rest] \in Nat
                                            /\ w(a) * (n - 1) <= g[rest]
                                            /\ g[rest] <= w(b) * (n - 1)
            BY <1>7, <2>2, <2>4 DEF Between
        <3>2. a \in s /\ b \in s /\ w(a) \in Nat /\ w(b) \in Nat
            OBVIOUS
        <3>. HIDE DEF w, x, n, rest
        <3>3. g[s] \in Nat
            BY <2>1, <3>1
        <3>4. \E p \in s : w(p) * n <= g[s]
            <4>1. CASE w(a) <= w(x)
                <5>1. w(a) * n = w(a) * (n - 1) + w(a)
                    BY <2>2, <3>2
                <5>2. w(a) * n <= g[s]
                    BY <2>1, <2>2, <3>1, <3>2, <4>1, <5>1
                <5>. QED
                    BY <3>2, <5>2
            <4>2. CASE w(x) <= w(a)
                <5>1. w(x) * n = w(x) * (n - 1) + w(x) /\ w(x) * (n - 1) <= w(a) * (n - 1)
                    BY <2>1, <2>2, <3>2, <4>2, MulMono
                <5>2. w(x) * n <= g[s]
                    BY <2>1, <2>2, <3>1, <3>2, <4>2, <5>1
                <5>. QED
                    BY <2>1, <5>2
            <4>. QED
                BY <2>1, <3>2, <4>1, <4>2
        <3>5. \E p \in s : g[s] <= w(p) * n
            <4>1. CASE w(x) <= w(b)
                <5>1. w(b) * n = w(b) * (n - 1) + w(b)
                    BY <2>2, <3>2
                <5>2. g[s] <= w(b) * n
                    BY <2>1, <2>2, <3>1, <3>2, <4>1, <5>1
                <5>. QED
                    BY <3>2, <5>2
            <4>2. CASE w(b) <= w(x)
                <5>1. w(x) * n = w(x) * (n - 1) + w(x) /\ w(b) * (n - 1) <= w(x) * (n - 1)
                    BY <2>1, <2>2, <3>2, <4>2, MulMono
                <5>2. g[s] <= w(x) * n
                    BY <2>1, <2>2, <3>1, <3>2, <4>2, <5>1
                <5>. QED
                    BY <2>1, <5>2
            <4>. QED
                BY <2>1, <3>2, <4>1, <4>2
        <3>. QED
            BY <3>3, <3>4, <3>5 DEF Between, w, n
    <2>. QED
        BY <2>3, <2>4
<1>8. \A s \in SUBSET S : s # {} => Between(g, points, tag, s)
    <2>. DEFINE Bad == {n \in Nat : \E s \in SUBSET S :
                           s # {} /\ Cardinality(s) = n /\ ~Between(g, points, tag, s)}
    <2>1. SUFFICES ASSUME Bad # {} PROVE FALSE
        BY <1>4
    <2>2. PICK n \in Bad : \A m \in Bad : n <= m
        BY <2>1, LeastExists
    <2>3. PICK s \in SUBSET S : s # {} /\ Cardinality(s) = n /\ ~Between(g, points, tag, s)
        OBVIOUS
    <2>4. s \ {First(s)} # {} /\ ~Between(g, points, tag, s \ {First(s)})
        BY <1>7, <2>3
    <2>5. n - 1 \in Bad
        BY <1>4, <1>5, <1>6, <2>3, <2>4
    <2>. QED
        BY <2>2, <2>5
<1>. QED
    BY <1>1, <1>8 DEF Between

-----------------------------------------------------------------------------
(* Buckets and the points in them.                                         *)

\* The constants of the tables.
LEMMA Constants ==
    /\ Load \in [Appliances -> [R!Time -> Nat]] /\ Count \in [Appliances -> [R!Time -> Nat]]
    /\ Rounds \subseteq SUBSET Appliances /\ None \notin Int /\ "" \notin Brands
BY HistoryAssumption DEF R!AverageRowsAssumption

\* The numbers among them.
LEMMA Numbers ==
    /\ Step \in Nat /\ Step > 0 /\ Last \in Nat /\ MaxGaps \in Nat /\ MaxStarts \in Nat
    /\ (Last + 1) * Step \in Nat
<1>1. Step \in Nat \ {0} /\ Last \in Nat /\ MaxGaps \in Nat /\ MaxStarts \in Nat
    BY HistoryAssumption DEF R!AverageRowsAssumption
<1>2. (Last + 1) * Step \in Nat
    BY <1>1
<1>. QED
    BY <1>1, <1>2

\* The moments, and what is measured at them.
LEMMA Times ==
    /\ R!Time \subseteq Nat /\ (Last + 1) * Step \in R!Time
    /\ \A d \in Appliances, t \in R!Time : Load[d][t] \in Nat /\ Count[d][t] \in Nat
<1>1. R!Time \subseteq Nat /\ (Last + 1) * Step \in R!Time
    BY Numbers DEF R!Time
<1>2. \A d \in Appliances, t \in R!Time : Load[d][t] \in Nat /\ Count[d][t] \in Nat
    BY Constants
<1>. QED
    BY <1>1, <1>2

\* The moments of a bucket.
LEMMA BucketBounds ==
    ASSUME NEW t \in R!Time
    PROVE  /\ R!BucketOf(t) \in Nat
           /\ R!BucketOf(t) * Step <= t /\ t < (R!BucketOf(t) + 1) * Step
<1>1. t \in Nat /\ Step \in Nat \ {0}
    BY Numbers, Times
<1>. DEFINE k == t \div Step
<1>2. k \in Nat /\ Step * k <= t /\ t < Step * k + Step
    BY <1>1, DivBounds
<1>. HIDE DEF k
<1>3. k * Step = Step * k /\ (k + 1) * Step = Step * k + Step
    BY <1>1, <1>2
<1>. QED
    BY <1>2, <1>3 DEF R!BucketOf, k

\* Its first one is the only one at which a row is put back.
LEMMA BucketStart ==
    ASSUME NEW k \in R!Buckets
    PROVE  /\ k * Step \in R!BucketTimes(k) /\ (k * Step) % Step = 0
           /\ \A t \in R!BucketTimes(k) : t % Step = 0 => t = k * Step
<1>1. k \in Nat /\ k <= Last /\ Last \in Nat /\ Step \in Nat \ {0}
    BY Numbers DEF R!Buckets
<1>2. (Step * k + 0) \div Step = k /\ (Step * k + 0) % Step = 0
    BY <1>1, DivIs
<1>3. k * Step = Step * k + 0 /\ k * Step \in Nat
    BY <1>1
<1>4. k * Step <= (Last + 1) * Step /\ (Last + 1) * Step \in Nat
    BY <1>1, MulMono
<1>5. k * Step \in R!BucketTimes(k)
    BY <1>2, <1>3, <1>4 DEF R!BucketTimes, R!Time, R!BucketOf
<1>6. ASSUME NEW t \in R!BucketTimes(k), t % Step = 0 PROVE t = k * Step
    <2>1. t \in Nat /\ t \div Step = k
        BY Times DEF R!BucketTimes, R!BucketOf
    <2>2. t = Step * (t \div Step) + (t % Step)
        BY <1>1, <2>1, ModZero
    <2>. QED
        BY <1>1, <1>3, <1>6, <2>1, <2>2
<1>. QED
    BY <1>2, <1>3, <1>5, <1>6

\* A bucket that is over does not have the moment that is now.
LEMMA OverBefore ==
    ASSUME NEW k \in R!Buckets, now \in R!Time, R!Finished(k)
    PROVE  R!BucketOf(now) # k /\ \A t \in R!BucketTimes(k) : t < now
<1>1. k \in Nat /\ Step \in Nat \ {0} /\ (k + 1) * Step <= now /\ now \in Nat
    BY Numbers, Times DEF R!Buckets, R!Finished
<1>2. ASSUME NEW t \in R!Time, R!BucketOf(t) = k PROVE t < now
    <2>1. t < (k + 1) * Step /\ t \in Nat /\ (k + 1) * Step \in Nat
        BY <1>1, <1>2, BucketBounds, Times
    <2>. QED
        BY <1>1, <2>1
<1>. QED
    BY <1>1, <1>2 DEF R!BucketTimes

\* A row is averaged from the points of its own device.
LEMMA GroupIsOwn ==
    ASSUME NEW d \in Appliances, NEW times \in SUBSET R!Time
    PROVE  /\ \A p \in R!Group(d, times) : /\ p = <<d, p[2]>> /\ p[2] \in times
                                           /\ points[d][p[2]] # R!Empty
           /\ \A t \in times : points[d][t] # R!Empty => <<d, t>> \in R!Group(d, times)
<1>1. ASSUME NEW e \in Appliances, R!GroupKey(e) = R!GroupKey(d) PROVE e = d
    <2>1. "" \notin Brands
        BY Constants
    <2>2. /\ d.key = e.key /\ (d.kind \in Brands <=> e.kind \in Brands)
          /\ d.kind \in Brands => d.kind = e.kind
        BY <1>1, <2>1 DEF R!GroupKey
    <2>. QED
        BY <2>2, HistoryAssumption DEF R!AverageRowsAssumption
<1>. QED
    BY <1>1 DEF R!Group

\* There are finitely many.
LEMMA GroupFinite ==
    ASSUME NEW d \in Appliances, NEW times \in SUBSET R!Time
    PROVE  IsFiniteSet(R!Group(d, times)) /\ \A tag : IsFiniteSet(R!Having(R!Group(d, times), tag))
<1>1. IsFiniteSet(R!Time)
    <2>1. 0 \in Int /\ (Last + 1) * Step \in Int
        BY Numbers
    <2>. QED
        BY <2>1, FS_Interval DEF R!Time
<1>2. IsFiniteSet({d} \X R!Time)
    BY <1>1, FS_Product, FS_Singleton
<1>3. R!Group(d, times) \subseteq {d} \X R!Time
    BY GroupIsOwn
<1>. QED
    BY <1>2, <1>3, FS_Subset DEF R!Having

\* What a bucket is averaged from: all of its moments (a backfill), or those
\* before its last second (the loop); the moment a row is put back at is one.
LEMMA TimesOf ==
    ASSUME NEW k \in R!Buckets, NEW times \in {R!Window(k), R!BucketTimes(k)}
    PROVE  times \subseteq R!BucketTimes(k) /\ times \in SUBSET R!Time /\ k * Step \in times
<1>1. \A t \in LastSecond : t % Step # 0
    BY HistoryAssumption DEF R!AverageRowsAssumption
<1>2. k * Step \in R!BucketTimes(k) /\ (k * Step) % Step = 0
    BY BucketStart
<1>. QED
    BY <1>1, <1>2 DEF R!Window, R!BucketTimes

\* The buckets follow the clock.
LEMMA BucketLater ==
    ASSUME NEW t \in R!Time, NEW u \in R!Time, t <= u
    PROVE  R!BucketOf(t) <= R!BucketOf(u)
<1>. DEFINE j == R!BucketOf(t)
            k == R!BucketOf(u)
<1>1. /\ j \in Nat /\ k \in Nat /\ Step \in Nat /\ t \in Nat /\ u \in Nat
      /\ j * Step <= t /\ u < (k + 1) * Step
    BY BucketBounds, Numbers, Times
<1>. HIDE DEF j, k
<1>2. SUFFICES ASSUME k + 1 <= j PROVE FALSE
    BY <1>1 DEF j, k
<1>3. (k + 1) * Step <= j * Step /\ (k + 1) * Step \in Nat /\ j * Step \in Nat
    BY <1>1, <1>2, MulMono
<1>. QED
    BY <1>1, <1>3

\* A bucket that is over is one up to now.
LEMMA OverIsPast ==
    ASSUME NEW k \in R!Buckets, now \in R!Time, R!Finished(k)
    PROVE  k <= R!BucketOf(now)
<1>1. k * Step \in R!BucketTimes(k)
    BY BucketStart
<1>2. k * Step < now
    BY <1>1, OverBefore
<1>3. k * Step \in R!Time /\ R!BucketOf(k * Step) = k
    BY <1>1 DEF R!BucketTimes
<1>4. k * Step <= now
    <2>. DEFINE start == k * Step
    <2>1. start \in Nat /\ now \in Nat
        BY <1>3, Times
    <2>. HIDE DEF start
    <2>. QED
        BY <1>2, <2>1 DEF start
<1>. QED
    BY <1>3, <1>4, BucketLater

-----------------------------------------------------------------------------
(* Averages.                                                               *)

\* The tables count as everybody does.
LEMMA CardinalityIs == \A S : R!Cardinality(S) = Cardinality(S)
BY DEF R!Cardinality, Cardinality

\* What becomes of the two kinds of tags.
Mean(d, ps, tag) ==
    R!RoundTo(R!SumOf(R!Having(ps, tag), tag), Cardinality(R!Having(ps, tag)), R!Unit(d, tag))

Reading(d, ps, tag) ==
    R!RoundTo(points[R!Newest(R!Having(ps, tag))[1]][R!Newest(R!Having(ps, tag))[2]][tag],
              1, R!Unit(d, tag))

LEMMA AverageOf ==
    ASSUME NEW d, NEW ps
    PROVE  /\ R!Average(d, ps) = [tag \in R!Tags |-> R!Average(d, ps)[tag]]
           /\ R!Average(d, ps)["power"] =
                 IF R!Having(ps, "power") = {} THEN None ELSE Mean(d, ps, "power")
           /\ R!Average(d, ps)["energy"] =
                 IF R!Having(ps, "energy") = {} THEN None ELSE Reading(d, ps, "energy")
<1>1. R!Average(d, ps) = [tag \in R!Tags |-> IF R!Having(ps, tag) = {} THEN None
                                             ELSE IF tag = "energy" THEN Reading(d, ps, tag)
                                             ELSE Mean(d, ps, tag)]
    BY CardinalityIs DEF R!Average, Mean, Reading
<1>. QED
    BY <1>1 DEF R!Tags

\* A power that lies, to the digit rows keep, between two that the device had.
Plausible(d, k, v) ==
    /\ v \in Nat
    /\ \E s, t \in R!Sources(d, k) :
          /\ R!RoundTo(Load[d][s], 1, R!Unit(d, "power")) <= R!RoundTo(v, 1, R!Unit(d, "power"))
          /\ R!RoundTo(v, 1, R!Unit(d, "power")) <= R!RoundTo(Load[d][t], 1, R!Unit(d, "power"))

\* What a value in a row of a device and bucket must be: rounded, and plausible
\* or a reading of no other device and bucket.
TrueFor(d, k, tag, v) ==
    /\ v \in Nat /\ v % R!Unit(d, tag) = 0
    /\ tag = "power" => Plausible(d, k, v)
    /\ tag = "energy" => \E t \in R!BucketTimes(k) : v = R!RoundTo(Count[d][t], 1, R!Unit(d, "energy"))

RowTrue(row, d, k) ==
    /\ row \in [R!Tags -> Nat \cup {None}]
    /\ \A tag \in R!Tags : row[tag] # None => TrueFor(d, k, tag, row[tag])

\* A point that was measured, and completed if it is the MAP's.
Raw(point, d, t) ==
    /\ point \in [R!Tags -> Nat \cup {None}]
    /\ point["power"] # None => Plausible(d, R!BucketOf(t), point["power"])
    /\ point["energy"] \in {None, Count[d][t]}

\* A point that was put back from a row.
PutBack(point, d, k) ==
    /\ RowTrue(point, d, k)
    /\ \A tag \in R!Tags : point[tag] = rows[d][k][tag] \/ R!Missing(d, rows[d][k], tag)

\* The points of a bucket of a device: measured, or its row put back.
PointsTrue(d, k) ==
    \A t \in R!BucketTimes(k) :
        IF <<d, k>> \in restored
        THEN IF t % Step = 0 THEN PutBack(points[d][t], d, k) ELSE points[d][t] = R!Empty
        ELSE Raw(points[d][t], d, t)

\* What the MAP's next snapshot may be completed from.
WindowTrue ==
    \A d \in Appliances :
        d.kind \in Merged /\ window[d]["power"] # None
            => Plausible(d, R!BucketOf(now), window[d]["power"])

\* What was plausible of the MAP stays so in a later bucket.
LEMMA PlausibleLater ==
    ASSUME NEW d \in Appliances, NEW j \in Nat, NEW k \in Nat, j <= k, d.kind \in Merged,
           NEW v, Plausible(d, j, v)
    PROVE  Plausible(d, k, v)
<1>1. \A t \in R!Time : R!BucketOf(t) \in Nat
    BY BucketBounds
<1>2. R!Sources(d, j) \subseteq R!Sources(d, k)
    BY <1>1 DEF R!Sources
<1>. QED
    BY <1>2 DEF Plausible

\* The newest of the points of a device is one of them.
LEMMA NewestIsOne ==
    ASSUME NEW d, NEW S, S # {}, \A p \in S : p[2] \in R!Time
    PROVE  R!Newest(S) \in S
<1>. DEFINE end == (Last + 1) * Step
            Left == {end - p[2] : p \in S}
<1>1. \A p \in S : p[2] \in Nat /\ p[2] <= end /\ end \in Nat
    BY Numbers DEF R!Time
<1>. HIDE DEF end
<1>2. Left \in SUBSET Nat /\ Left # {}
    BY <1>1
<1>3. PICK x \in Left : \A y \in Left : x <= y
    BY <1>2, LeastExists
<1>4. PICK p \in S : x = end - p[2]
    OBVIOUS
<1>5. \A q \in S : q[2] <= p[2]
    <2>. TAKE q \in S
    <2>1. end - p[2] <= end - q[2]
        BY <1>3, <1>4
    <2>. QED
        BY <1>1, <2>1
<1>. QED
    BY <1>5 DEF R!Newest

\* A unit is one or ten.
LEMMA Units == \A d, tag : R!Unit(d, tag) \in Nat \ {0}
BY DEF R!Unit

\* The average of measured points.
LEMMA AverageTrue ==
    ASSUME NEW d \in Appliances, NEW k \in R!Buckets, NEW times \in SUBSET R!BucketTimes(k),
           \A t \in R!BucketTimes(k) : Raw(points[d][t], d, t)
    PROVE  RowTrue(R!Average(d, R!Group(d, times)), d, k)
<1>. DEFINE ps == R!Group(d, times)
            H(tag) == R!Having(ps, tag)
<1>0. times \in SUBSET R!Time
    BY DEF R!BucketTimes
<1>1. \A tag : IsFiniteSet(H(tag))
    BY <1>0, GroupFinite
<1>2. \A tag : \A p \in H(tag) : /\ p = <<d, p[2]>> /\ p[2] \in R!BucketTimes(k)
                                 /\ points[p[1]][p[2]] = points[d][p[2]]
                                 /\ points[d][p[2]][tag] # None
    <2>. TAKE tag
    <2>. TAKE p \in H(tag)
    <2>1. p \in ps /\ points[p[1]][p[2]][tag] # None
        BY DEF R!Having
    <2>2. p = <<d, p[2]>> /\ p[2] \in R!BucketTimes(k)
        BY <1>0, <2>1, GroupIsOwn
    <2>. QED
        BY <2>1, <2>2
<1>3. \A p \in H("power") : Plausible(d, k, points[p[1]][p[2]]["power"])
    BY <1>2 DEF Raw, R!BucketTimes
<1>4. \A p \in H("energy") : points[p[1]][p[2]]["energy"] = Count[d][p[2]]
    BY <1>2 DEF Raw
<1>5. \A t \in R!BucketTimes(k) : t \in R!Time /\ Count[d][t] \in Nat
    BY Times DEF R!BucketTimes
<1>. HIDE DEF ps, H
<1>6. ASSUME H("power") # {} PROVE TrueFor(d, k, "power", Mean(d, ps, "power"))
    <2>. DEFINE S == H("power")
                n == Cardinality(S)
                u == R!Unit(d, "power")
                w(p) == points[p[1]][p[2]]["power"]
                sum == R!SumOf(S, "power")
                mean == R!RoundTo(sum, n, u)
    <2>1. \A p \in S : w(p) \in Nat
        BY <1>3 DEF Plausible
    <2>2. PICK p \in S, q \in S : sum \in Nat /\ w(p) * n <= sum /\ sum <= w(q) * n
        BY <1>1, <1>6, <2>1, SumBounds
    <2>3. n \in Nat \ {0} /\ u \in Nat \ {0}
        BY <1>1, <1>6, Units, FS_CardinalityType, FS_EmptySet
    <2>4. /\ \E s \in R!Sources(d, k) : R!RoundTo(Load[d][s], 1, u) <= R!RoundTo(w(p), 1, u)
          /\ \E t \in R!Sources(d, k) : R!RoundTo(w(q), 1, u) <= R!RoundTo(Load[d][t], 1, u)
        BY <1>3 DEF Plausible
    <2>5. Mean(d, ps, "power") = mean
        BY DEF Mean, H
    <2>6. w(p) \in Nat /\ w(q) \in Nat
        BY <2>1
    <2>. HIDE DEF n, S, u, w, sum
    <2>7. mean \in Nat /\ mean % u = 0
        BY <2>2, <2>3, RoundMultiple
    <2>8. R!RoundTo(w(p), 1, u) <= mean /\ mean <= R!RoundTo(w(q), 1, u)
        BY <2>2, <2>3, <2>6, RoundMono
    <2>9. R!RoundTo(mean, 1, u) = mean
        BY <2>3, <2>7, RoundAgain
    <2>10. \A v \in Nat : R!RoundTo(v, 1, u) \in Nat
        <3>. TAKE v \in Nat
        <3>. DEFINE one == 1
        <3>1. one \in Nat \ {0}
            OBVIOUS
        <3>. HIDE DEF one
        <3>2. R!RoundTo(v, one, u) \in Nat
            BY <2>3, <3>1, RoundMultiple
        <3>. QED
            BY <3>2 DEF one
    <2>11. \A s \in R!Sources(d, k) : Load[d][s] \in Nat
        BY Times DEF R!Sources, R!BucketTimes
    <2>12. PICK s \in R!Sources(d, k), t \in R!Sources(d, k) :
              /\ R!RoundTo(Load[d][s], 1, u) <= R!RoundTo(w(p), 1, u)
              /\ R!RoundTo(w(q), 1, u) <= R!RoundTo(Load[d][t], 1, u)
        BY <2>4
    <2>. DEFINE a == R!RoundTo(Load[d][s], 1, u)
                b == R!RoundTo(w(p), 1, u)
                e == R!RoundTo(w(q), 1, u)
                f == R!RoundTo(Load[d][t], 1, u)
    <2>13. a \in Nat /\ b \in Nat /\ e \in Nat /\ f \in Nat
        BY <2>6, <2>10, <2>11
    <2>14. a <= b /\ b <= mean /\ mean <= e /\ e <= f
        BY <2>8, <2>12
    <2>. HIDE DEF a, b, e, f, mean
    <2>15. a <= mean /\ mean <= f
        BY <2>7, <2>13, <2>14
    <2>16. Plausible(d, k, mean)
        BY <2>7, <2>9, <2>15 DEF Plausible, a, f, u
    <2>. QED
        BY <2>5, <2>7, <2>16 DEF TrueFor, u
<1>7. ASSUME H("energy") # {} PROVE TrueFor(d, k, "energy", Reading(d, ps, "energy"))
    <2>. DEFINE p == R!Newest(H("energy"))
                u == R!Unit(d, "energy")
    <2>1. p \in H("energy")
        BY <1>2, <1>5, <1>7, NewestIsOne
    <2>2. p[2] \in R!BucketTimes(k) /\ points[p[1]][p[2]]["energy"] = Count[d][p[2]]
        BY <1>2, <1>4, <2>1
    <2>3. Reading(d, ps, "energy") = R!RoundTo(Count[d][p[2]], 1, u) /\ u \in Nat \ {0}
        BY <2>2, Units DEF Reading, H
    <2>. HIDE DEF p, u
    <2>4. Count[d][p[2]] \in Nat
        BY <1>5, <2>2
    <2>. DEFINE c == Count[d][p[2]]
                one == 1
    <2>5. c \in Nat /\ one \in Nat \ {0} /\ u \in Nat \ {0}
        BY <2>3, <2>4
    <2>. HIDE DEF c, one
    <2>6. R!RoundTo(c, one, u) \in Nat /\ R!RoundTo(c, one, u) % u = 0
        BY <2>5, RoundMultiple
    <2>. QED
        BY <2>2, <2>3, <2>6 DEF TrueFor, u, c, one
<1>8. R!Average(d, ps) = [tag \in R!Tags |-> R!Average(d, ps)[tag]]
    BY AverageOf
<1>9. \A tag \in R!Tags : \/ R!Average(d, ps)[tag] = None
                          \/ TrueFor(d, k, tag, R!Average(d, ps)[tag])
    BY <1>6, <1>7, AverageOf DEF R!Tags, H
<1>. QED
    BY <1>8, <1>9 DEF RowTrue, TrueFor, ps

\* A point that was put back is averaged to itself.
LEMMA RestoredWritten ==
    ASSUME NEW d \in Appliances, NEW k \in R!Buckets, <<d, k>> \in restored,
           NEW times \in {R!Window(k), R!BucketTimes(k)}, PointsTrue(d, k)
    PROVE  R!Written(d, k, times) \in {rows[d][k], points[d][k * Step]}
<1>. DEFINE row == points[d][k * Step]
            ps == R!Group(d, times)
            H(tag) == R!Having(ps, tag)
            only == <<d, k * Step>>
<1>0. SUFFICES ASSUME ps # {} PROVE R!Written(d, k, times) = row
    BY DEF R!Written
<1>1. times \subseteq R!BucketTimes(k) /\ times \in SUBSET R!Time /\ k * Step \in times
    BY TimesOf
<1>2. \A t \in times : points[d][t] # R!Empty => t = k * Step
    BY <1>1, BucketStart DEF PointsTrue
<1>3. ps = {only}
    BY <1>0, <1>1, <1>2, GroupIsOwn
<1>4. PutBack(row, d, k)
    BY BucketStart DEF PointsTrue
<1>5. \A tag : /\ row[tag] # None => H(tag) = {only}
               /\ row[tag] = None => H(tag) = {}
    BY <1>3 DEF R!Having
<1>6. \A tag \in R!Tags : row[tag] # None => row[tag] \in Nat /\ row[tag] % R!Unit(d, tag) = 0
    BY <1>4 DEF PutBack, RowTrue, TrueFor
<1>7. points[only[1]][only[2]] = row /\ only[2] \in R!Time
    BY <1>1
<1>8. row = [tag \in R!Tags |-> row[tag]]
    BY <1>4 DEF PutBack, RowTrue
<1>9. \A tag \in R!Tags : row[tag] = None => rows[d][k][tag] = None
    BY <1>4 DEF PutBack, R!Missing
<1>. HIDE DEF ps, H, row
<1>10. ASSUME row["power"] # None PROVE Mean(d, ps, "power") = row["power"]
    <2>. DEFINE v == row["power"]
                u == R!Unit(d, "power")
                sum == R!SumOf(H("power"), "power")
    <2>1. H("power") = {only} /\ points[only[1]][only[2]]["power"] = v
        BY <1>5, <1>7, <1>10
    <2>2. v \in Nat /\ v % u = 0 /\ u \in Nat \ {0}
        BY <1>6, <1>10, Units DEF R!Tags
    <2>3. IsFiniteSet(H("power")) /\ Cardinality(H("power")) = 1
        BY <2>1, FS_Singleton
    <2>4. \A p \in H("power") : points[p[1]][p[2]]["power"] = v
        BY <2>1
    <2>5. sum \in Nat /\ v * 1 <= sum /\ sum <= v * 1
        BY <2>1, <2>2, <2>3, <2>4, SumBounds
    <2>6. sum = v
        BY <2>2, <2>5
    <2>7. Mean(d, ps, "power") = R!RoundTo(v, 1, u)
        BY <2>3, <2>6 DEF Mean, H
    <2>. HIDE DEF v, u
    <2>8. R!RoundTo(v, 1, u) = v
        BY <2>2, RoundAgain
    <2>. QED
        BY <2>7, <2>8 DEF v
<1>11. ASSUME row["energy"] # None PROVE Reading(d, ps, "energy") = row["energy"]
    <2>. DEFINE v == row["energy"]
                u == R!Unit(d, "energy")
    <2>1. H("energy") = {only} /\ points[only[1]][only[2]]["energy"] = v
        BY <1>5, <1>7, <1>11
    <2>2. v \in Nat /\ v % u = 0 /\ u \in Nat \ {0}
        BY <1>6, <1>11, Units DEF R!Tags
    <2>3. R!Newest(H("energy")) = only
        <3>1. \A p \in H("energy") : p[2] \in R!Time
            BY <1>7, <2>1
        <3>. QED
            BY <2>1, <3>1, NewestIsOne
    <2>4. Reading(d, ps, "energy") = R!RoundTo(v, 1, u)
        BY <2>1, <2>3 DEF Reading, H
    <2>. HIDE DEF v, u
    <2>5. R!RoundTo(v, 1, u) = v
        BY <2>2, RoundAgain
    <2>. QED
        BY <2>4, <2>5 DEF v
<1>12. \A tag \in R!Tags : R!Average(d, ps)[tag] = row[tag]
    BY <1>5, <1>10, <1>11, AverageOf DEF R!Tags, H
<1>13. R!Upsert(R!Average(d, ps), rows[d][k]) = [tag \in R!Tags |-> row[tag]]
    BY <1>9, <1>12 DEF R!Upsert
<1>. QED
    BY <1>0, <1>8, <1>13 DEF R!Written, ps

\* Whatever is written into a bucket that is over is true of it, and what was
\* put back is written as it is.
LEMMA WrittenTrue ==
    ASSUME NEW d \in Appliances, NEW k \in R!Buckets, NEW times \in {R!Window(k), R!BucketTimes(k)},
           PointsTrue(d, k), RowTrue(rows[d][k], d, k)
    PROVE  /\ RowTrue(R!Written(d, k, times), d, k)
           /\ <<d, k>> \in restored =>
                 R!Written(d, k, times) \in {rows[d][k], points[d][k * Step]}
<1>1. CASE <<d, k>> \in restored
    <2>1. RowTrue(points[d][k * Step], d, k)
        BY <1>1, BucketStart DEF PointsTrue, PutBack
    <2>. QED
        BY <1>1, <2>1, RestoredWritten
<1>2. CASE <<d, k>> \notin restored
    <2>0. times \in SUBSET R!BucketTimes(k)
        BY TimesOf
    <2>1. RowTrue(R!Average(d, R!Group(d, times)), d, k)
        BY <1>2, <2>0, AverageTrue DEF PointsTrue
    <2>2. RowTrue(R!Upsert(R!Average(d, R!Group(d, times)), rows[d][k]), d, k)
        BY <2>1 DEF RowTrue, R!Upsert
    <2>. QED
        BY <1>2, <2>2 DEF R!Written
<1>. QED
    BY <1>1, <1>2

-----------------------------------------------------------------------------
(* The rows through every step.                                            *)

\* The inductive invariant of the tables.
RowsInv ==
    /\ R!TypeOK /\ WindowTrue
    /\ \A d \in Appliances, k \in R!Buckets :
          /\ RowTrue(rows[d][k], d, k) /\ PointsTrue(d, k)
          /\ rows[d][k] # R!Empty \/ <<d, k>> \in restored => R!Finished(k)

\* Of a row or a point that is empty all of it is true.
LEMMA EmptyTrue ==
    ASSUME NEW d, NEW k, NEW t
    PROVE  /\ R!Empty \in [R!Tags -> Nat \cup {None}]
           /\ RowTrue(R!Empty, d, k) /\ Raw(R!Empty, d, t)
BY DEF R!Empty, R!Tags, RowTrue, Raw

LEMMA RowsInit == R!Init => RowsInv
<1>. SUFFICES ASSUME R!Init PROVE RowsInv
    OBVIOUS
<1>1. now \in R!Time /\ gaps \in 0..MaxGaps /\ starts \in 0..MaxStarts
    BY Numbers DEF R!Init, R!Time
<1>2. \A d \in Appliances, k \in R!Buckets : rows[d][k] = R!Empty /\ PointsTrue(d, k)
    BY EmptyTrue DEF R!Init, PointsTrue, R!BucketTimes
<1>3. R!TypeOK
    BY <1>1, EmptyTrue DEF R!Init, R!TypeOK
<1>4. WindowTrue
    BY DEF R!Init, WindowTrue, R!Empty, R!Tags
<1>. QED
    BY <1>2, <1>3, <1>4, EmptyTrue DEF RowsInv, R!Init

\* Rows are written; the points stay.
LEMMA WriteStep ==
    ASSUME RowsInv, UNCHANGED <<now, points, window, restored, gaps, starts>>,
           backfilling' \in BOOLEAN,
           rows' = [d \in Appliances |-> [k \in R!Buckets |-> rows'[d][k]]],
           \A d \in Appliances, k \in R!Buckets :
              \/ rows'[d][k] = rows[d][k]
              \/ /\ R!Finished(k)
                 /\ \E times \in {R!Window(k), R!BucketTimes(k)} :
                       rows'[d][k] = R!Written(d, k, times)
    PROVE  RowsInv' /\ R!RestoredIsSame
<1>1. ASSUME NEW d \in Appliances, NEW k \in R!Buckets
      PROVE  /\ RowTrue(rows'[d][k], d, k)
             /\ <<d, k>> \in restored => rows'[d][k] \in {rows[d][k], points[d][k * Step]}
             /\ rows'[d][k] # R!Empty \/ <<d, k>> \in restored' => R!Finished(k)'
    <2>1. RowTrue(rows[d][k], d, k) /\ PointsTrue(d, k)
        BY DEF RowsInv
    <2>2. /\ RowTrue(rows'[d][k], d, k)
          /\ <<d, k>> \in restored => rows'[d][k] \in {rows[d][k], points[d][k * Step]}
        BY <2>1, WrittenTrue
    <2>3. R!Finished(k)' <=> R!Finished(k)
        BY DEF R!Finished
    <2>. QED
        BY <2>2, <2>3 DEF RowsInv
<1>2. ASSUME NEW d \in Appliances, NEW k \in R!Buckets PROVE PointsTrue(d, k)'
    <2>1. PointsTrue(d, k)
        BY DEF RowsInv
    <2>2. CASE <<d, k>> \notin restored
        BY <2>1, <2>2 DEF PointsTrue
    <2>3. CASE <<d, k>> \in restored
        <3>1. \A t \in R!BucketTimes(k) : t % Step = 0 => t = k * Step
            BY BucketStart
        <3>2. k * Step \in R!BucketTimes(k) /\ (k * Step) % Step = 0
            BY BucketStart
        <3>3. PutBack(points[d][k * Step], d, k)
            BY <2>1, <2>3, <3>2 DEF PointsTrue
        <3>4. PutBack(points[d][k * Step], d, k)'
            BY <1>1, <2>3, <3>3 DEF PutBack
        <3>. QED
            BY <2>1, <2>3, <3>1, <3>4 DEF PointsTrue
    <2>. QED
        BY <2>2, <2>3
<1>3. rows' \in [Appliances -> [R!Buckets -> [R!Tags -> Nat \cup {None}]]]
    BY <1>1 DEF RowTrue
<1>4. R!TypeOK'
    BY <1>3 DEF RowsInv, R!TypeOK
<1>5. R!RestoredIsSame
    <2>. SUFFICES ASSUME NEW d \in Appliances, NEW k \in R!Buckets, <<d, k>> \in restored,
                         NEW tag \in R!Tags
                  PROVE  rows'[d][k][tag] = rows[d][k][tag] \/ R!Missing(d, rows[d][k], tag)
        BY DEF RowsInv, R!TypeOK, R!RestoredIsSame
    <2>1. PutBack(points[d][k * Step], d, k)
        BY BucketStart DEF RowsInv, PointsTrue
    <2>. QED
        BY <1>1, <2>1 DEF PutBack
<1>6. WindowTrue'
    BY DEF RowsInv, WindowTrue
<1>. QED
    BY <1>1, <1>2, <1>4, <1>5, <1>6 DEF RowsInv

LEMMA AverageStep ==
    ASSUME RowsInv, NEW k \in R!Buckets, NEW own \in BOOLEAN, R!AverageBucket(k, own)
    PROVE  RowsInv' /\ R!RestoredIsSame
<1>1. \A d \in Appliances, j \in R!Buckets :
         \/ rows'[d][j] = rows[d][j]
         \/ R!Finished(j) /\ rows'[d][j] = R!Written(d, j, R!Window(j))
    BY DEF R!AverageBucket
<1>2. rows' = [d \in Appliances |-> [j \in R!Buckets |-> rows'[d][j]]]
    BY DEF R!AverageBucket
<1>3. UNCHANGED <<now, points, window, restored, gaps, starts>> /\ backfilling' \in BOOLEAN
    BY DEF R!AverageBucket, RowsInv, R!TypeOK
<1>. QED
    BY <1>1, <1>2, <1>3, WriteStep

LEMMA BackfillStep ==
    ASSUME RowsInv, NEW failed, R!Backfill(failed)
    PROVE  RowsInv' /\ R!RestoredIsSame
<1>1. \A d \in Appliances, j \in R!Buckets :
         \/ rows'[d][j] = rows[d][j]
         \/ R!Finished(j) /\ rows'[d][j] = R!Written(d, j, R!BucketTimes(j))
    BY DEF R!Backfill
<1>2. rows' = [d \in Appliances |-> [j \in R!Buckets |-> rows'[d][j]]]
    BY DEF R!Backfill
<1>3. UNCHANGED <<now, points, window, restored, gaps, starts>> /\ backfilling' \in BOOLEAN
    BY DEF R!Backfill
<1>. QED
    BY <1>1, <1>2, <1>3, WriteStep

\* What is measured now is of a bucket that is not over: no row of it exists
\* and none was put back.
LEMMA MeasureStep ==
    ASSUME RowsInv, NEW devs \in Rounds, NEW gap, R!Measure(devs, gap),
           gap = {} \/ \E left : gap = {left}
    PROVE  RowsInv' /\ R!RestoredIsSame
<1>1. now \in R!Time /\ now' \in R!Time /\ now' = now + 1 /\ now \in Nat
    BY Numbers DEF RowsInv, R!TypeOK, R!Measure, R!Time
<1>2. \A k \in R!Buckets : R!Finished(k) => R!Finished(k)' /\ R!BucketOf(now) # k
    <2>. SUFFICES ASSUME NEW k \in R!Buckets, R!Finished(k)
                  PROVE  R!Finished(k)' /\ R!BucketOf(now) # k
        OBVIOUS
    <2>1. k \in Nat /\ Step \in Nat /\ (k + 1) * Step <= now
        BY Numbers DEF R!Buckets, R!Finished
    <2>2. (k + 1) * Step \in Nat
        BY <2>1
    <2>3. (k + 1) * Step <= now'
        BY <1>1, <2>1, <2>2
    <2>. QED
        BY <1>1, <2>3, OverBefore DEF R!Finished
<1>3. restored' = restored
    BY <1>2 DEF RowsInv, R!TypeOK, R!Measure
<1>4. gaps' \in 0..MaxGaps
    <2>1. CASE gap = {}
        <3>1. R!Cardinality(gap) = 0
            BY <2>1, CardinalityIs, FS_EmptySet
        <3>. QED
            BY <3>1 DEF RowsInv, R!TypeOK, R!Measure
    <2>2. CASE gap # {}
        <3>1. R!Cardinality(gap) = 1
            BY <2>2, CardinalityIs, FS_Singleton
        <3>2. gaps < MaxGaps /\ gaps \in Nat /\ gaps' = gaps + 1
            BY <2>2, <3>1 DEF RowsInv, R!TypeOK, R!Measure
        <3>. QED
            BY <3>2, Numbers
    <2>. QED
        BY <2>1, <2>2
<1>5. ASSUME NEW d \in Appliances, d \in devs
      PROVE  /\ Raw(points'[d][now], d, now)
             /\ window'[d] = IF d.kind \in Merged THEN points'[d][now] ELSE window[d]
    <2>. DEFINE taken == [tag \in R!Tags |-> IF <<d, tag>> \in gap THEN None
                              ELSE IF tag = "power" THEN Load[d][now] ELSE Count[d][now]]
    <2>1. /\ points'[d][now] = R!Completed(d, taken, window[d])
          /\ window'[d] = IF d.kind \in Merged THEN R!Completed(d, taken, window[d]) ELSE window[d]
        BY <1>1, <1>5 DEF R!Measure
    <2>2. Load[d][now] \in Nat /\ Count[d][now] \in Nat
        BY <1>1, Times
    <2>3. taken \in [R!Tags -> Nat \cup {None}] /\ window[d] \in [R!Tags -> Nat \cup {None}]
        BY <2>2 DEF RowsInv, R!TypeOK
    <2>4. points'[d][now] \in [R!Tags -> Nat \cup {None}]
        BY <2>1, <2>3 DEF R!Completed
    <2>5. points'[d][now]["energy"] \in {None, Count[d][now]}
        BY <2>1 DEF R!Completed, R!Missing, R!Kept, R!Tags
    <2>6. Plausible(d, R!BucketOf(now), Load[d][now])
        <3>1. now \in R!Sources(d, R!BucketOf(now))
            BY <1>1, BucketBounds DEF R!Sources, R!BucketTimes
        <3>. DEFINE one == 1
                    u == R!Unit(d, "power")
                    l == Load[d][now]
        <3>2. one \in Nat \ {0} /\ u \in Nat \ {0} /\ l \in Nat
            BY <2>2, Units
        <3>. HIDE DEF one, u, l
        <3>3. R!RoundTo(l, one, u) \in Nat
            BY <3>2, RoundMultiple
        <3>4. R!RoundTo(l, one, u) <= R!RoundTo(l, one, u)
            BY <3>3
        <3>. QED
            BY <2>2, <3>1, <3>4 DEF Plausible, one, u, l
    <2>7. ASSUME points'[d][now]["power"] # None
          PROVE  Plausible(d, R!BucketOf(now), points'[d][now]["power"])
        <3>1. CASE R!Missing(d, taken, "power")
            <4>1. d.kind \in Merged /\ points'[d][now]["power"] = window[d]["power"]
                BY <2>1, <3>1 DEF R!Completed, R!Missing, R!Tags
            <4>. QED
                BY <2>7, <4>1 DEF RowsInv, WindowTrue
        <3>2. CASE ~R!Missing(d, taken, "power")
            <4>1. points'[d][now]["power"] = taken["power"]
                BY <2>1, <3>2 DEF R!Completed, R!Tags
            <4>2. taken["power"] \in {None, Load[d][now]}
                BY DEF R!Tags
            <4>. QED
                BY <2>6, <2>7, <4>1, <4>2
        <3>. QED
            BY <3>1, <3>2
    <2>. QED
        BY <2>1, <2>4, <2>5, <2>7 DEF Raw
<1>9. ASSUME NEW d \in Appliances, NEW t \in R!Time
      PROVE  \/ d \in devs /\ t = now /\ Raw(points'[d][t], d, t)
             \/ ~(d \in devs /\ t = now) /\ points'[d][t] = points[d][t]
    BY <1>5 DEF R!Measure
<1>10. window' \in [Appliances -> [R!Tags -> Nat \cup {None}]] /\ WindowTrue'
    <2>1. window' = [d \in Appliances |-> window'[d]]
        BY DEF R!Measure
    <2>2. ASSUME NEW d \in Appliances
          PROVE  \/ d \in devs /\ d.kind \in Merged /\ window'[d] = points'[d][now]
                 \/ window'[d] = window[d]
        BY <1>5 DEF R!Measure
    <2>3. \A d \in Appliances : window'[d] \in [R!Tags -> Nat \cup {None}]
        BY <1>5, <2>2 DEF Raw, RowsInv, R!TypeOK
    <2>4. ASSUME NEW d \in Appliances, d.kind \in Merged, window'[d]["power"] # None
          PROVE  Plausible(d, R!BucketOf(now'), window'[d]["power"])
        <3>1. Plausible(d, R!BucketOf(now), window'[d]["power"])
            BY <1>5, <2>2, <2>4 DEF Raw, RowsInv, WindowTrue
        <3>2. R!BucketOf(now) \in Nat /\ R!BucketOf(now') \in Nat
            BY <1>1, BucketBounds
        <3>3. now <= now'
            BY <1>1
        <3>4. R!BucketOf(now) <= R!BucketOf(now')
            BY <1>1, <3>3, BucketLater
        <3>. QED
            BY <2>4, <3>1, <3>2, <3>4, PlausibleLater
    <2>5. WindowTrue'
        BY <2>4 DEF WindowTrue, R!BucketOf, Plausible, R!Sources, R!BucketTimes
    <2>. QED
        BY <2>1, <2>3, <2>5
<1>6. points' \in [Appliances -> [R!Time -> [R!Tags -> Nat \cup {None}]]]
    <2>1. \A d \in Appliances, t \in R!Time : points'[d][t] \in [R!Tags -> Nat \cup {None}]
        BY <1>9 DEF Raw, RowsInv, R!TypeOK
    <2>2. points' = [d \in Appliances |-> [t \in R!Time |-> points'[d][t]]]
        BY DEF R!Measure
    <2>. QED
        BY <2>1, <2>2
<1>7. ASSUME NEW d \in Appliances, NEW k \in R!Buckets PROVE PointsTrue(d, k)'
    <2>1. PointsTrue(d, k) /\ (<<d, k>> \in restored => R!BucketOf(now) # k)
        BY <1>2 DEF RowsInv
    <2>2. \A t \in R!BucketTimes(k) : t \in R!Time /\ (<<d, k>> \in restored => t # now)
        BY <2>1 DEF R!BucketTimes
    <2>3. UNCHANGED rows
        BY DEF R!Measure
    <2>. QED
        BY <1>3, <1>9, <2>1, <2>2, <2>3 DEF PointsTrue, PutBack
<1>8. R!TypeOK'
    <2>1. UNCHANGED <<rows, starts, backfilling>>
        BY DEF R!Measure
    <2>2. \A r \in restored' : \A t \in R!BucketTimes(r[2]) :
             t % Step # 0 => points'[r[1]][t] = R!Empty
        BY <1>3, <1>7 DEF RowsInv, R!TypeOK, PointsTrue
    <2>. QED
        BY <1>1, <1>3, <1>4, <1>6, <1>10, <2>1, <2>2 DEF RowsInv, R!TypeOK
<1>. QED
    BY <1>2, <1>3, <1>7, <1>8, <1>10 DEF RowsInv, R!Measure, R!RestoredIsSame

\* What completes a row that is put back is a row's own, of no later bucket.
LEMMA LastKnownIs ==
    ASSUME NEW d, NEW k \in R!Buckets, NEW tag, R!LastKnown(d, k, tag) # None
    PROVE  \E j \in R!Buckets : /\ j <= k /\ rows[d][j][tag] # None
                               /\ R!LastKnown(d, k, tag) = rows[d][j][tag]
<1>. DEFINE known == {j \in 0..k : rows[d][j][tag] # None}
            Left == {k - j : j \in known}
<1>1. k \in Nat /\ k <= Last /\ Last \in Nat
    BY Numbers DEF R!Buckets
<1>2. known # {}
    BY DEF R!LastKnown
<1>3. Left \in SUBSET Nat /\ Left # {}
    BY <1>1, <1>2
<1>4. PICK x \in Left : \A y \in Left : x <= y
    BY <1>3, LeastExists
<1>5. PICK j \in known : x = k - j
    OBVIOUS
<1>6. \A i \in known : i <= j
    <2>. TAKE i \in known
    <2>1. k - j <= k - i
        BY <1>4, <1>5
    <2>. QED
        BY <1>1, <2>1
<1>. DEFINE top == CHOOSE n \in known : \A i \in known : i <= n
<1>7. top \in known
    BY <1>6
<1>8. R!LastKnown(d, k, tag) = rows[d][top][tag]
    BY <1>2 DEF R!LastKnown
<1>9. top \in R!Buckets /\ top <= k
    BY <1>1, <1>7 DEF R!Buckets
<1>. QED
    BY <1>7, <1>8, <1>9

\* A row that is put back is true of its bucket.
LEMMA AgainTrue ==
    ASSUME RowsInv, NEW d \in Appliances, NEW k \in R!Buckets
    PROVE  PutBack(R!Again(d, k), d, k)
<1>. DEFINE last(tag) == R!LastKnown(d, k, tag)
<1>1. RowTrue(rows[d][k], d, k)
    BY DEF RowsInv
<1>2. \A tag \in R!Tags : R!Again(d, k)[tag] =
         IF R!Missing(d, rows[d][k], tag) THEN last(tag) ELSE rows[d][k][tag]
    BY DEF R!Again, R!Completed
<1>3. \A tag \in R!Tags : last(tag) # None => last(tag) \in Nat
    <2>. SUFFICES ASSUME NEW tag \in R!Tags, R!LastKnown(d, k, tag) # None
                  PROVE  R!LastKnown(d, k, tag) \in Nat
        OBVIOUS
    <2>1. PICK j \in R!Buckets : /\ j <= k /\ rows[d][j][tag] # None
                                 /\ R!LastKnown(d, k, tag) = rows[d][j][tag]
        BY LastKnownIs
    <2>. QED
        BY <2>1 DEF RowsInv, RowTrue, TrueFor
<1>4. R!Again(d, k) = [tag \in R!Tags |-> R!Again(d, k)[tag]]
    BY DEF R!Again, R!Completed
<1>5. R!Again(d, k) \in [R!Tags -> Nat \cup {None}]
    BY <1>1, <1>2, <1>3, <1>4 DEF RowTrue
<1>6. ASSUME NEW tag \in R!Tags, R!Missing(d, rows[d][k], tag), last(tag) # None
      PROVE  TrueFor(d, k, tag, last(tag))
    <2>1. tag = "power" /\ d.kind \in Merged
        BY <1>6 DEF R!Missing, R!Kept
    <2>2. PICK j \in R!Buckets : j <= k /\ rows[d][j][tag] # None /\ last(tag) = rows[d][j][tag]
        BY <1>6, LastKnownIs
    <2>3. TrueFor(d, j, "power", last(tag))
        BY <2>1, <2>2 DEF RowsInv, RowTrue, R!Tags
    <2>4. j \in Nat /\ k \in Nat
        BY DEF R!Buckets
    <2>5. Plausible(d, k, last(tag))
        BY <2>1, <2>2, <2>3, <2>4, PlausibleLater DEF TrueFor
    <2>. QED
        BY <2>1, <2>3, <2>5 DEF TrueFor
<1>7. \A tag \in R!Tags : R!Again(d, k)[tag] # None => TrueFor(d, k, tag, R!Again(d, k)[tag])
    BY <1>1, <1>2, <1>6 DEF RowTrue
<1>. QED
    BY <1>2, <1>5, <1>7 DEF PutBack, RowTrue

\* Rows are put back at the start of their buckets.
LEMMA StartStep ==
    ASSUME RowsInv, NEW lost \in BOOLEAN, R!Start(lost)
    PROVE  RowsInv' /\ R!RestoredIsSame
<1>1. UNCHANGED <<now, rows, gaps>> /\ backfilling' \in BOOLEAN
    BY DEF R!Start
<1>2. starts' \in 0..MaxStarts
    BY Numbers DEF R!Start, RowsInv, R!TypeOK
<1>3. CASE ~lost
    <2>1. window' = [d \in Appliances |-> R!Empty] /\ UNCHANGED <<points, restored>>
        BY <1>3 DEF R!Start
    <2>2. WindowTrue' /\ window' \in [Appliances -> [R!Tags -> Nat \cup {None}]]
        BY <2>1, EmptyTrue DEF WindowTrue, R!Empty, R!Tags
    <2>. QED
        BY <1>1, <1>2, <2>1, <2>2
           DEF RowsInv, R!TypeOK, PointsTrue, PutBack, R!Finished, R!RestoredIsSame
<1>4. CASE lost
    <2>1. points' = [d \in Appliances |-> [t \in R!Time |-> R!Put(d, t)]]
        BY <1>4 DEF R!Start
    <2>2. restored' = {r \in Appliances \X R!Buckets : rows[r[1]][r[2]] # R!Empty}
        BY <1>4 DEF R!Start
    <2>3. ASSUME NEW d \in Appliances, NEW t \in R!Time
          PROVE  R!Put(d, t) \in [R!Tags -> Nat \cup {None}]
        BY EmptyTrue, AgainTrue DEF R!Put, PutBack, RowTrue
    <2>4. ASSUME NEW d \in Appliances, NEW k \in R!Buckets
          PROVE  /\ PointsTrue(d, k)'
                 /\ rows'[d][k] # R!Empty \/ <<d, k>> \in restored' => R!Finished(k)'
        <3>1. \A t \in R!BucketTimes(k) :
                 points'[d][t] = IF t % Step = 0 /\ rows[d][k] # R!Empty
                                 THEN R!Again(d, k) ELSE R!Empty
            BY <2>1 DEF R!BucketTimes, R!Put
        <3>2. <<d, k>> \in restored' <=> rows[d][k] # R!Empty
            BY <2>2
        <3>3. R!Finished(k)' <=> R!Finished(k)
            BY <1>1 DEF R!Finished
        <3>4. \A point : PutBack(point, d, k) => PutBack(point, d, k)'
            BY <1>1 DEF PutBack
        <3>5. PointsTrue(d, k)'
            BY <3>1, <3>2, <3>4, EmptyTrue, AgainTrue DEF PointsTrue
        <3>. QED
            BY <1>1, <3>2, <3>3, <3>5 DEF RowsInv
    <2>5. points' \in [Appliances -> [R!Time -> [R!Tags -> Nat \cup {None}]]]
        BY <2>1, <2>3
    <2>6. restored' \subseteq Appliances \X R!Buckets
        BY <2>2
    <2>7. \A r \in restored' : \A t \in R!BucketTimes(r[2]) :
             t % Step # 0 => points'[r[1]][t] = R!Empty
        BY <2>4, <2>6 DEF PointsTrue
    <2>8. window' = [d \in Appliances |-> [tag \in R!Tags |->
                       IF d.kind \in Merged THEN R!LastKnown(d, Last, tag) ELSE None]]
        BY <1>4 DEF R!Start
    <2>9. Last \in R!Buckets
        BY Numbers DEF R!Buckets
    <2>10. ASSUME NEW d \in Appliances, NEW tag \in R!Tags, window'[d][tag] # None
           PROVE  /\ window'[d][tag] \in Nat
                  /\ tag = "power" => Plausible(d, R!BucketOf(now), window'[d][tag])
        <3>1. d.kind \in Merged /\ window'[d][tag] = R!LastKnown(d, Last, tag)
            BY <2>8, <2>10
        <3>2. R!LastKnown(d, Last, tag) # None
            BY <2>10, <3>1
        <3>3. PICK j \in R!Buckets : /\ j <= Last /\ rows[d][j][tag] # None
                                     /\ R!LastKnown(d, Last, tag) = rows[d][j][tag]
            BY <2>9, <3>2, LastKnownIs
        <3>4. rows[d][j][tag] # None /\ window'[d][tag] = rows[d][j][tag]
            BY <3>1, <3>3
        <3>5. rows[d][j] # R!Empty
            BY <3>4 DEF R!Empty
        <3>6. TrueFor(d, j, tag, window'[d][tag])
            BY <3>4 DEF RowsInv, RowTrue
        <3>7. TrueFor(d, j, tag, window'[d][tag]) /\ R!Finished(j) /\ now \in R!Time
            BY <3>5, <3>6 DEF RowsInv, R!TypeOK
        <3>8. j <= R!BucketOf(now) /\ j \in Nat /\ R!BucketOf(now) \in Nat
            BY <3>7, OverIsPast, BucketBounds DEF R!Buckets
        <3>. QED
            BY <3>1, <3>7, <3>8, PlausibleLater DEF TrueFor
    <2>11. window' \in [Appliances -> [R!Tags -> Nat \cup {None}]]
        BY <2>8, <2>10
    <2>12. WindowTrue'
        BY <1>1, <2>10 DEF WindowTrue, R!Tags
    <2>13. R!TypeOK'
        BY <1>1, <1>2, <2>5, <2>6, <2>7, <2>11 DEF RowsInv, R!TypeOK
    <2>. QED
        BY <1>1, <2>4, <2>6, <2>12, <2>13 DEF RowsInv, R!RestoredIsSame
<1>. QED
    BY <1>3, <1>4

LEMMA RowsStep == RowsInv /\ [R!Next]_R!vars => RowsInv' /\ (R!RestoredIsSame \/ UNCHANGED R!vars)
<1>. SUFFICES ASSUME RowsInv, [R!Next]_R!vars
              PROVE  RowsInv' /\ (R!RestoredIsSame \/ UNCHANGED R!vars)
    OBVIOUS
<1>1. ASSUME NEW devs \in Rounds, R!Measure(devs, {})
      PROVE  RowsInv' /\ R!RestoredIsSame
    BY <1>1, MeasureStep
<1>2. ASSUME NEW devs \in Rounds, NEW left \in Lossy, R!Measure(devs, {left})
      PROVE  RowsInv' /\ R!RestoredIsSame
    BY <1>2, MeasureStep
<1>3. CASE UNCHANGED R!vars
    BY <1>3 DEF R!vars, RowsInv, R!TypeOK, WindowTrue, PointsTrue, PutBack, R!Finished
<1>. QED
    BY <1>1, <1>2, <1>3, AverageStep, BackfillStep, StartStep DEF R!Next

-----------------------------------------------------------------------------
(* The composition: a behaviour is one of both halves, of which one stands *)
(* still.                                                                  *)

LEMMA HalvesInit == HistoryInit => Init /\ R!Init
BY DEF HistoryInit

LEMMA HalvesStep ==
    [HistoryNext]_<<half, restoreVars, rowsVars>> => [Next]_vars /\ [R!Next]_R!vars
BY DEF HistoryNext, restoreVars, rowsVars, vars, R!vars


LEMMA HistoryRestores == HistorySpec => Spec
BY HalvesInit, HalvesStep, PTL DEF HistorySpec, Spec

LEMMA HistoryRows == HistorySpec => []RowsInv
<1>1. RowsInv /\ [R!Next]_R!vars => RowsInv'
    BY RowsStep
<1>. QED
    BY <1>1, RowsInit, HalvesInit, HalvesStep, PTL DEF HistorySpec

\* Both halves keep their types, for any instances, devices, lengths of a
\* bucket, loads and faults.
THEOREM TypesOKCorrect == HistorySpec => []TypesOK
<1>1. RowsInv => R!TypeOK
    BY DEF RowsInv
<1>. QED
    BY <1>1, HistoryRestores, HistoryRows, TypeCorrect, PTL DEF TypesOK

\* A row of five minutes tells of its own device and bucket only: its power
\* lies between the least and the greatest the device had in it, its energy
\* is one of the readings there; and what was put back into an emptied Redis
\* is averaged to what it was, however often.
THEOREM RowsStayTrueCorrect == HistorySpec => RowsStayTrue
<1>1. RowsInv /\ RowsInv' => R!OwnValues'
    <2>1. RowsInv => R!OwnValues
        <3>. SUFFICES ASSUME RowsInv, NEW d \in Appliances, NEW k \in R!Buckets
                      PROVE  /\ rows[d][k]["power"] # None =>
                                  \E s, t \in R!Sources(d, k) :
                                     /\ R!RoundTo(Load[d][s], 1, R!Unit(d, "power")) <= rows[d][k]["power"]
                                     /\ rows[d][k]["power"] <= R!RoundTo(Load[d][t], 1, R!Unit(d, "power"))
                             /\ rows[d][k]["energy"] # None =>
                                  \E t \in R!BucketTimes(k) :
                                     rows[d][k]["energy"] = R!RoundTo(Count[d][t], 1, R!Unit(d, "energy"))
            BY DEF R!OwnValues
        <3>1. \A tag \in R!Tags : rows[d][k][tag] # None => TrueFor(d, k, tag, rows[d][k][tag])
            BY DEF RowsInv, RowTrue
        <3>2. ASSUME rows[d][k]["power"] # None
              PROVE  /\ Plausible(d, k, rows[d][k]["power"])
                     /\ R!RoundTo(rows[d][k]["power"], 1, R!Unit(d, "power")) = rows[d][k]["power"]
            BY <3>1, <3>2, RoundAgain, Units DEF TrueFor, R!Tags
        <3>. QED
            BY <3>1, <3>2 DEF TrueFor, Plausible, R!Tags
    <2>. QED
        BY <2>1, PTL
<1>2. RowsInv /\ [R!Next]_R!vars => [R!OwnValues' /\ R!RestoredIsSame]_R!vars
    BY <1>1, RowsStep
<1>. QED
    BY <1>2, HistoryRows, HalvesInit, HalvesStep, PTL DEF HistorySpec, RowsStayTrue, R!RowsStayTrue

\* Beside the averages, too, a restoration that calls itself complete lacks
\* only what its uncounted failures cost it, two never restore at once, and the
\* marker is removed only by such a restoration.
THEOREM RestorationInHistory == HistorySpec => []RestorationHolds /\ MarkerRemovedWhenWhole
BY HistoryRestores, RestorationHoldsCorrect, MarkerRemovedWhenWholeCorrect, PTL

=============================================================================
