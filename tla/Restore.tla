------------------------------- MODULE Restore -------------------------------
(***************************************************************************)
(* What a start does when Redis has lost its data: every instance of the   *)
(* service looks whether Redis is empty or an earlier restoration was      *)
(* marked incomplete, takes a lock with SETNX and copies the averages of   *)
(* the last days from PostgreSQL, one kind of series after the other, then *)
(* removes the lock and sets or removes the marker.  Only then do its      *)
(* pollers start.  Signals are not handled before that (signal.Notify is   *)
(* called at the end of main), so a stop during a restoration is a crash.  *)
(*                                                                         *)
(* The history of a device is one point; the lock, the marker and the data *)
(* all live in Redis.                                                      *)
(***************************************************************************)
EXTENDS Integers, FiniteSets

CONSTANTS
    Procs,       \* instances of the service on one Redis
    Stored,      \* devices with averages in PostgreSQL
    FaultKinds,  \* what the environment may inject, of AllFaults
    MaxFaults,   \* BOUND: how many of them
    None         \* no lock

Swallowed == {"dds238", "map", "kes"}    \* averagesAll drops their errors
Devices   == {"inverter", "bms26", "dts017m"} \cup Swallowed
AllFaults == {"read", "setnx", "query", "swallowed query", "save", "del", "mark",
              "crash", "slow"}
Restoring == {"averages", "bms26", "dts017m"}
Phases    == {"down", "empty?", "marker?", "present?", "lock", "unlock", "mark",
              "run"} \cup Restoring

ASSUME RestoreAssumption ==
    /\ Stored \subseteq Devices /\ FaultKinds \subseteq AllFaults
    /\ MaxFaults \in Nat /\ None \notin Procs

VARIABLES
    history,   \* devices whose stored points are back in Redis
    live,      \* devices the pollers have written to Redis
    lock,      \* sunreceiver:restore:lock: who set it, or None
    marker,    \* sunreceiver:restore:incomplete
    pc,        \* where each instance is
    empty,     \* what its IsEmpty found
    queue,     \* devices whose points it has queried and not yet saved
    queried,   \* whether the query of the current phase is behind it
    complete,  \* its result so far
    dropped,   \* history: the devices that its restoration lacks through failures
               \* its result does not count
    overdue,   \* history: a lock expired while its owner was still restoring
    faults     \* faults left

vars == <<history, live, lock, marker, pc, empty, queue, queried, complete,
          dropped, overdue, faults>>
redis == <<history, live, lock, marker>>
mine  == <<empty, queue, queried, complete, dropped, overdue>>

Goto(p, phase) == pc' = [pc EXCEPT ![p] = phase]

Inject(kind, happens) ==
    /\ happens => kind \in FaultKinds /\ faults > 0
    /\ faults' = IF happens THEN faults - 1 ELSE faults

-----------------------------------------------------------------------------
(* Deciding whether to restore: main, between openPG and the accumulator.  *)

Start(p) ==
    /\ pc[p] = "down"
    /\ Goto(p, "empty?")
    /\ UNCHANGED <<redis, mine, faults>>

\* IsEmpty; an error is noticed after the next read, with the same end.
CheckEmpty(p) ==
    \E fails \in BOOLEAN :
        /\ pc[p] = "empty?"
        /\ Inject("read", fails)
        /\ empty' = [empty EXCEPT ![p] = history \cup live = {}]
        /\ Goto(p, IF fails THEN "run" ELSE "marker?")
        /\ UNCHANGED <<redis, queue, queried, complete, dropped, overdue>>

\* With a marker the presence of BMS or DTS017M data does not matter.
CheckMarker(p) ==
    \E fails \in BOOLEAN :
        /\ pc[p] = "marker?"
        /\ Inject("read", fails)
        /\ Goto(p, IF fails \/ (~marker /\ ~empty[p]) THEN "run"
                   ELSE IF marker THEN "lock" ELSE "present?")
        /\ UNCHANGED <<redis, mine>>

\* redisBMSDataPresent, redisDts017DataPresent: another instance may have
\* written them since CheckEmpty.
CheckPresent(p) ==
    \E fails \in BOOLEAN :
        /\ pc[p] = "present?"
        /\ Inject("read", fails)
        /\ Goto(p, IF fails \/ (history \cup live) \cap {"bms26", "dts017m"} # {}
                   THEN "run" ELSE "lock")
        /\ UNCHANGED <<redis, mine>>

\* Faulty variant: SET in place of SETNX.
Overwrites(p) == lock \in Procs \cup {None}

\* SETNX
Wins(p) == lock = None

\* Who does not get the lock, or does not learn of it, goes on without.
TakeLock(p) ==
    \E fails \in BOOLEAN :
        /\ pc[p] = "lock"
        /\ Inject("setnx", fails)
        /\ IF Wins(p) /\ ~fails
           THEN /\ lock' = p
                /\ Goto(p, "averages")
                /\ complete' = [complete EXCEPT ![p] = TRUE]
           ELSE /\ Goto(p, "run")
                /\ UNCHANGED <<lock, complete>>
        /\ UNCHANGED <<history, live, marker, empty, queue, queried, dropped, overdue>>

-----------------------------------------------------------------------------
(* restoreRedisFromPG.                                                     *)

Of(phase) == IF phase = "averages" THEN {"inverter"} \cup Swallowed ELSE {phase}

\* Faulty variant: only the last query counts.
LastResult(p, fails) == ~fails

\* Any query that fails makes the restoration incomplete.
Result(p, fails) == complete[p] /\ ~fails

\* The query of a phase.  averagesAll fails for the inverters only: without
\* an error it lacks the devices whose query failed.
Query(p) ==
    \E fails \in BOOLEAN, lost \in SUBSET Swallowed :
        /\ pc[p] \in Restoring /\ ~queried[p]
        /\ fails => "query" \in FaultKinds
        /\ lost # {} => pc[p] = "averages" /\ ~fails /\ "swallowed query" \in FaultKinds
        /\ IF fails \/ lost # {} THEN faults > 0 /\ faults' = faults - 1
                                 ELSE UNCHANGED faults
        /\ queue' = [queue EXCEPT ![p] = IF fails THEN {}
                                         ELSE (Stored \cap Of(pc[p])) \ lost]
        /\ complete' = [complete EXCEPT ![p] = Result(p, fails)]
        /\ dropped' = [dropped EXCEPT ![p] = @ \cup (Stored \cap lost)]
        /\ queried' = [queried EXCEPT ![p] = TRUE]
        /\ UNCHANGED <<redis, pc, empty, overdue>>

\* A point that cannot be saved is logged and passed over.
SavePoint(p) ==
    \E d \in queue[p], fails \in BOOLEAN :
        /\ Inject("save", fails)
        /\ history' = IF fails THEN history ELSE history \cup {d}
        /\ queue' = [queue EXCEPT ![p] = @ \ {d}]
        /\ dropped' = [dropped EXCEPT ![p] = IF fails THEN @ \cup {d} ELSE @]
        /\ UNCHANGED <<live, lock, marker, pc, empty, queried, complete, overdue>>

\* Faulty variant: the phase ends with its query.
Queried(p) == queried[p]

Drained(p) == queried[p] /\ queue[p] = {}

NextPhase(p) ==
    /\ pc[p] \in Restoring /\ Drained(p)
    /\ Goto(p, CASE pc[p] = "averages" -> "bms26"
                 [] pc[p] = "bms26" -> "dts017m"
                 [] pc[p] = "dts017m" -> "unlock")
    /\ queried' = [queried EXCEPT ![p] = FALSE]
    /\ UNCHANGED <<redis, empty, queue, complete, dropped, overdue, faults>>

\* The lock is deleted, whoever holds it; an error is ignored.
Unlock(p) ==
    \E fails \in BOOLEAN :
        /\ pc[p] = "unlock"
        /\ Inject("del", fails)
        /\ lock' = IF fails THEN lock ELSE None
        /\ Goto(p, "mark")
        /\ UNCHANGED <<history, live, marker, mine>>

Mark(p) ==
    \E fails \in BOOLEAN :
        /\ pc[p] = "mark"
        /\ Inject("mark", fails)
        /\ marker' = IF fails THEN marker ELSE ~complete[p]
        /\ Goto(p, "run")
        /\ dropped' = [dropped EXCEPT ![p] = {}]
        /\ UNCHANGED <<history, live, lock, empty, queue, queried, complete, overdue>>

-----------------------------------------------------------------------------
(* The service, and what may happen to it.                                 *)

SaveLive(p) ==
    /\ pc[p] = "run"
    /\ \E d \in Devices : live' = live \cup {d}
    /\ UNCHANGED <<history, lock, marker, pc, mine, faults>>

\* An orderly stop: possible once the service runs.
Quit(p) ==
    /\ pc[p] = "run"
    /\ Goto(p, "down")
    /\ UNCHANGED <<redis, mine, faults>>

Crash(p) ==
    /\ pc[p] \notin {"down", "run"}
    /\ Inject("crash", TRUE)
    /\ Goto(p, "down")
    /\ queue' = [queue EXCEPT ![p] = {}]
    /\ queried' = [queried EXCEPT ![p] = FALSE]
    /\ dropped' = [dropped EXCEPT ![p] = {}]
    /\ UNCHANGED <<redis, empty, complete, overdue>>

HoldsLock(p) == pc[p] \in Restoring \cup {"unlock"}

\* restoreLockTTL, 30 minutes: a restoration is over by then, unless it is a
\* slow one.
Expire ==
    /\ lock # None
    /\ Inject("slow", HoldsLock(lock))
    /\ overdue' = (overdue \/ HoldsLock(lock))
    /\ lock' = None
    /\ UNCHANGED <<history, live, marker, pc, empty, queue, queried, complete, dropped>>

Init ==
    /\ history = {} /\ live = {}
    /\ lock = None /\ marker = FALSE
    /\ pc = [p \in Procs |-> "down"]
    /\ empty = [p \in Procs |-> FALSE]
    /\ queue = [p \in Procs |-> {}]
    /\ queried = [p \in Procs |-> FALSE]
    /\ complete = [p \in Procs |-> FALSE]
    /\ dropped = [p \in Procs |-> {}]
    /\ overdue = FALSE
    /\ faults = MaxFaults

Decide(p)  == \/ Start(p) \/ CheckEmpty(p) \/ CheckMarker(p)
              \/ CheckPresent(p) \/ TakeLock(p)
Restored(p) == Query(p) \/ SavePoint(p) \/ NextPhase(p) \/ Unlock(p) \/ Mark(p)

Next ==
    \/ \E p \in Procs : Decide(p) \/ Restored(p) \/ SaveLive(p) \/ Quit(p) \/ Crash(p)
    \/ Expire

Spec == Init /\ [][Next]_vars

-----------------------------------------------------------------------------
TypeOK ==
    /\ history \subseteq Stored /\ live \subseteq Devices
    /\ lock \in Procs \cup {None} /\ marker \in BOOLEAN
    /\ pc \in [Procs -> Phases]
    /\ empty \in [Procs -> BOOLEAN]
    /\ queue \in [Procs -> SUBSET Stored]
    /\ \A p \in Procs : queue[p] \subseteq Of(pc[p])
    /\ queried \in [Procs -> BOOLEAN] /\ complete \in [Procs -> BOOLEAN]
    /\ dropped \in [Procs -> SUBSET Stored]
    /\ overdue \in BOOLEAN /\ faults \in 0..MaxFaults

\* Two instances on one Redis never restore at the same time, through
\* crashes, the lock that a crash leaves and its expiry (comment in main:
\* whoever took the marker is the only one to restore); only a restoration
\* that outlived its lock may have company.
OneRestorer ==
    ~overdue => \A p, q \in Procs : HoldsLock(p) /\ HoldsLock(q) => p = q

\* What a process believes restored is restored: as long as its result is
\* "complete", the devices of the phases behind it are in Redis, except those
\* that one of its own failures cost it which the result does not count (an
\* error averagesAll drops, a point that could not be saved): crashes, failed
\* queries, a lock that expires and another instance's restoration cost none.
Behind(phase) == CASE phase = "averages" -> {}
                   [] phase = "bms26" -> Of("averages")
                   [] phase = "dts017m" -> Of("averages") \cup {"bms26"}
                   [] phase \in {"unlock", "mark"} -> Devices

CompleteIsTrue ==
    \A p \in Procs : pc[p] \in Restoring \cup {"unlock", "mark"} /\ complete[p]
        => Stored \cap Behind(pc[p]) \subseteq history \cup dropped[p]

\* One instance restores at a time and knows what it has restored.
RestorationHolds == OneRestorer /\ CompleteIsTrue

\* The marker of an incomplete restoration is removed only by a restoration
\* that put everything PostgreSQL stores back into Redis ("removed after a
\* wholly successful restoration", comment of redisRestoreIncompleteKey) but
\* for what its uncounted failures cost, also when two instances finish at the
\* same time.
MarkerRemovedWhenWhole ==
    [][marker /\ ~marker' =>
         \E p \in Procs : pc[p] = "mark" /\ Stored \subseteq history \cup dropped[p]]_vars

\* "The marker is set if at least one series could not be restored ...
\* partially restored data must not freeze the omission" (the same comment):
\* once nobody restores and Redis is not empty, the history is there, or the
\* marker is, and the next start tries again.
HistoryOrMarker ==
    (/\ \A p \in Procs : pc[p] \in {"down", "run"}
     /\ history \cup live # {})
        => marker \/ Stored \subseteq history
=============================================================================
