------------------------------ MODULE GridPoll ------------------------------
(***************************************************************************)
(* Grid inverters behind the Malina26 server: what one cycle of the poller *)
(* shows, puts into the time series and writes to the history of errors.   *)
(*                                                                         *)
(* A cycle reads the list, then the documents of the inverters with a few  *)
(* workers until a deadline, and then handles one document after another   *)
(* while the inverters go on changing.  PostgreSQL may refuse any row.     *)
(* Redis may refuse a transaction, apply a part of it or lose its answer,  *)
(* and no point is put while the creation of its series backs off.         *)
(* Everything the poller remembers is in the process.                      *)
(*                                                                         *)
(* One time series stands for those of all values of an inverter: each has *)
(* a key, a creation and a back-off of its own.                            *)
(***************************************************************************)
EXTENDS Integers, FiniteSets

CONSTANTS
    Serials,
    Codes,       \* codes of alarms, "F35" (no grid) among them
    MaxSeen,     \* bound: readings of an inverter by the server
    MaxChanges,  \* bound: changes of alarms
    MaxRestarts  \* bound: restarts of the service

ASSUME GridPollAssumption ==
    /\ "F35" \in Codes /\ "F35_clear" \notin Codes
    /\ MaxSeen \in Nat /\ MaxChanges \in Nat /\ MaxRestarts \in Nat

VARIABLES
    seen,        \* server: last_seen of an inverter, 0 before its first reading
    codes,       \* server: gridAlarmCodes of its newest document
    changes,
    docs,        \* the documents of the cycle that are not handled yet
    active,      \* the inverters handled in this cycle
    polling,     \* inside a cycle
    lastSeen,    \* by serial, 0 where the map has no key
    warned,      \* newKeyWarned
    lastAlarms,  \* by serial, {} where the map has no key
    series,      \* tsCreated and tsFailUntil: "unknown", "made" or "failing"
    current,     \* redis <brand>:current, the reading shown; 0 before the first
    history,     \* redis time series: the readings with a point
    skipped,     \* readings saved without one while the series was failing
    copies,      \* acknowledged writes of a point since its inverter was missed
    told,        \* acknowledged rows of an alarm since it came up
    f35,         \* acknowledged rows "F35" less rows "F35_clear" of this process
    restarts

server == <<seen, codes, changes>>
memory == <<lastSeen, warned, lastAlarms, series>>
redis  == <<current, history, skipped, copies>>
table  == <<told, f35>>
vars   == <<server, docs, active, polling, memory, redis, table, restarts>>

Readings == 0..MaxSeen
Applied  == {"none", "part", "all"}
Fresh    == [s \in Serials |-> 0]
Unread   == [r \in Readings |-> 0]
NoDocs   == [s \in {} |-> 0]

-----------------------------------------------------------------------------
(* The server.                                                             *)

\* The server has read inverter s once more.
Read(s) ==
    /\ seen[s] < MaxSeen
    /\ seen' = [seen EXCEPT ![s] = @ + 1]
    /\ UNCHANGED <<codes, changes, docs, active, polling, memory, redis, table, restarts>>

\* An alarm of s comes up or goes away.
Change(s, c) ==
    /\ changes < MaxChanges /\ seen[s] > 0
    /\ changes' = changes + 1
    /\ codes' = [codes EXCEPT ![s] = IF c \in @ THEN @ \ {c} ELSE @ \cup {c}]
    /\ told' = [told EXCEPT ![s][c] = 0]
    /\ UNCHANGED <<seen, docs, active, polling, memory, redis, f35, restarts>>

-----------------------------------------------------------------------------
(* A cycle.                                                                *)

\* gridSnapshot: what the document of s says, its reading and gridAlarmCodes.
Document(s) == [last |-> seen[s], codes |-> codes[s]]

\* Faulty variant: an inverter that was never read yet is not skipped.
FetchUnread(got) ==
    /\ ~polling
    /\ polling' = TRUE
    /\ docs' = [s \in got |-> Document(s)]
    /\ active' = {}
    /\ UNCHANGED <<server, memory, redis, table, restarts>>

\* The list and the documents are read.  An inverter is missing in got when
\* the server does not list it, no worker was free before the deadline, the
\* request failed, or its brand is unknown; one that was never read yet is
\* skipped.  A list that cannot be read ends the cycle at once and forgets
\* nothing: a stuttering step.
Fetch(got) ==
    /\ ~polling
    /\ polling' = TRUE
    /\ docs' = [s \in {x \in got : seen[x] > 0} |-> Document(s)]
    /\ active' = {}
    /\ UNCHANGED <<server, memory, redis, table, restarts>>

\* Faulty variant: a point for every cycle.
AdvanceAlways(s) == TRUE

\* advance: the reading is newer than the last one that was saved.
Advance(s) == docs[s].last > lastSeen[s]

\* tsAdd: the point of a new reading is put unless its series is failing.
Puts(s) == Advance(s) /\ series[s] # "failing"

\* tsEnsure: TS.CREATE is tried before the transaction, until it succeeds; the
\* first failure begins the back-off of the series.
Ensure(s, made) ==
    series' = [series EXCEPT ![s] =
                  IF ~Puts(s) \/ @ = "made" THEN @ ELSE IF made THEN "made" ELSE "failing"]

\* saveInvSnapshotState without an error: shown in any case, a new reading
\* counts as saved, with its point or without.
Saved(s) ==
    /\ current' = [current EXCEPT ![s] = docs[s].last]
    /\ lastSeen' = [lastSeen EXCEPT ![s] = IF Advance(s) THEN docs[s].last ELSE @]
    /\ history' = [history EXCEPT ![s] = IF Puts(s) THEN @ \cup {docs[s].last} ELSE @]
    /\ copies' = [copies EXCEPT ![s][docs[s].last] = IF Puts(s) THEN @ + 1 ELSE @]
    /\ skipped' = [skipped EXCEPT ![s] =
                      IF Advance(s) /\ ~Puts(s) THEN @ \cup {docs[s].last} ELSE @]

\* Faulty variant: the reading counts as saved although Exec has failed.
RefusedCounts(s, applied) ==
    /\ lastSeen' = [lastSeen EXCEPT ![s] = IF Advance(s) THEN docs[s].last ELSE @]
    /\ UNCHANGED <<lastAlarms, redis, table>>

\* saveInvSnapshotState with an error: neither the reading nor its alarms are
\* handled.  Redis has applied nothing, the snapshot without the point (TS.ADD
\* fails inside MULTI), or all of it (the answer is lost).
Refused(s, applied) ==
    /\ applied = "part" => Puts(s)
    /\ current' = [current EXCEPT ![s] = IF applied = "none" THEN @ ELSE docs[s].last]
    /\ history' = [history EXCEPT ![s] =
                      IF applied = "all" /\ Puts(s) THEN @ \cup {docs[s].last} ELSE @]
    /\ UNCHANGED <<lastSeen, lastAlarms, skipped, copies, table>>

\* The codes to write, and whether the return of the grid is to be written.
Appeared(s) == docs[s].codes \ lastAlarms[s]
Cleared(s)  == "F35" \in lastAlarms[s] \ docs[s].codes

\* Faulty variant: a return of the grid whose row was refused is forgotten.
NextForgets(s, refused) == docs[s].codes \ (Appeared(s) \cap refused)

\* next: the alarms remembered when the rows in "refused" were not written.
NextAlarms(s, refused) ==
    (docs[s].codes \ (Appeared(s) \cap refused))
        \cup IF Cleared(s) /\ "F35_clear" \in refused THEN {"F35"} ELSE {}

\* The history of errors: rows for what appeared and for the grid's return.
Alarms(s, refused) ==
    LET rows == (Appeared(s) \cup IF Cleared(s) THEN {"F35_clear"} ELSE {}) \ refused
    IN  /\ told' = [told EXCEPT ![s] = [c \in Codes |->
             IF c \in rows /\ c \in codes[s] THEN @[c] + 1 ELSE @[c]]]
        /\ f35' = [f35 EXCEPT ![s] = @ + (IF "F35" \in rows THEN 1 ELSE 0)
                                       - (IF "F35_clear" \in rows THEN 1 ELSE 0)]
        /\ lastAlarms' = [lastAlarms EXCEPT ![s] = NextAlarms(s, refused)]

\* One document is handled: TS.CREATE succeeds or not, Exec returns an error
\* or not after Redis has applied what it has.
Handle(s, made, saved, applied, refused) ==
    /\ s \in DOMAIN docs
    /\ saved => applied = "all"
    /\ ~saved => refused = {}
    /\ active' = active \cup {s}
    /\ warned' = warned \cup {s}
    /\ docs' = [x \in DOMAIN docs \ {s} |-> docs[x]]
    /\ Ensure(s, made)
    /\ IF saved THEN Saved(s) /\ Alarms(s, refused) ELSE Refused(s, applied)
    /\ UNCHANGED <<server, polling, restarts>>

\* The 30 seconds of tsFailUntil are over: TS.CREATE is tried with the next point.
BackoffEnds(s) ==
    /\ series[s] = "failing"
    /\ series' = [series EXCEPT ![s] = "unknown"]
    /\ UNCHANGED <<server, docs, active, polling, lastSeen, warned, lastAlarms, redis, table, restarts>>

\* Faulty variant: the alarms of inverters that were missed are forgotten, too.
PruneAlarms == lastAlarms' = [s \in Serials |-> IF s \in active THEN lastAlarms[s] ELSE {}]

\* lastAlarms is kept for inverters that were missed.
KeepAlarms == UNCHANGED lastAlarms

\* The end of a cycle: inverters that were missed leave lastSeen and newKeyWarned.
EndCycle ==
    /\ polling /\ DOMAIN docs = {}
    /\ polling' = FALSE
    /\ lastSeen' = [s \in Serials |-> IF s \in active THEN lastSeen[s] ELSE 0]
    /\ copies' = [s \in Serials |-> IF s \in active THEN copies[s] ELSE Unread]
    /\ warned' = warned \cap active
    /\ KeepAlarms
    /\ UNCHANGED <<server, docs, active, series, current, history, skipped, table, restarts>>

-----------------------------------------------------------------------------
\* A crash or a stop at any point, and a start.
Restart ==
    /\ restarts < MaxRestarts
    /\ restarts' = restarts + 1
    /\ polling' = FALSE /\ docs' = NoDocs /\ active' = {}
    /\ lastSeen' = Fresh /\ copies' = [s \in Serials |-> Unread] /\ warned' = {}
    /\ series' = [s \in Serials |-> "unknown"]
    /\ lastAlarms' = [s \in Serials |-> {}]
    /\ told' = [s \in Serials |-> [c \in Codes |-> 0]] /\ f35' = Fresh
    /\ UNCHANGED <<server, current, history, skipped>>

Init ==
    /\ seen = Fresh /\ codes = [s \in Serials |-> {}] /\ changes = 0
    /\ polling = FALSE /\ docs = NoDocs /\ active = {}
    /\ lastSeen = Fresh /\ copies = [s \in Serials |-> Unread] /\ warned = {}
    /\ series = [s \in Serials |-> "unknown"]
    /\ lastAlarms = [s \in Serials |-> {}]
    /\ current = Fresh /\ history = [s \in Serials |-> {}] /\ skipped = [s \in Serials |-> {}]
    /\ told = [s \in Serials |-> [c \in Codes |-> 0]] /\ f35 = Fresh
    /\ restarts = 0

Next ==
    \/ \E s \in Serials : Read(s)
    \/ \E s \in Serials, c \in Codes : Change(s, c)
    \/ \E got \in SUBSET Serials : Fetch(got)
    \/ \E s \in Serials, made, saved \in BOOLEAN, applied \in Applied,
          refused \in SUBSET (Codes \cup {"F35_clear"}) : Handle(s, made, saved, applied, refused)
    \/ \E s \in Serials : BackoffEnds(s)
    \/ EndCycle
    \/ Restart

Spec == Init /\ [][Next]_vars

-----------------------------------------------------------------------------
\* gridDeviceDoc, of an inverter that was read.
Documents == [last : Readings \ {0}, codes : SUBSET Codes]

TypeOK ==
    /\ seen \in [Serials -> Readings] /\ codes \in [Serials -> SUBSET Codes]
    /\ changes \in 0..MaxChanges /\ restarts \in 0..MaxRestarts
    /\ polling \in BOOLEAN /\ (docs # NoDocs => polling)
    /\ DOMAIN docs \subseteq Serials \ (IF polling THEN active ELSE {})
    /\ \A s \in DOMAIN docs : docs[s] \in Documents
    /\ lastSeen \in [Serials -> Readings] /\ lastAlarms \in [Serials -> SUBSET Codes]
    /\ active \subseteq Serials /\ warned \subseteq Serials
    /\ series \in [Serials -> {"unknown", "made", "failing"}]
    /\ current \in [Serials -> Readings] /\ history \in [Serials -> SUBSET Readings]
    /\ skipped \in [Serials -> SUBSET Readings]
    /\ copies \in [Serials -> [Readings -> Nat]] /\ told \in [Serials -> [Codes -> Nat]]
    /\ f35 \in [Serials -> Int]

(* An alarm that lasts has one row, through cycles that miss its inverter,  *)
(* lists that fail, refused snapshots and refused rows.                     *)
OncePerEpisode == \A s \in Serials, c \in Codes : told[s][c] <= 1

(* Loss and return of the grid alternate, and a loss whose return is not    *)
(* written yet is remembered until it is: no outage stays open for ever and *)
(* none is closed twice.                                                    *)
F35Alternates ==
    \A s \in Serials : f35[s] = IF "F35" \in lastAlarms[s] THEN 1 ELSE 0

(* Rows of appearance and clearance come one by one, in turn.               *)
AlarmsAlternate == OncePerEpisode /\ F35Alternates

(* What is shown has its point in the time series, or is newer than what    *)
(* counts as saved, so that the next cycle puts the point again: a reading  *)
(* of a transaction that failed, or was applied in part, is not taken for a *)
(* saved one.  The exception is the code's own: a reading that came while   *)
(* TS.CREATE was backing off is saved without a point and never gets one.   *)
ShownIsInHistory ==
    \A s \in Serials : current[s] # 0 =>
        current[s] \in history[s] \cup skipped[s] \/ lastSeen[s] < current[s]

(* A frozen reading is no new point: one that was acknowledged is written   *)
(* again only if its inverter was missed in between or the service          *)
(* restarted.                                                               *)
OnePointPerReading == \A s \in Serials, r \in Readings : copies[s][r] <= 1

(* Each reading that is shown becomes one point of the time series, unless  *)
(* the series could not be created.                                         *)
ReadingsAreKept == ShownIsInHistory /\ OnePointPerReading
=============================================================================
