------------------------------- MODULE Series -------------------------------
(***************************************************************************)
(* The time series of an inverter in Redis: one series for each tag, made  *)
(* with labels on first use and remembered as made; the points of a        *)
(* snapshot are queued and sent in one transaction with the current state. *)
(*                                                                         *)
(* TS.ADD makes a series that is missing, without labels, and TS.MRANGE    *)
(* finds series by their labels only.  What is remembered is the memory of *)
(* the process; Redis keeps its data in memory, too, and may lose it while *)
(* the process runs on.  A value is the number of the save it came with.   *)
(***************************************************************************)
EXTENDS Naturals

CONSTANTS
    Tags,
    Names,    \* what the labels say of the device
    Moments,
    MaxSaves, \* BOUND: saves
    None

SeriesAssumption ==
    MaxSaves \in Nat \ {0} /\ None \notin Nat /\ None \notin Names

VARIABLES
    name,    \* the device is called so now
    series,  \* Redis: None, or the name in the labels (None without) and the points
    current, \* Redis: HASH of current states
    created, \* tsCreated
    blocked, \* time.Now() is before tsFailUntil
    pipe,    \* the transaction that is being made: save, moment, tags, or None
    saves,
    hidden,  \* series that lost their labels with the data of Redis, or whose
             \* labels could not be set
    calm     \* no more failures

vars == <<name, series, current, created, blocked, pipe, saves, hidden, calm>>

NoPoints == [ts \in Moments |-> None]
Made(n)  == [name |-> n, points |-> NoPoints]

-----------------------------------------------------------------------------
(* tsEnsure.  A command to Redis may fail; ok says which first command of a *)
(* tag does not, aligned which TS.ALTER after "already exists".             *)

\* TS.ALTER of a series whose labels have changed, TS.CREATE of a new one.
Alters(tag)  == created[tag] \notin {None, name}
Creates(tag) == created[tag] = None /\ ~blocked[tag]

\* TS.ALTER of a series that is not there is an error.
Altered(tag, ok) == Alters(tag) /\ ok[tag] /\ series[tag] # None

Ensured(tag, ok, aligned) ==
    IF Altered(tag, ok) THEN [series[tag] EXCEPT !.name = name]
    ELSE IF ~(Creates(tag) /\ ok[tag]) THEN series[tag]
    ELSE IF series[tag] = None THEN Made(name)
    ELSE IF aligned[tag] THEN [series[tag] EXCEPT !.name = name]
    ELSE series[tag]

\* Faulty variant: a series is made once, its labels stay.
CachedFrozen(tag, ok) ==
    IF Creates(tag) /\ ok[tag] THEN name ELSE created[tag]

\* Faulty variant: TS.CREATE was sent, so the series is there.
CachedUnseen(tag, ok) ==
    IF Altered(tag, ok) \/ Creates(tag) THEN name ELSE created[tag]

\* After "already exists" whether or not the labels could be set.
Cached(tag, ok) ==
    IF Altered(tag, ok) \/ (Creates(tag) /\ ok[tag]) THEN name ELSE created[tag]

\* tsAddValueContract over the tags of a snapshot: all but the blocked are
\* queued, those that could not be made as well.
Save(tags, ts) ==
    /\ pipe = None /\ (saves < MaxSaves \/ calm)
    /\ saves' = IF saves < MaxSaves THEN saves + 1 ELSE saves
    /\ \E ok, aligned \in IF calm THEN {[tag \in Tags |-> TRUE]} ELSE [Tags -> BOOLEAN] :
          /\ series' = [tag \in Tags |->
                IF tag \in tags THEN Ensured(tag, ok, aligned) ELSE series[tag]]
          /\ created' = [tag \in Tags |->
                IF tag \in tags THEN Cached(tag, ok) ELSE created[tag]]
          /\ blocked' = [tag \in Tags |->
                blocked[tag] \/ (tag \in tags /\ Creates(tag) /\ ~ok[tag])]
          /\ hidden' = (hidden \ {tag \in tags : Altered(tag, ok) \/ (Creates(tag) /\ ok[tag])})
                       \cup {tag \in tags : Creates(tag) /\ ok[tag] /\ ~aligned[tag]
                                            /\ series[tag] # None}
    /\ pipe' = [no |-> saves', ts |-> ts, tags |-> {tag \in tags : ~blocked[tag]}]
    /\ UNCHANGED <<name, current, calm>>

\* The points are written and the missing series made.
Added(tag) ==
    IF tag \in pipe.tags
    THEN [(IF series[tag] = None THEN Made(None) ELSE series[tag])
             EXCEPT !.points[pipe.ts] = pipe.no]
    ELSE series[tag]

\* Exec of the transaction: it arrives whole or not at all.
Exec(arrives) ==
    /\ pipe # None /\ pipe' = None
    /\ IF arrives THEN current' = pipe.no /\ series' = [tag \in Tags |-> Added(tag)]
                  ELSE ~calm /\ UNCHANGED <<current, series>>
    /\ UNCHANGED <<name, created, blocked, saves, hidden, calm>>

BackoffEnds ==
    /\ \E tag \in Tags : blocked[tag]
    /\ blocked' = [tag \in Tags |-> FALSE]
    /\ UNCHANGED <<name, series, current, created, pipe, saves, hidden, calm>>

\* The device is called otherwise, by the configuration or by its gateway.
Rename(n) ==
    /\ ~calm /\ n # name /\ name' = n
    /\ UNCHANGED <<series, current, created, blocked, pipe, saves, hidden, calm>>

\* Redis restarts without its data.
RedisLost ==
    /\ ~calm
    /\ series' = [tag \in Tags |-> None] /\ current' = None
    /\ hidden' = {tag \in Tags : created[tag] # None}
    /\ UNCHANGED <<name, created, blocked, pipe, saves, calm>>

\* The service restarts.
Restart ==
    /\ created' = [tag \in Tags |-> None] /\ blocked' = [tag \in Tags |-> FALSE]
    /\ pipe' = None /\ ~calm
    /\ UNCHANGED <<name, series, current, saves, hidden, calm>>

\* The failures are over.  No series is hidden: one that Redis has lost while
\* the service believes in it stays without labels until a restart.
CalmDown ==
    /\ ~calm /\ hidden = {} /\ calm' = TRUE
    /\ UNCHANGED <<name, series, current, created, blocked, pipe, saves, hidden>>

Init ==
    /\ name \in Names
    /\ series = [tag \in Tags |-> None] /\ current = None
    /\ created = [tag \in Tags |-> None] /\ blocked = [tag \in Tags |-> FALSE]
    /\ pipe = None /\ saves = 0 /\ hidden = {} /\ calm = FALSE

SaveAll == \E ts \in Moments : Save(Tags, ts)

Next ==
    \/ SaveAll
    \/ ~calm /\ \E tags \in SUBSET Tags \ {{}}, ts \in Moments : Save(tags, ts)
    \/ \E arrives \in BOOLEAN : Exec(arrives)
    \/ BackoffEnds \/ RedisLost \/ Restart \/ CalmDown
    \/ \E n \in Names : Rename(n)

\* The device is polled on, time passes.
Fairness == WF_vars(SaveAll) /\ WF_vars(Exec(TRUE)) /\ WF_vars(BackoffEnds)

Spec == Init /\ [][Next]_vars /\ Fairness

-----------------------------------------------------------------------------
TypeOK ==
    /\ name \in Names /\ saves \in 0..MaxSaves /\ calm \in BOOLEAN /\ hidden \subseteq Tags
    /\ series \in [Tags -> {None} \cup [name : Names \cup {None},
                                        points : [Moments -> 1..MaxSaves \cup {None}]]]
    /\ current \in 1..MaxSaves \cup {None}
    /\ created \in [Tags -> Names \cup {None}] /\ blocked \in [Tags -> BOOLEAN]
    /\ \A tag \in Tags : blocked[tag] => created[tag] = None
    /\ pipe = None \/ pipe \in [no : 1..MaxSaves, ts : Moments, tags : SUBSET Tags]

(* When the failures are over the labels follow the name of the device, and  *)
(* what was saved last is found whole under it.  CalmDown asks for           *)
(* hidden = {}: a Redis that has lost its data is never over before the      *)
(* service restarts, and this says nothing of the time until then.           *)
LabelsFollow ==
    calm ~> [](/\ \A tag \in Tags : series[tag] # None /\ series[tag].name = name
               /\ \E ts \in Moments : \A tag \in Tags : series[tag].points[ts] = current)

=============================================================================
